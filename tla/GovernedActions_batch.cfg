SPECIFICATION FairSpec
CONSTANTS
    r1 = r1
    None = None
    Requests = {r1,r2}
    Payloads = {q1}
    Complete = {q1}
    Deployments = {d1}
    Kind <- KindMixed
    ApprovalRule <- OneApprover
    LiveCapable = {r1,r2}
    ExpiresOn <- DayZero
    FreshDays = 1
    Procs = {p1}
    Commands = {"rehearse","live","sync"}
    RowIds = {x1,x2,x3}
    Signatures = {"one"}
    MaxDay = 1
    MaxLivePerRun = 1
    MaxDryRunsPerRun = 2
    Serial = TRUE
    Events = {"provider","issue","objection","deploy"}
PROPERTIES CommandsEnd RowsResolve
