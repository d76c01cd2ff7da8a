SPECIFICATION Spec
CONSTANTS
    r1 = r1
    None = None
    Requests = {r1}
    Payloads = {q1}
    Complete = {q1}
    Deployments = {d1, d2}
    Kind <- KindRedeploy
    ApprovalRule <- OneApprover
    LiveCapable = {r1}
    ExpiresOn <- DayOne
    FreshDays = 1
    Procs = {p1}
    Commands = {"preview", "rehearse", "live"}
    RowIds = {x1, x2, x3}
    Signatures = {"one"}
    MaxDay = 0
    MaxLivePerRun = 1
    MaxDryRunsPerRun = 1
    Serial = TRUE
    Events = {"deploy"}
SYMMETRY Symmetry
INVARIANTS RedeployMatchesDryRun
CHECK_DEADLOCK FALSE
