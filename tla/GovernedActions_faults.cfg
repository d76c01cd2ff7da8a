SPECIFICATION Spec
CONSTANTS
    r1 = r1
    None = None
    Requests = {r1}
    Payloads = {q1, q2}
    Complete = {q1}
    Deployments = {}
    Kind <- KindAppend
    ApprovalRule <- OneApprover
    LiveCapable = {r1}
    ExpiresOn <- DayOne
    FreshDays = 1
    Procs = {p1}
    Commands = {"preview", "rehearse", "live"}
    RowIds = {x1, x2, x3}
    Signatures = {"requester", "one"}
    MaxDay = 0
    MaxLivePerRun = 1
    MaxDryRunsPerRun = 1
    Serial = TRUE
    Events = {"decide", "sign", "edit", "crash", "notion", "provider"}
SYMMETRY Symmetry
INVARIANTS TypeOK ReadyIsBacked EffectWasRehearsed LedgerIsTruthful ExecutedHappened OneSuccessPerKey
PROPERTY RowsKeepIdentity
