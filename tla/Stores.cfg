SPECIFICATION StoresSpec
CONSTANTS
    None = None
    Unknown = Unknown
    Commits = {c1, c2}
    Procs = {p1, p2}
    MaxRuns = 4
    Events = {"crash", "io", "drift", "recover"}
    Files = {1, 2}
    Delivery <- Redelivered
    Key <- SameKey
    Valid = {1, 2}
    Signals = {1, 2}
    Executions = {"e1", "e2"}
    Matches <- BothMatch
    d1 = d1
    d2 = d2
SYMMETRY Symmetry
INVARIANTS TypeOK OneMutator SelectedWasStaged OperatorsKnow MailIsHonest
PROPERTY ImplementsRegister
CHECK_DEADLOCK FALSE
