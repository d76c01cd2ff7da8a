SPECIFICATION SafeguardsSpec
CONSTANTS
    None = None
    Runtimes = {"c1", "c2"}
    Checkout = "checkout"
    Generations = {"g1", "g2"}
    Says <- Sayings
    Pages <- ProjectPages
    Launches <- Launchings
    Exporters = {1, 2}
    MaxChanges = 2
    Files = {1, 2, 3}
    Delivery <- Redelivered
    Key <- SameKey
    Valid = {1, 2}
    Signals = {1, 2}
    Executions = {}
    Day <- Days
    Resolved = {1, 2}
    Runners = {1, 2}
    Matches <- NoMatches
    p1 = p1
    p2 = p2
    x1 = x1
    x2 = x2
SYMMETRY Symmetry
INVARIANTS EffectWasRehearsed MailIsFiledOnce SignalsKept HygieneSafe PacketsFollowed RolloutsSettle SnapshotsStand RowsComplete
CHECK_DEADLOCK FALSE
