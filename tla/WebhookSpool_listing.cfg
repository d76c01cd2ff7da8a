SPECIFICATION ArrivalsSpec
CONSTANTS
    None = None
    LaneOf <- BridgeLanes
    Lanes <- WeeklyLanes
    Pageless = {"packet"}
    Files = {1, 2}
    Delivery <- Redelivered
    Key <- SameKey
    Valid = {1, 2}
    Signals = {1, 2}
    Broken = {}
    Executions = {}
    Matches <- NoMatches
    Exact <- NoMatches
    Drainers = {1, 2}
    MaxRuns = 2
    MaxCreations = 1
    Serial = FALSE
    Events = {}
    Starts <- TowerStarts
    Asked <- TowerAsked
    Runners = {1, 2}
    Phases = 4
    MaxCommands = 2
    MaxCrashes = 1
INVARIANT DuplicatesAreListed
CHECK_DEADLOCK FALSE
