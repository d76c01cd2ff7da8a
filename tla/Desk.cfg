SPECIFICATION DeskSpec
CONSTANTS
    None = None
    Unknown = Unknown
    c1 = c1
    c2 = c2
    t1 = t1
    t2 = t2
    old = old
    made = made
    more = more
    edited = edited
    Actions = {a1, a2}
    Keys = {"k"}
    Key <- OneKey
    Targets = {t1, t2}
    Values = {None, old, made, more, edited}
    Starts <- Found
    Changes <- Plans
    Split <- Splits
    Edits = {edited}
    Procs = {p1, p2}
    MaxRuns = 2
    MaxEdits = 1
    Happenings = {"edit", "crash", "power", "provider"}
    Projects <- Two
    Library <- Research
    Kinds = {"research"}
    Kind <- OneKind
    Fit <- Texts
    Minimum = 70
    StartLinks <- FirstLinks
    MaxTurns = 2
    Contents <- Standing
    Portfolios <- AnyPortfolio
    FirstDay = 60
    LastDay = 61
    MaxChanges = 1
    FreshMaxDays = 14
    AgingMaxDays = 45
    Cadence <- Weekly
SYMMETRY Symmetry
INVARIANTS SpentOnce ReceiptsTellTheTruth NothingBlind ReceiptFollows OnlyHindrancesFail PointerIsGenuine LinksSafe FieldsSettle BlockersNeverHelp PagesSafe
PROPERTY PagesKeep
CHECK_DEADLOCK FALSE
