\* Two administrators with two requests at a time; two tabs that withdraw; pages
\* of one row, and of one balance, whose jobs have two attempts and may stall
\* once; two consoles and two providers, of which one cannot be brought up; two
\* processes that show a wall, while a run prices it anew.
SPECIFICATION ScreensSpec
CONSTANTS
    User = {a, b}
    Caller = {c1, c2}
    InitialAdmins = {a, b}
    Standings = {"ACTIVE", "SUSPENDED"}
    MaxRequests = 4
    Tab = {c1, c2}
    Typed <- MCTyped
    FirstSettings <- MCFirstSettings
    Settings <- MCSettings
    Unknown = Unknown
    Shut = Shut
    MaxAvailable = 3
    Movements <- MCMovements
    MaxHappenings = 3
    PageSize = 1
    Unread = Unread
    MaxRows = 3
    MaxMoves = 1
    MaxAttempts = 2
    MaxStalled = 1
    MaxDeaths = 2
    Desktop = {c1, c2}
    Provider = {p1, p2}
    Broken = {p2}
    Value = {v1}
    Bad = Bad
    Garbled = Garbled
    Nothing = Nothing
    MaxPresses = 4
    MaxFaults = 1
    Slug = {"p1"}
    Deal = {"o1", "o2"}
    SlugOf <- MCSlugOf
    Builds <- MCBuilds
    Server = {"web1", "web2"}
    Syncer = "worker"
    Deployed <- MCDeployed
    Campaign <- MCCampaign
    RateValues <- MCRateValues
    Visitor = {"v1"}
    None = None
    MaxChanges = 2
    MaxRuns = 1
    MaxStarts = 1
SYMMETRY Symmetry
INVARIANTS AnAdminAlwaysRemains ForksOverlap LinksDoTheirOwn TrailTellsStanding CapIsKept FormsTellTheTruth WalksMissLittle SweepSkipsNobody ConsolesTellTheTruth WallKeepsItsWord PricedTogether
PROPERTY ClearedIsDead
CHECK_DEADLOCK FALSE
