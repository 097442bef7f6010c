SPECIFICATION Spec
CONSTANTS
    Offer = {o1, o2}
    Slot = {w1, w2}
    Puller = {a1}
    PruneThreshold = 50
    DegradedAfter = 1
    DownAfter = 1
    Handler = {w1, w2}
    Clicker = {u1, u2}
    Address = {ip1}
    Nowhere = Nowhere
    PerUser = 1
    PerAddress = 2
    Worker = {w1, w2}
    Null = Null
    Settings <- MCSettings
    IpVelocityScanLimit = 2
    SharedIdentityScanLimit = 1
    MaxConversions = 3
    Attempt = {w1, w2}
    Email = {m1}
    Source = {i1}
    Unknown = Unknown
    Bucket = {b1}
    MaxPerAccount = 1
    MaxPerSource = 2
    MaxPerBucket = 1
    MaxLost = 1
    ByteBits = 2
    Short = 1
    Long = 3
    NoSource = NoSource
    Event = {o1, o2}
    Receiver = {w1, w2, w3}
    NoEvent = NoEvent
    MaxDeliveries = 5
    MaxFailures = 2
    KeepDaily = 1
    KeepWeekly = 1
    RemoteDaily = 1
    RemoteWeekly = 2
    Week = 2
    MaxDays = 2
    MaxDumps = 2
    MaxMishaps = 2
    Person = {p1, p2}
    Me = p1
    Payout = {q1}
    Held = {c1}
    Closed = Closed
SYMMETRY Symmetry
INVARIANTS HealthTellsStreak OvershootIsBounded ThrottlesHold VelocityHolds RangesAgree IntakeKeepsItsWord ReceiptsTell
PROPERTIES PulledStaysPulled PrunedWasUnseen PagesTellTheTruth
CHECK_DEADLOCK FALSE
