\* One process serves two administrators, the other only reads.
SPECIFICATION FairSpec
CONSTANTS
    Process = {p1, p2}
    Row = {global}
    Admin = {a1, a2}
    Scripts = {}
    Manager = {m1}
    MaxWrites = 3
    MaxChanges = 1
    Api = {p1}
    MaxTotal = 3
    MaxFaults = 1
INVARIANTS StaleIsAwaited EditsReplaceWhatTheySaw
PROPERTY Converges
CHECK_DEADLOCK FALSE
