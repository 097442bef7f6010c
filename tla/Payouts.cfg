\* Two administrators and two requests of one user.
SPECIFICATION Spec
CONSTANTS
    Users = {u1}
    Amounts = {1}
    MaxPoints = 2
    MaxRows = 7
    PayoutIds = {p1, p2}
    Admins = {a1, a2}
    NoAdmin = NoAdmin
    PointsPerUnit = 200
    MaxExecutions = 1
SYMMETRY Symmetry
INVARIANTS LockFollowsStatus AuditTellsStatus LockedIsUnderWay
PROPERTY ImplementsLifecycle
