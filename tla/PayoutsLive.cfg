\* Two administrators contend for one request.
SPECIFICATION FairSpec
CONSTANTS
    Users = {u1}
    Amounts = {1}
    MaxPoints = 2
    MaxRows = 5
    PayoutIds = {p1}
    Admins = {a1, a2}
    NoAdmin = NoAdmin
    PointsPerUnit = 200
    MaxExecutions = 2
PROPERTY ReviewsEnd
