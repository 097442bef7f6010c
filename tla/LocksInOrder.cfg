\* A chargeback and a reviewer of the same conversion.
SPECIFICATION Spec
CONSTANTS
    Users = {u1}
    Customer = u1
    Amounts = {1}
    MaxPoints = 8
    MaxRows = 6
    Earned = earned
    Reversal = reversal
    SecondReversal = secondReversal
    Unconfirmed = unconfirmed
    PostbackIds = {earned, reversal}
    PayloadOf <- Events
    Workers = {w1, w2}
    Admins = {a1}
    MaxAttempts = 1
    MaxStalled = 0
    MaxFaults = 0
SYMMETRY Symmetry
INVARIANT LocksInOrder
CHECK_DEADLOCK FALSE
