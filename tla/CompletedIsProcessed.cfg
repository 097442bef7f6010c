\* One fault and a retry.
SPECIFICATION Spec
CONSTANTS
    Users = {u1}
    Customer = u1
    Amounts = {1}
    MaxPoints = 8
    MaxRows = 6
    Earned = earned
    Reversal = reversal
    SecondReversal = secondReversal
    Unconfirmed = unconfirmed
    PostbackIds = {earned}
    PayloadOf <- Events
    Workers = {w1, w2}
    Admins = {a1}
    MaxAttempts = 2
    MaxStalled = 0
    MaxFaults = 1
SYMMETRY Symmetry
INVARIANT CompletedIsProcessed
CHECK_DEADLOCK FALSE
