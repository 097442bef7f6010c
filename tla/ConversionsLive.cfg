\* One worker slot: three attempts, a stall, a fault, and a reviewer it can deadlock with.
SPECIFICATION FairSpec
CONSTANTS
    Users = {u1}
    Customer = u1
    Amounts = {1}
    MaxPoints = 8
    MaxRows = 6
    Earned = earned
    Reversal = reversal
    SecondReversal = secondReversal
    Unconfirmed = unconfirmed
    PostbackIds = {earned, reversal}
    PayloadOf <- Events
    Workers = {w1}
    Admins = {a1}
    MaxAttempts = 3
    MaxStalled = 1
    MaxFaults = 1
PROPERTIES EnqueuedIsDecided HoldIsReleased
CHECK_DEADLOCK FALSE
