\* An event, an unconfirmed one and two chargebacks: ambiguous, repeated and under review; no faults.
SPECIFICATION Spec
CONSTANTS
    Users = {u1}
    Customer = u1
    Amounts = {1}
    MaxPoints = 8
    MaxRows = 6
    Earned = earned
    Reversal = reversal
    SecondReversal = secondReversal
    Unconfirmed = unconfirmed
    PostbackIds = {earned, unconfirmed, reversal, secondReversal}
    PayloadOf <- Events
    Workers = {w1, w2}
    Admins = {a1}
    MaxAttempts = 1
    MaxStalled = 0
    MaxFaults = 0
SYMMETRY Symmetry
INVARIANTS CreditFollowsStatus ReversalIsWhole
CHECK_DEADLOCK FALSE
