\* An event and its chargeback: jobs that stall and run twice, one fault, a reviewer, the sweep.
SPECIFICATION Spec
CONSTANTS
    Users = {u1}
    Customer = u1
    Amounts = {1}
    MaxPoints = 8
    MaxRows = 6
    Earned = earned
    Reversal = reversal
    SecondReversal = secondReversal
    Unconfirmed = unconfirmed
    PostbackIds = {earned, reversal}
    PayloadOf <- Events
    Workers = {w1, w2}
    Admins = {a1}
    MaxAttempts = 2
    MaxStalled = 1
    MaxFaults = 1
SYMMETRY Symmetry
INVARIANTS PaidOncePerPostback ProcessedHasConversion
PROPERTIES ImplementsLifecycle
CHECK_DEADLOCK FALSE
