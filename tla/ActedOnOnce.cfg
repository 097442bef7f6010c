\* Two callers whose transactions overlap, over one user.
SPECIFICATION Spec
CONSTANTS
    Users = {u1}
    Amounts = {1}
    MaxPoints = 3
    MaxRows = 4
    Callers = {w1, w2}
SYMMETRY Symmetry
INVARIANT ActedOnOnce
