\* Two callers whose transactions overlap, over two users.
SPECIFICATION Spec
CONSTANTS
    Users = {u1, u2}
    Amounts = {1, 2}
    MaxPoints = 3
    MaxRows = 4
    Callers = {w1, w2}
SYMMETRY Symmetry
INVARIANTS TypeOK Reconciles
PROPERTY OnlyDebitsOverdraw
