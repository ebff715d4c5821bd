SPECIFICATION Spec
CONSTANTS
    Requests = {r1, r2, r3}
    Books = {b1, b2}
    Isbns = {i1, i2}
    None = None
    InitialStock = 2
    MaxQuantity = 2
    MaxRestarts = 1
SYMMETRY Symmetry
INVARIANT NeverOversold
CHECK_DEADLOCK FALSE
