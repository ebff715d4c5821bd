SPECIFICATION Spec
CONSTANTS
    Orders = {o1, o2, o3}
    Deletions = {d1}
    Books = {b1, u1}
    Unlisted = {u1}
    Quantities = {0, 1, 2}
    InitialStock = 2
INVARIANTS
    TypeOK
    ExactUnlessCrossed
    RefusalIsRight
CHECK_DEADLOCK FALSE
