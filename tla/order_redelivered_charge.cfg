SPECIFICATION Spec
CONSTANTS
    Orders = {o1}
    MaxRedeliveries = 1
    MaxRestarts = 0
INVARIANT ChargedAtMostOnce
CHECK_DEADLOCK FALSE
