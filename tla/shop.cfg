SPECIFICATION ShopSpec
CONSTANTS
    Orders = {r1, r2}
    MaxRedeliveries = 0
    Customers = {ali}
    Products = {rare}
    Listed = {rare}
    SoldOut = {rare}
    MaxMinutes = 1
    MaxRestarts = 1
SYMMETRY Symmetry
INVARIANTS
    RefusalsHaveNoConsequences
    LateClickNeverPays
    ConflictIsTrue
PROPERTIES
    ImplementsFlow
    ImplementsLifecycle
CHECK_DEADLOCK FALSE
