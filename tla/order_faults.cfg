SPECIFICATION FairSpec
CONSTANTS
    Orders = {o1}
    MaxRedeliveries = 2
    MaxRestarts = 1
INVARIANTS
    TypeOK
    NeverWaitsInVain
    ShipsOnlyPaid
    NewsIsTrue
    DamageIsBounded
    CompensationFits
    NothingRejected
PROPERTIES
    NoEndlessWork
    EveryOrderDecided
CHECK_DEADLOCK FALSE
