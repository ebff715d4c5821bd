SPECIFICATION IntakeFairSpec
CONSTANTS
    Orders = {r1, r2}
    MaxRedeliveries = 1
    Customers = {ali}
    Products = {book, rare, ghost}
    Listed = {book, rare}
    SoldOut = {rare}
    MaxMinutes = 2
    MaxRestarts = 2
INVARIANT LateClickIsCaught
PROPERTY AcceptedIsAnnounced
CHECK_DEADLOCK FALSE
