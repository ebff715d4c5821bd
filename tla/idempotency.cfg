SPECIFICATION Spec
CONSTANTS
    Requests = {r1, r2, r3, r4}
    Keys = {k1, k2}
    None = None
INVARIANTS
    TypeOK
    EveryRepetitionHasACause
    OneReceiptPerKey
CHECK_DEADLOCK FALSE
