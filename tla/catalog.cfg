SPECIFICATION Spec
CONSTANTS
    t1 = t1
    t2 = t2
    c1 = c1
    c2 = c2
    Requests = {r1, r2, r3}
    Books = {b1, b2}
    Titles = {t1, t2}
    Categories = {c1, c2}
    Lower <- MCLower
    Forms <- TwoForms
    None = None
INVARIANTS
    TypeOK
    EntriesAreFresh
    TitlesAreUnique
    HandlersKnow
PROPERTIES
    GoneStaysGone
    UncrossedUpdateIsComplete
SYMMETRY Symmetry
CHECK_DEADLOCK FALSE
