SPECIFICATION Spec
CONSTANTS
    x = x
    v = v
    p = p
    c1 = c1
    c2 = c2
    Nobody = Nobody
    Users = {x, v, p}
    Calls = {c1, c2}
    Initial <- MCInitial
    FirstRole <- MCFirstRole
    MaxSteal = 2
    MaxStars = 2
    LootKept = 2
    Admins = {p}
    Players = {x, p}
    MaxTime = 1
    MaxCommands = 3
SYMMETRY Symmetry
CHECK_DEADLOCK FALSE
INVARIANTS
    TypeOK
    RolesKeptUnderLock
    PrisonBooksAgree
    LootIsPaidOnce
