SPECIFICATION Spec
CONSTANTS
    a = a
    b = b
    c1 = c1
    c2 = c2
    m1 = m1
    m2 = m2
    Nobody = Nobody
    Users = {a, b}
    Players = {a}
    Calls = {c1, c2}
    Messages = {}
    DayLen = 2
    MaxLevel = 2
    MaxRescues = 1
    MaxTime = 2
    MaxEvents = 4
    FlushCount = 2
    RewardCount = 2
SYMMETRY Symmetry
CHECK_DEADLOCK FALSE
INVARIANTS
    HourPaidOnce
