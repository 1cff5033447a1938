SPECIFICATION Spec
CONSTANTS
    h = h
    a = a
    b = b
    c = c
    Players = {h, a, b}
    Host = h
    Bet = 1
    Modes = {"duel"}
    MinPlayers = 3
    MaxPlayers = 3
    Chambers = 2
    ExtraChambers = 1
    Initial = 2
    MaxBets = 3
    MaxRestarts = 0
INVARIANTS
    RowAlwaysBacked
CHECK_DEADLOCK FALSE
