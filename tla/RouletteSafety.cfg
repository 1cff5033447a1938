SPECIFICATION Spec
CONSTANTS
    h = h
    a = a
    b = b
    c = c
    Players = {h, a, b, c}
    Host = h
    Bet = 1
    Modes = {"duel", "royale", "rematch"}
    MinPlayers = 3
    MaxPlayers = 4
    Chambers = 2
    ExtraChambers = 1
    Initial = 2
    MaxBets = 4
    MaxRestarts = 1
SYMMETRY Symmetry
INVARIANTS
    TypeOK
    
    
    GunOutlastsPlayers
CHECK_DEADLOCK FALSE
