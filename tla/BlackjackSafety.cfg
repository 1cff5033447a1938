SPECIFICATION Spec
CONSTANTS
    ann = ann
    ben = ben
    Player = ann
    Partner = ben
    SharePercent = 50
    Stakes <- MCStakes
    MaxBet = 1
    Most = 4
    Ranks = {1, 10}
    Initial <- MCInitial
    Sids <- MCSids
INVARIANTS
    TypeOK
    StakesCoverTheHands
    ToldIsPaid
    ExpIsEarned
PROPERTIES
    NoMoveAfterReveal
CHECK_DEADLOCK FALSE
