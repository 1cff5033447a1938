SPECIFICATION Spec
CONSTANTS
    a = a
    b = b
    Challenger = a
    Opponent = b
    Bet = 2
    Citizens = 4
    Initial <- MCInitial
    LostReplies = TRUE
INVARIANTS
    CoinsAccountedFor
    ShownIsPaid
    SplitIsAllOrEven
    TimeoutKeepsResult
    HandsLastLongEnough
    ResultNeedsBothGames
CHECK_DEADLOCK FALSE
