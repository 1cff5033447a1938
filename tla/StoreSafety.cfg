SPECIFICATION Spec
CONSTANTS
    a = a
    b = b
    duel = duel
    packet = packet
    w1 = w1
    w2 = w2
    Sids = {duel, packet}
    Users = {a, b}
    Workers = {w1, w2}
    Requests <- SafetyRequests
    Payouts <- DuelPayouts
    Initial <- SafetyInitial
    TTL = 1
SYMMETRY WorkerSymmetry
INVARIANTS
    TypeOK
    PaidExactlyOnce
    RefundMakesWhole
    ChargedOncePerEvent
    MoneyConserved
    ReceiptsAgree
    PacketServesEveryShare
PROPERTIES
    DecidedIsFrozen
    RecoverySparesLiveGames
    KeepsPromise
