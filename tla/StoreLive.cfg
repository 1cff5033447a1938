SPECIFICATION FairSpec
CONSTANTS
    a = a
    b = b
    duel = duel
    packet = packet
    w1 = w1
    w2 = w2
    Sids = {duel, packet}
    Users = {a, b}
    Workers = {w1}
    Requests <- LiveRequests
    Payouts <- DuelPayouts
    Initial <- LiveInitial
    TTL = 1
PROPERTIES
    DecidedGetsPaid
    OrphansGetRefunded
    AbandonedGetsRefunded
