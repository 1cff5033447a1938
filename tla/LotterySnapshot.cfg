SPECIFICATION Spec
CONSTANTS
    a = a
    b = b
    w1 = w1
    w2 = w2
    Nobody = Nobody
    Users = {a, b}
    Workers = {w1, w2}
    Task = w1
    LastDay = 3
    Cost = 2
    MaxTickets = 2
    Initial <- MCInitial
INVARIANTS
    EveryTicketCounts
