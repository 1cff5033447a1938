------------------------------- MODULE Lottery -------------------------------
(***************************************************************************)
(* The daily lottery (bot_modules/lottery_repo.py): the rounds, the        *)
(* entries, and the calls that sell tickets and draw what is due.          *)
(*                                                                         *)
(* Every call of the module, of the task lottery_draw_task or of a user,   *)
(* begins with finalize_due_rounds_sync: one transaction that reads the    *)
(* list of undrawn rounds and then, round by round, locks the row of the   *)
(* round, draws it and commits.  The first read of an InnoDB transaction   *)
(* (REPEATABLE READ) fixes the snapshot that its later plain SELECTs see;  *)
(* a locking read sees what is committed.  Commit ends the snapshot.       *)
(*                                                                         *)
(* Both transactions lock the round first and the user second, and hold    *)
(* the locks until they commit, so what they do after taking the lock of   *)
(* the round is one step.                                                  *)
(***************************************************************************)
EXTENDS Integers, FiniteSets, Functions

CONSTANTS
    Users,      \* users who buy tickets
    Workers,    \* threads that run the calls
    Task,       \* the one of lottery_draw_task
    LastDay,    \* bound of the model: the calendar ends here
    Cost,       \* LOTTERY_TICKET_COST
    MaxTickets, \* LOTTERY_MAX_TICKETS_PER_BUY
    Initial,    \* the balances before the first day
    Nobody

Days == 1 .. LastDay

ASSUME UsersAssumption == IsFiniteSet(Users)
ASSUME NobodyAssumption == Nobody \notin Users
ASSUME TaskAssumption == Task \in Workers
ASSUME LastDayAssumption == LastDay \in Nat \ {0}
ASSUME CostAssumption == Cost \in Nat \ {0}
ASSUME MaxTicketsAssumption == MaxTickets \in Nat \ {0}
ASSUME BalancesAssumption == Initial \in [Users -> Nat]

VARIABLES
    today,      \* the date
    balance,    \* users.balance
    made,       \* the days with a row in lottery_rounds
    pool, count,    \* pool_amount and ticket_count of each round
    winner, drawn,  \* winner_id of each round, and whether drawn_at is set
    entries,    \* lottery_entries.tickets
    prizes,     \* log rows: what each draw credited
    weighed,    \* the entries each draw chose from
    call        \* what each worker is doing

round == <<made, pool, count, winner, drawn, entries>>
vars == <<today, balance, round, prizes, weighed, call>>

NoTickets == [u \in Users |-> 0]

(***************************************************************************)
(* A call: "now" is the time it took when it began, "user" buys "tickets"  *)
(* (Nobody for a draw or a status query), "todo" are the rounds that are   *)
(* left on its list, and "snapshot" the entries its transaction sees; it   *)
(* has none before its first read and after a commit.                      *)
(***************************************************************************)
Idle == [at |-> "idle"]

NoSnapshot == [d \in {} |-> NoTickets]

Started(now, u, n) == [at |-> "start", now |-> now, user |-> u, tickets |-> n]

Drawing(k, todo, snapshot) ==
    [at |-> "draw", now |-> k.now, user |-> k.user, tickets |-> k.tickets,
     todo |-> todo, snapshot |-> snapshot]

Init ==
    /\ today = 1
    /\ balance = Initial
    /\ made = {}
    /\ pool = [d \in Days |-> 0]
    /\ count = [d \in Days |-> 0]
    /\ winner = [d \in Days |-> Nobody]
    /\ drawn = [d \in Days |-> FALSE]
    /\ entries = [d \in Days |-> NoTickets]
    /\ prizes = [d \in Days |-> NoTickets]
    /\ weighed = [d \in Days |-> NoTickets]
    /\ call = [w \in Workers |-> Idle]

(***************************************************************************)
(* finalize_due_rounds_sync                                                *)
(***************************************************************************)
Start(w, u, n) ==
    /\ call[w] = Idle
    /\ (u = Nobody) = (n = 0)
    /\ call' = [call EXCEPT ![w] = Started(today, u, n)]
    /\ UNCHANGED <<today, balance, round, prizes, weighed>>

\* Mutant: the round of the day is drawn with the others.
DueMutant(d, now) == d \in made /\ ~drawn[d] /\ d <= now

\* Mutant: only the round of yesterday is drawn.
DueMutantYesterday(d, now) == d \in made /\ ~drawn[d] /\ d = now - 1

\* What the SELECT of the undrawn rounds and the loop over it keep.
Due(d, now) == d \in made /\ ~drawn[d] /\ d < now

Scan(w) ==
    /\ call[w].at = "start"
    /\ call' = [call EXCEPT ![w] =
            Drawing(call[w], {d \in Days : Due(d, call[w].now)}, entries)]
    /\ UNCHANGED <<today, balance, round, prizes, weighed>>

\* Mutant: the round is not read again under its lock.
ClosedMutant(d) == d \notin made

Closed(d) == drawn[d]

\* What the SELECT of the entries sees after the round is locked: the
\* snapshot of the transaction, or a new one.
Seen(k, d) == IF k.snapshot = NoSnapshot THEN entries[d] ELSE k.snapshot[d]

\* The row of the round is locked, the prize paid and the round closed.
Draw(d, tickets) ==
    /\ drawn' = [drawn EXCEPT ![d] = TRUE]
    /\ weighed' = [weighed EXCEPT ![d] = tickets]
    /\ \/ /\ count[d] > 0 /\ pool[d] > 0
          /\ \E u \in Users :
                /\ tickets[u] > 0
                /\ balance' = [balance EXCEPT ![u] = @ + pool[d]]
                /\ prizes' = [prizes EXCEPT ![d][u] = @ + pool[d]]
                /\ winner' = [winner EXCEPT ![d] = u]
       \/ /\ count[d] = 0 \/ pool[d] = 0 \/ tickets = NoTickets
          /\ winner' = [winner EXCEPT ![d] = Nobody]
          /\ UNCHANGED <<balance, prizes>>
    /\ UNCHANGED <<made, pool, count, entries>>

DrawRound(w) ==
    /\ call[w].at = "draw"
    /\ LET k == call[w] IN
        \E d \in k.todo :
            /\ \A e \in k.todo : d <= e
            /\ \/ ~Closed(d) /\ Draw(d, Seen(k, d))
               \/ Closed(d) /\ UNCHANGED <<balance, round, prizes, weighed>>
            /\ call' = [call EXCEPT ![w] = Drawing(k, k.todo \ {d}, NoSnapshot)]
    /\ UNCHANGED today

\* The end of a draw or a status query.
Finish(w) ==
    /\ call[w].at = "draw" /\ call[w].todo = {} /\ call[w].user = Nobody
    /\ call' = [call EXCEPT ![w] = Idle]
    /\ UNCHANGED <<today, balance, round, prizes, weighed>>

(***************************************************************************)
(* buy_lottery_tickets_sync, after the rounds that are due are drawn.      *)
(***************************************************************************)
\* Mutant: a closed round still sells tickets.
SellsMutant(d) == d \in Days

Sells(d) == ~drawn[d]

\* Mutant: the balance is not compared with the price.
AffordsMutant(u, n) == balance[u] >= n

Affords(u, n) == balance[u] >= n * Cost

Buy(w) ==
    /\ call[w].at = "draw" /\ call[w].todo = {}
    /\ LET d == call[w].now
           u == call[w].user
           n == call[w].tickets
       IN  /\ u # Nobody
           /\ Sells(d)
           /\ Affords(u, n)
           /\ balance' = [balance EXCEPT ![u] = @ - n * Cost]
           /\ made' = made \union {d}
           /\ entries' = [entries EXCEPT ![d][u] = @ + n]
           /\ pool' = [pool EXCEPT ![d] = @ + n * Cost]
           /\ count' = [count EXCEPT ![d] = @ + n]
    /\ call' = [call EXCEPT ![w] = Idle]
    /\ UNCHANGED <<today, winner, drawn, prizes, weighed>>

\* A refused purchase, or an error anywhere in a call: what is not committed
\* is rolled back.
Fail(w) ==
    /\ call[w] # Idle
    /\ call' = [call EXCEPT ![w] = Idle]
    /\ UNCHANGED <<today, balance, round, prizes, weighed>>

Midnight ==
    /\ today < LastDay
    /\ today' = today + 1
    /\ UNCHANGED <<balance, round, prizes, weighed, call>>

Next ==
    \/ \E w \in Workers :
        \/ \E u \in Users \union {Nobody}, n \in 0 .. MaxTickets : Start(w, u, n)
        \/ Scan(w) \/ DrawRound(w) \/ Finish(w) \/ Buy(w) \/ Fail(w)
    \/ Midnight

Spec == Init /\ [][Next]_vars

(***************************************************************************)
(* Fairness: the thread of the task goes on to its next call when one is   *)
(* over; its calls end, one way or another (the database and the           *)
(* connections have timeouts), and do not fail for ever.  Nothing is       *)
(* assumed of the other threads, nor that their calls end.                 *)
(***************************************************************************)
Fairness ==
    /\ WF_vars(Start(Task, Nobody, 0) \/ Finish(Task) \/ Buy(Task) \/ Fail(Task))
    /\ SF_vars(Scan(Task)) /\ SF_vars(DrawRound(Task))

FairSpec == Spec /\ Fairness

-----------------------------------------------------------------------------
Snapshot == [Days -> [Users -> Nat]] \union {NoSnapshot}

Call ==
    {Idle}
    \union [at : {"start"}, now : Days, user : Users \union {Nobody}, tickets : Nat]
    \union [at : {"draw"}, now : Days, user : Users \union {Nobody}, tickets : Nat,
            todo : SUBSET Days, snapshot : Snapshot]

\* The types of the columns and of the calls; in particular no balance
\* becomes negative.
TypeOK ==
    /\ today \in Days
    /\ balance \in [Users -> Nat]
    /\ made \subseteq Days
    /\ pool \in [Days -> Nat] /\ count \in [Days -> Nat]
    /\ winner \in [Days -> Users \union {Nobody}]
    /\ drawn \in [Days -> BOOLEAN]
    /\ entries \in [Days -> [Users -> Nat]]
    /\ prizes \in [Days -> [Users -> Nat]]
    /\ weighed \in [Days -> [Users -> Nat]]
    /\ call \in [Workers -> Call]

\* A round pays its whole pool to one user, once, however many calls draw it
\* at the same time, and a round that sold a ticket is not closed without a
\* winner: the pool of a round is never lost (finalize_due_rounds_sync).
PoolIsPaidOnce ==
    \A d \in Days :
        /\ prizes[d] = [u \in Users |-> IF drawn[d] /\ u = winner[d] THEN pool[d] ELSE 0]
        /\ drawn[d] /\ count[d] > 0 => winner[d] # Nobody

\* The pools that no draw has paid out.
Unpaid == [d \in Days |-> IF drawn[d] THEN 0 ELSE pool[d]]

\* What users paid is in a pool that was not drawn yet, or came back to a
\* winner: no ticket is sold into a round that is closed already
\* (buy_lottery_tickets_sync).
PurseAndPools ==
    SumFunction(balance) + SumFunction(Unpaid) = SumFunction(Initial)

\* A closed round stays as it is: no draw replaces its winner, no purchase
\* changes its pool.
ClosedIsFinal ==
    [][\A d \in Days : drawn[d] =>
        /\ drawn'[d] /\ winner'[d] = winner[d]
        /\ pool'[d] = pool[d] /\ entries'[d] = entries[d]]_vars

(***************************************************************************)
(* Why it holds: a round that has a row sold a ticket, because its row is  *)
(* committed together with the first entry; so had every round on the list *)
(* of a call when the list was read; and the snapshot of the list shows    *)
(* an entry in each of them.                                               *)
(***************************************************************************)
RowsAreSold ==
    \A d \in Days :
        /\ d \in made => count[d] > 0 /\ pool[d] > 0 /\ entries[d] # NoTickets
        /\ d \notin made => count[d] = 0

ListsAreSold ==
    \A w \in Workers :
        /\ call[w].at # "idle" => (call[w].user = Nobody) = (call[w].tickets = 0)
        /\ call[w].at = "draw" =>
              /\ call[w].todo \subseteq made
              /\ call[w].snapshot # NoSnapshot =>
                    \A d \in call[w].todo : call[w].snapshot[d] # NoTickets

LInv == TypeOK /\ PoolIsPaidOnce /\ RowsAreSold /\ ListsAreSold

\* Every ticket that was paid for takes part in the draw.  The comment at the
\* lock of the round says that the draw sees the latest committed state; the
\* SELECT of the entries is not a locking read.
EveryTicketCounts == \A d \in Days : drawn[d] => weighed[d] = entries[d]

\* A day that is over is drawn in the end, if it sold a ticket.
DueIsDrawn == \A d \in Days : (d \in made /\ today > d) ~> drawn[d]
===============================================================================
