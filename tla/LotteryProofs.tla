---------------------------- MODULE LotteryProofs ----------------------------
(***************************************************************************)
(* Theorems about Lottery: whatever the users, the calls and the calendar, *)
(* a round pays its pool once, what is closed stays closed, and no coin is *)
(* lost between the balances and the pools.                                *)
(***************************************************************************)
EXTENDS Lottery, SumTheorems

USE LastDayAssumption, CostAssumption, MaxTicketsAssumption, BalancesAssumption,
    NobodyAssumption

\* Everything but the calls.
Columns == <<today, balance, round, prizes, weighed>>

\* The values the calls start from have their types.
LEMMA IdleIsCall == Idle \in Call
BY DEF Idle, Call

\* Nobody has a ticket.
LEMMA NoTicketsType == NoTickets \in [Users -> Nat]
BY DEF NoTickets

\* No transaction has read anything.
LEMMA NoSnapshotType == NoSnapshot \in Snapshot
BY DEF Snapshot

\* The fields of a call that is at work.
LEMMA CallFields ==
    ASSUME NEW k \in Call
    PROVE  /\ k.at \in {"idle", "start", "draw"}
           /\ k.at = "idle" => k = Idle
           /\ k.at # "idle" => /\ k.now \in Days
                               /\ k.user \in Users \union {Nobody}
                               /\ k.tickets \in Nat
           /\ k.at = "draw" => /\ k.todo \in SUBSET Days
                               /\ k.snapshot \in Snapshot
BY DEF Call, Idle

\* A call that goes on drawing is a call.
LEMMA DrawingType ==
    ASSUME NEW k \in Call, k.at # "idle",
           NEW todo \in SUBSET Days, NEW snapshot \in Snapshot
    PROVE  Drawing(k, todo, snapshot) \in Call
<1>1. k.now \in Days /\ k.user \in Users \union {Nobody} /\ k.tickets \in Nat
  BY CallFields
<1> QED BY <1>1 DEF Call, Drawing

\* The first state.
LEMMA InitEstablishes == Init => LInv
<1> SUFFICES ASSUME Init PROVE LInv
  OBVIOUS
<1>1. TypeOK
  BY IdleIsCall, NoTicketsType DEF Init, TypeOK, Days
<1>2. PoolIsPaidOnce
  BY DEF Init, PoolIsPaidOnce, NoTickets
<1>3. RowsAreSold
  BY DEF Init, RowsAreSold
<1>4. ListsAreSold
  BY DEF Init, ListsAreSold, Idle
<1> QED BY <1>1, <1>2, <1>3, <1>4 DEF LInv

(***************************************************************************)
(* The steps.                                                              *)
(***************************************************************************)
LEMMA StartKeeps ==
    ASSUME LInv, NEW w \in Workers, NEW u \in Users \union {Nobody},
           NEW n \in 0 .. MaxTickets, Start(w, u, n)
    PROVE  LInv'
<1> USE DEF LInv, Start, round
<1>1. Started(today, u, n) \in Call
  BY DEF TypeOK, Call, Started
<1>2. TypeOK'
  BY <1>1 DEF TypeOK
<1>3. PoolIsPaidOnce' /\ RowsAreSold'
  BY DEF PoolIsPaidOnce, RowsAreSold
<1>4. ListsAreSold'
  BY DEF ListsAreSold, Started, TypeOK
<1> QED BY <1>2, <1>3, <1>4

\* The snapshot is opened, and the due rounds are listed.
LEMMA ScanKeeps ==
    ASSUME LInv, NEW w \in Workers, Scan(w)
    PROVE  LInv'
<1> DEFINE todo == {d \in Days : Due(d, call[w].now)}
<1> USE DEF LInv, round
<1>0. call[w] \in Call /\ entries \in Snapshot
  BY DEF TypeOK, Snapshot
<1>1. Drawing(call[w], todo, entries) \in Call
  BY <1>0, DrawingType DEF Scan
<1>2. TypeOK'
  BY <1>1 DEF TypeOK, Scan
<1>3. PoolIsPaidOnce' /\ RowsAreSold'
  BY DEF PoolIsPaidOnce, RowsAreSold, Scan
<1>4. \A d \in todo : d \in made /\ entries[d] # NoTickets
  BY DEF Due, RowsAreSold
<1>5. ListsAreSold'
  BY <1>4 DEF ListsAreSold, Scan, Drawing, TypeOK
<1> QED BY <1>2, <1>3, <1>5

\* What a draw chooses from is never empty, and has the type of a round's
\* entries.
LEMMA SeenIsSold ==
    ASSUME LInv, NEW w \in Workers, call[w].at = "draw", NEW d \in call[w].todo
    PROVE  /\ d \in Days
           /\ Seen(call[w], d) \in [Users -> Nat]
           /\ Seen(call[w], d) # NoTickets
<1>1. call[w].todo \subseteq Days /\ call[w].snapshot \in Snapshot
  BY CallFields DEF LInv, TypeOK
<1>2. CASE call[w].snapshot = NoSnapshot
  BY <1>1, <1>2 DEF LInv, TypeOK, Seen, ListsAreSold, RowsAreSold
<1>3. CASE call[w].snapshot # NoSnapshot
  BY <1>1, <1>3 DEF LInv, Seen, ListsAreSold, Snapshot
<1> QED BY <1>2, <1>3

\* A draw of a round that is not closed finds a winner.
LEMMA DrawFindsWinner ==
    ASSUME LInv, NEW d \in Days, d \in made,
           NEW tickets \in [Users -> Nat], tickets # NoTickets, Draw(d, tickets)
    PROVE  \E u \in Users :
              /\ balance' = [balance EXCEPT ![u] = @ + pool[d]]
              /\ prizes' = [prizes EXCEPT ![d][u] = @ + pool[d]]
              /\ winner' = [winner EXCEPT ![d] = u]
<1>1. count[d] \in Nat /\ count[d] > 0 /\ pool[d] \in Nat /\ pool[d] > 0
  BY DEF LInv, RowsAreSold, TypeOK
<1> QED BY <1>1 DEF Draw

\* A round of the list is drawn under its lock.
LEMMA DrawRoundKeeps ==
    ASSUME LInv, NEW w \in Workers, DrawRound(w)
    PROVE  LInv'
<1> DEFINE k == call[w]
<1>1. k \in Call /\ k.at = "draw"
  BY DEF LInv, TypeOK, DrawRound
<1>2. PICK d \in k.todo :
        /\ \/ ~Closed(d) /\ Draw(d, Seen(k, d))
           \/ Closed(d) /\ UNCHANGED <<balance, round, prizes, weighed>>
        /\ call' = [call EXCEPT ![w] = Drawing(k, k.todo \ {d}, NoSnapshot)]
  BY DEF DrawRound
<1>3. d \in Days /\ d \in made /\ Seen(k, d) \in [Users -> Nat] /\ Seen(k, d) # NoTickets
  BY <1>1, <1>2, SeenIsSold DEF LInv, ListsAreSold
<1>4. Drawing(k, k.todo \ {d}, NoSnapshot) \in Call
  BY <1>1, CallFields, DrawingType, NoSnapshotType
<1>5. call' \in [Workers -> Call]
  BY <1>2, <1>4 DEF LInv, TypeOK
<1>6. made' = made /\ UNCHANGED <<today, pool, count, entries>>
  BY <1>2 DEF DrawRound, Draw, round
<1>7. RowsAreSold'
  BY <1>6 DEF LInv, RowsAreSold
<1>8. ListsAreSold'
  <2> SUFFICES ASSUME NEW v \in Workers
      PROVE  /\ call'[v].at # "idle" => (call'[v].user = Nobody) = (call'[v].tickets = 0)
             /\ call'[v].at = "draw" =>
                  /\ call'[v].todo \subseteq made
                  /\ call'[v].snapshot # NoSnapshot =>
                        \A e \in call'[v].todo : call'[v].snapshot[e] # NoTickets
    BY <1>6 DEF ListsAreSold
  <2>1. CASE v = w
    BY <1>1, <1>2, <2>1 DEF LInv, TypeOK, ListsAreSold, Drawing
  <2>2. CASE v # w
    BY <1>2, <2>2 DEF LInv, TypeOK, ListsAreSold
  <2> QED BY <2>1, <2>2
<1>9. CASE Closed(d) /\ UNCHANGED <<balance, round, prizes, weighed>>
  <2>1. TypeOK'
    BY <1>5, <1>6, <1>9 DEF LInv, TypeOK, round
  <2>2. PoolIsPaidOnce'
    BY <1>9 DEF LInv, PoolIsPaidOnce, round
  <2> QED BY <2>1, <2>2, <1>7, <1>8 DEF LInv
<1>10. CASE ~Closed(d) /\ Draw(d, Seen(k, d))
  <2>1. PICK u \in Users :
            /\ balance' = [balance EXCEPT ![u] = @ + pool[d]]
            /\ prizes' = [prizes EXCEPT ![d][u] = @ + pool[d]]
            /\ winner' = [winner EXCEPT ![d] = u]
    BY <1>3, <1>10, DrawFindsWinner
  <2>2. /\ drawn' = [drawn EXCEPT ![d] = TRUE]
        /\ weighed' = [weighed EXCEPT ![d] = Seen(k, d)]
    BY <1>10 DEF Draw
  <2>3. TypeOK'
    BY <1>3, <1>5, <1>6, <2>1, <2>2 DEF LInv, TypeOK
  <2>4. prizes[d] = [x \in Users |-> 0]
    BY <1>3, <1>10 DEF LInv, PoolIsPaidOnce, Closed
  <2>5. prizes'[d] = [x \in Users |-> IF x = u THEN pool[d] ELSE 0]
    <3>1. prizes'[d] = [prizes[d] EXCEPT ![u] = prizes[d][u] + pool[d]]
      BY <1>3, <2>1 DEF LInv, TypeOK
    <3>2. prizes[d][u] + pool[d] = pool[d]
      BY <1>3, <2>1, <2>4 DEF LInv, TypeOK
    <3> QED BY <2>1, <2>4, <3>1, <3>2
  <2>6. drawn'[d] /\ winner'[d] = u /\ u # Nobody
    BY <1>3, <2>1, <2>2 DEF LInv, TypeOK
  <2>7. \A e \in Days \ {d} :
            prizes'[e] = prizes[e] /\ drawn'[e] = drawn[e] /\ winner'[e] = winner[e]
    BY <2>1, <2>2 DEF LInv, TypeOK
  <2>8. PoolIsPaidOnce'
    BY <1>6, <2>5, <2>6, <2>7 DEF LInv, PoolIsPaidOnce
  <2> QED BY <1>7, <1>8, <2>3, <2>8 DEF LInv
<1> QED BY <1>2, <1>9, <1>10

\* A purchase adds to the round of its day.
LEMMA BuyKeeps ==
    ASSUME LInv, NEW w \in Workers, Buy(w)
    PROVE  LInv'
<1> DEFINE d == call[w].now
           u == call[w].user
           n == call[w].tickets
<1>1. /\ call[w] \in Call /\ call[w].at = "draw" /\ u # Nobody
      /\ call' = [call EXCEPT ![w] = Idle]
  BY DEF LInv, TypeOK, Buy
<1>2. d \in Days /\ u \in Users /\ n \in Nat /\ n # 0
  BY <1>1, CallFields DEF LInv, ListsAreSold
<1>3. /\ n * Cost \in Nat /\ n * Cost > 0 /\ balance[u] >= n * Cost
      /\ balance[u] - n * Cost \in Nat
  <2>1. n * Cost \in Nat /\ n * Cost > 0
    BY <1>2, SMT
  <2>2. balance[u] >= n * Cost /\ balance[u] \in Nat
    BY <1>2 DEF Buy, Affords, LInv, TypeOK
  <2> QED
    <3> DEFINE price == n * Cost
    <3>1. price \in Nat /\ balance[u] >= price
      BY <2>1, <2>2
    <3> HIDE DEF price
    <3>2. balance[u] - price \in Nat
      BY <2>2, <3>1
    <3> QED BY <2>1, <2>2, <3>2 DEF price
<1>4. PICK price \in Nat \ {0} : price = n * Cost
  BY <1>3
<1>5. /\ balance' = [balance EXCEPT ![u] = @ - price]
      /\ made' = made \union {d}
      /\ entries' = [entries EXCEPT ![d][u] = @ + n]
      /\ pool' = [pool EXCEPT ![d] = @ + price]
      /\ count' = [count EXCEPT ![d] = @ + n]
      /\ UNCHANGED <<today, winner, drawn, prizes, weighed>>
      /\ ~drawn[d]
  BY <1>4 DEF Buy, Sells
<1>6. TypeOK'
  <2>1. call' \in [Workers -> Call]
    BY <1>1, IdleIsCall DEF LInv, TypeOK
  <2>2. balance' \in [Users -> Nat]
    BY <1>2, <1>3, <1>4, <1>5 DEF LInv, TypeOK
  <2>3. /\ made' \subseteq Days /\ entries' \in [Days -> [Users -> Nat]]
        /\ pool' \in [Days -> Nat] /\ count' \in [Days -> Nat]
    BY <1>2, <1>4, <1>5 DEF LInv, TypeOK
  <2> QED BY <1>5, <2>1, <2>2, <2>3 DEF LInv, TypeOK
<1>7. PoolIsPaidOnce'
  <2> SUFFICES ASSUME NEW e \in Days
      PROVE  /\ prizes'[e] = [x \in Users |-> IF drawn'[e] /\ x = winner'[e] THEN pool'[e] ELSE 0]
             /\ drawn'[e] /\ count'[e] > 0 => winner'[e] # Nobody
    BY DEF PoolIsPaidOnce
  <2>1. CASE e = d
    BY <1>5, <2>1 DEF LInv, PoolIsPaidOnce
  <2>2. CASE e # d
    BY <1>5, <2>2 DEF LInv, PoolIsPaidOnce, TypeOK
  <2> QED BY <2>1, <2>2
<1>8. RowsAreSold'
  <2> SUFFICES ASSUME NEW e \in Days
      PROVE  /\ e \in made' => count'[e] > 0 /\ pool'[e] > 0 /\ entries'[e] # NoTickets
             /\ e \notin made' => count'[e] = 0
    BY DEF RowsAreSold
  <2>1. CASE e = d
    <3>1. entries'[d][u] = entries[d][u] + n /\ entries[d][u] \in Nat
      BY <1>2, <1>5 DEF LInv, TypeOK
    <3>2. entries'[d][u] # 0
      BY <1>2, <3>1
    <3>3. entries'[d] # NoTickets
      BY <1>2, <3>2 DEF NoTickets
    <3>4. count'[d] > 0
      <4>1. count'[d] = count[d] + n /\ count[d] \in Nat
        BY <1>2, <1>5 DEF LInv, TypeOK
      <4> QED BY <1>2, <4>1
    <3>5. pool'[d] > 0
      <4>1. pool'[d] = pool[d] + price /\ pool[d] \in Nat
        BY <1>2, <1>5 DEF LInv, TypeOK
      <4> QED BY <1>4, <4>1
    <3> QED BY <1>5, <2>1, <3>3, <3>4, <3>5
  <2>2. CASE e # d
    BY <1>5, <2>2 DEF LInv, RowsAreSold, TypeOK
  <2> QED BY <2>1, <2>2
<1>9. ListsAreSold'
  BY <1>1, <1>5 DEF LInv, ListsAreSold, Idle, TypeOK
<1> QED BY <1>6, <1>7, <1>8, <1>9 DEF LInv

\* Steps that only end a call.
LEMMA EndKeeps ==
    ASSUME LInv, NEW w \in Workers, Finish(w) \/ Fail(w)
    PROVE  LInv'
<1>1. call' = [call EXCEPT ![w] = Idle] /\ UNCHANGED Columns
  BY DEF Finish, Fail, Columns
<1>2. TypeOK'
  BY <1>1, IdleIsCall DEF LInv, TypeOK, Columns, round
<1>3. PoolIsPaidOnce' /\ RowsAreSold'
  BY <1>1 DEF LInv, PoolIsPaidOnce, RowsAreSold, Columns, round
<1>4. ListsAreSold'
  BY <1>1 DEF LInv, ListsAreSold, Idle, TypeOK, Columns, round
<1> QED BY <1>2, <1>3, <1>4 DEF LInv

\* The day ends.
LEMMA MidnightKeeps ==
    ASSUME LInv, Midnight
    PROVE  LInv'
<1>1. today' \in Days
  BY DEF Midnight, LInv, TypeOK, Days
<1>2. UNCHANGED <<balance, round, prizes, weighed, call>>
  BY DEF Midnight
<1>3. TypeOK'
  BY <1>1, <1>2 DEF LInv, TypeOK, round
<1>4. PoolIsPaidOnce' /\ RowsAreSold' /\ ListsAreSold'
  BY <1>2 DEF LInv, PoolIsPaidOnce, RowsAreSold, ListsAreSold, round
<1> QED BY <1>3, <1>4 DEF LInv

\* The induction step.
LEMMA NextKeeps == LInv /\ [Next]_vars => LInv'
<1> SUFFICES ASSUME LInv, [Next]_vars PROVE LInv'
  OBVIOUS
<1>1. ASSUME NEW w \in Workers, NEW u \in Users \union {Nobody}, NEW n \in 0 .. MaxTickets,
             Start(w, u, n)
      PROVE  LInv'
  BY <1>1, StartKeeps
<1>2. ASSUME NEW w \in Workers, Scan(w) PROVE LInv'
  BY <1>2, ScanKeeps
<1>3. ASSUME NEW w \in Workers, DrawRound(w) PROVE LInv'
  BY <1>3, DrawRoundKeeps
<1>4. ASSUME NEW w \in Workers, Buy(w) PROVE LInv'
  BY <1>4, BuyKeeps
<1>5. ASSUME NEW w \in Workers, Finish(w) \/ Fail(w) PROVE LInv'
  BY <1>5, EndKeeps
<1>6. CASE Midnight
  BY <1>6, MidnightKeeps
<1>7. CASE UNCHANGED vars
  BY <1>7 DEF vars, LInv, TypeOK, PoolIsPaidOnce, RowsAreSold, ListsAreSold, round
<1> QED BY <1>1, <1>2, <1>3, <1>4, <1>5, <1>6, <1>7 DEF Next

(***************************************************************************)
(* The invariant holds in every reachable state, whatever the constants.   *)
(***************************************************************************)
THEOREM LotteryInvariance == Spec => []LInv
<1> QED BY InitEstablishes, NextKeeps, PTL DEF Spec

\* The columns and the calls keep their types: no purchase overdraws a
\* balance (buy_lottery_tickets_sync).
THEOREM LotteryTypes == Spec => []TypeOK
<1>1. LInv => TypeOK
  BY DEF LInv
<1> QED BY <1>1, LotteryInvariance, PTL

\* Every closed round paid its pool to exactly one user, exactly once, and
\* no pool of a round that sold a ticket is lost, for any number of calls of
\* finalize_due_rounds_sync at the same time.
THEOREM PoolsArePaid == Spec => []PoolIsPaidOnce
<1>1. LInv => PoolIsPaidOnce
  BY DEF LInv
<1> QED BY <1>1, LotteryInvariance, PTL

\* No draw and no purchase changes a round that is closed.
THEOREM ClosedStays == Spec => ClosedIsFinal
<1> DEFINE Kept == \A d \in Days : drawn[d] =>
                /\ drawn'[d] /\ winner'[d] = winner[d]
                /\ pool'[d] = pool[d] /\ entries'[d] = entries[d]
<1>1. LInv /\ [Next]_vars => Kept
  <2> SUFFICES ASSUME LInv, [Next]_vars PROVE Kept
    OBVIOUS
  <2>1. ASSUME NEW w \in Workers, DrawRound(w) PROVE Kept
    BY <2>1 DEF DrawRound, Draw, Closed, LInv, TypeOK, round
  <2>2. ASSUME NEW w \in Workers, Buy(w) PROVE Kept
    BY <2>2 DEF Buy, Sells, LInv, TypeOK
  <2>3. CASE UNCHANGED round
    BY <2>3 DEF round
  <2> QED BY <2>1, <2>2, <2>3 DEF Next, Start, Scan, Finish, Fail, Midnight, vars
<1>2. LInv /\ [Next]_vars => [Kept]_vars
  BY <1>1
<1> QED BY <1>2, LotteryInvariance, PTL DEF Spec, ClosedIsFinal

(***************************************************************************)
(* Sums of money.                                                          *)
(***************************************************************************)
\* What users paid is in a pool that is not drawn, or came back to a winner.
LEMMA DaysAreFinite == IsFiniteSet(Days)
BY FS_Interval DEF Days

\* A step that touches neither the balances nor an open pool keeps the sum.
LEMMA PurseStays ==
    ASSUME PurseAndPools, UNCHANGED <<balance, pool, drawn>>
    PROVE  PurseAndPools'
BY DEF PurseAndPools, Unpaid

\* One user's balance and one day's open pool change by opposite amounts.
LEMMA PurseMoves ==
    ASSUME TypeOK, TypeOK', PurseAndPools,
           NEW u \in Users, NEW d \in Days, NEW x \in Int,
           \A v \in Users : balance'[v] = IF v = u THEN balance[v] + x ELSE balance[v],
           \A e \in Days : Unpaid'[e] = IF e = d THEN Unpaid[e] - x ELSE Unpaid[e]
    PROVE  PurseAndPools'
<1>1. balance \in [Users -> Int] /\ balance' \in [Users -> Int]
  BY DEF TypeOK
<1>2. Unpaid \in [Days -> Int] /\ Unpaid' \in [Days -> Int]
  BY DEF TypeOK, Unpaid
<1>3. SumFunction(balance') = SumFunction(balance) - balance[u] + balance'[u]
  BY <1>1, TotalChanges, UsersAssumption
<1>4. SumFunction(Unpaid') = SumFunction(Unpaid) - Unpaid[d] + Unpaid'[d]
  BY <1>2, TotalChanges, DaysAreFinite
<1>5. /\ balance[u] \in Int /\ balance'[u] = balance[u] + x
      /\ Unpaid[d] \in Int /\ Unpaid'[d] = Unpaid[d] - x
  BY <1>1, <1>2
<1>6. SumFunction(balance) \in Int /\ SumFunction(Unpaid) \in Int
  BY <1>1, <1>2, TotalType, UsersAssumption, DaysAreFinite
<1>7. SumFunction(balance') + SumFunction(Unpaid') = SumFunction(balance) + SumFunction(Unpaid)
  BY <1>3, <1>4, <1>5, <1>6
<1> QED BY <1>7 DEF PurseAndPools

\* A purchase moves its price from the purse to the pool.
LEMMA BuyMovesMoney ==
    ASSUME LInv, LInv', PurseAndPools, NEW w \in Workers, Buy(w)
    PROVE  PurseAndPools'
<1> DEFINE price == call[w].tickets * Cost
<1>1. /\ call[w] \in Call /\ call[w].at = "draw" /\ call[w].user # Nobody
      /\ TypeOK /\ TypeOK'
  BY DEF LInv, TypeOK, Buy
<1>2. PICK d \in Days, u \in Users, n \in Nat :
          d = call[w].now /\ u = call[w].user /\ n = call[w].tickets
  BY <1>1, CallFields
<1>3. price \in Int
  BY <1>2, SMT
<1>4. /\ balance' = [balance EXCEPT ![u] = @ - price]
      /\ pool' = [pool EXCEPT ![d] = @ + price]
      /\ drawn' = drawn /\ ~drawn[d]
  BY <1>2 DEF Buy, Sells
<1> HIDE DEF price
<1>5. PICK x \in Int : x = -price
  BY <1>3
<1>6. \A v \in Users : balance'[v] = IF v = u THEN balance[v] + x ELSE balance[v]
  BY <1>1, <1>3, <1>4, <1>5 DEF TypeOK
<1>7. \A e \in Days : Unpaid'[e] = IF e = d THEN Unpaid[e] - x ELSE Unpaid[e]
  BY <1>1, <1>3, <1>4, <1>5 DEF TypeOK, Unpaid
<1> QED BY <1>1, <1>6, <1>7, PurseMoves

\* A draw moves the pool to the purse of the winner.
LEMMA DrawMovesMoney ==
    ASSUME LInv, LInv', PurseAndPools, NEW w \in Workers, DrawRound(w)
    PROVE  PurseAndPools'
<1>1. /\ call[w] \in Call /\ call[w].at = "draw" /\ TypeOK /\ TypeOK'
  BY DEF LInv, TypeOK, DrawRound
<1>2. PICK d \in call[w].todo :
          \/ ~Closed(d) /\ Draw(d, Seen(call[w], d))
          \/ Closed(d) /\ UNCHANGED <<balance, round, prizes, weighed>>
  BY DEF DrawRound
<1>3. d \in Days /\ d \in made /\ Seen(call[w], d) \in [Users -> Nat]
      /\ Seen(call[w], d) # NoTickets
  BY <1>1, <1>2, SeenIsSold DEF LInv, ListsAreSold
<1>4. CASE Closed(d) /\ UNCHANGED <<balance, round, prizes, weighed>>
  BY <1>4, PurseStays DEF round
<1>5. CASE ~Closed(d) /\ Draw(d, Seen(call[w], d))
  <2>1. PICK u \in Users : balance' = [balance EXCEPT ![u] = @ + pool[d]]
    BY <1>3, <1>5, DrawFindsWinner
  <2>2. drawn' = [drawn EXCEPT ![d] = TRUE] /\ pool' = pool /\ ~drawn[d]
    BY <1>5 DEF Draw, Closed
  <2>3. PICK x \in Int : x = pool[d]
    BY <1>1, <1>3 DEF TypeOK
  <2>4. \A v \in Users : balance'[v] = IF v = u THEN balance[v] + x ELSE balance[v]
    BY <1>1, <2>1, <2>3 DEF TypeOK
  <2>5. \A e \in Days : Unpaid'[e] = IF e = d THEN Unpaid[e] - x ELSE Unpaid[e]
    BY <1>1, <1>3, <2>2, <2>3 DEF TypeOK, Unpaid
  <2> QED BY <1>1, <1>3, <2>4, <2>5, PurseMoves
<1> QED BY <1>2, <1>4, <1>5

\* Before the first day nothing is in a pool.
LEMMA PurseAtStart == Init => PurseAndPools
<1> SUFFICES ASSUME Init PROVE PurseAndPools
  OBVIOUS
<1>1. Unpaid = [d \in Days |-> 0]
  BY DEF Init, Unpaid
<1>2. SumFunction(Unpaid) = 0
  BY <1>1, TotalOfZeros, DaysAreFinite
<1>3. Initial \in [Users -> Int]
  OBVIOUS
<1>4. SumFunction(Initial) \in Int
  BY <1>3, TotalType, UsersAssumption
<1>5. balance = Initial
  BY DEF Init
<1> QED BY <1>2, <1>4, <1>5 DEF PurseAndPools

\* No coin is lost between the balances and the pools, and none appears: what
\* buy_lottery_tickets_sync takes is in a pool until finalize_due_rounds_sync
\* pays it to a winner, for any finite number of users.
THEOREM MoneyStaysInPlay == Spec => []PurseAndPools
<1>1. LInv /\ LInv' /\ PurseAndPools /\ [Next]_vars => PurseAndPools'
  <2> SUFFICES ASSUME LInv, LInv', PurseAndPools, [Next]_vars PROVE PurseAndPools'
    OBVIOUS
  <2>1. ASSUME NEW w \in Workers, DrawRound(w) PROVE PurseAndPools'
    BY <2>1, DrawMovesMoney
  <2>2. ASSUME NEW w \in Workers, Buy(w) PROVE PurseAndPools'
    BY <2>2, BuyMovesMoney
  <2>3. CASE UNCHANGED <<balance, pool, drawn>>
    BY <2>3, PurseStays
  <2> QED BY <2>1, <2>2, <2>3 DEF Next, Start, Scan, Finish, Fail, Midnight, vars, round
<1> QED BY <1>1, PurseAtStart, LotteryInvariance, PTL DEF Spec
===============================================================================
