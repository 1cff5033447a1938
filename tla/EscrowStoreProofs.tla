--------------------------- MODULE EscrowStoreProofs ---------------------------
(***************************************************************************)
(* Theorems about EscrowStore, for every set of sessions, users, workers,  *)
(* requests and payouts.                                                   *)
(***************************************************************************)
EXTENDS EscrowStore, SumTheorems, FiniteSetTheorems, TLAPS

\* The creator of a packet is a user.
LEMMA PacketCreator ==
    ASSUME NEW s \in Sids, IsPacket(s)
    PROVE  Creator(s) \in Users
BY RequestsAssumption DEF IsPacket, Creator, PacketRequest, Request

\* The shares that are left of a packet are a number.
LEMMA PacketShares ==
    ASSUME NEW s \in Sids, IsPacket(s)
    PROVE  SharesLeft(s) \in Int
<1>1. PacketRequest(s).shares \in Nat
    BY RequestsAssumption DEF IsPacket, PacketRequest, Request
<1>2. Cardinality({u \in Users : claims[s][u] > 0}) \in Nat
    BY UsersAssumption, FS_Subset, FS_CardinalityType
<1>3. QED
    BY <1>1, <1>2 DEF SharesLeft

\* A share is never more than what is left in the packet (claim).
LEMMA ShareFits ==
    ASSUME NEW left \in Nat, left > 0, NEW count \in Int,
           NEW n \in ShareSizes(left, count)
    PROVE  n \in Nat \ {0} /\ n <= left
<1> DEFINE cap == (left * 2) \div 5
<1>1. cap \in Nat /\ cap <= left
    BY SMT
<1>2. QED
    BY <1>1, SMT DEF ShareSizes

\* What adding n to one entry of a table does to its entries.
LEMMA AddToEntry ==
    ASSUME NEW S, NEW T, NEW f \in [S -> [T -> Nat]], NEW s \in S, NEW t \in T,
           NEW n \in Int, f[s][t] + n \in Nat,
           NEW g, g = [f EXCEPT ![s][t] = @ + n]
    PROVE  /\ g \in [S -> [T -> Nat]]
           /\ g[s][t] = f[s][t] + n
           /\ \A x \in S, y \in T : ~(x = s /\ y = t) => g[x][y] = f[x][y]
OBVIOUS

\* An entry of a function to the natural numbers grows or shrinks.
LEMMA AddToOne ==
    ASSUME NEW T, NEW f \in [T -> Nat], NEW t \in T, NEW n \in Int, f[t] + n \in Nat,
           NEW g, g = [f EXCEPT ![t] = @ + n]
    PROVE  /\ g \in [T -> Nat]
           /\ g[t] = f[t] + n
           /\ \A y \in T : y # t => g[y] = f[y]
OBVIOUS

\* A debit works on a request, a claim for a user.
LEMMA TxArguments ==
    ASSUME NEW job \in Tx
    PROVE  /\ job.op = "debit" => job.req \in Requests
           /\ job.op = "claim" => job.user \in Users
BY DEF Tx, NoTx, SaveTx

\* There are no sessions before the first game.
LEMMA InitInv == Init => IInv
<1> SUFFICES ASSUME Init PROVE IInv
    OBVIOUS
<1> USE DEF Init, Zero
<1>1. TypeOK
    BY InitialAssumption, TTLAssumption
       DEF TypeOK, DataTypes, ControlTypes, Phase, Tx, Call, Rec, NoTx, Idle, Asleep
<1>2. Accounts /\ RefundMakesWhole
    BY DEF Accounts, Unfinished, Decided, Given, RefundMakesWhole
<1>3. LocksUndecided /\ PayersHaveIntent
    BY DEF LocksUndecided, Unlocked, PayersHaveIntent, NoTx, Idle, Asleep
<1>4. PaidExactlyOnce /\ ReceiptsAgree
    BY DEF PaidExactlyOnce, ReceiptsAgree, Idle
<1>5. QED
    BY <1>1, <1>2, <1>3, <1>4 DEF IInv, DataInv, ControlInv, TypeOK

\* What a step leaves alone keeps its invariant.
LEMMA SameData ==
    ASSUME DataInv, UNCHANGED <<balance, row, tx, logs>>
    PROVE  DataInv'
<1> USE DEF row, logs
<1>1. (DataTypes /\ LocksUndecided)'
    BY DEF DataInv, DataTypes, LocksUndecided, Unlocked, Unfinished
<1>2. (Accounts /\ RefundMakesWhole /\ PaidExactlyOnce)'
    BY DEF DataInv, Accounts, Unfinished, Decided, Given, RefundMakesWhole,
           PaidExactlyOnce
<1>3. QED
    BY <1>1, <1>2 DEF DataInv

\* Workers and the recovery task rely only on decided sessions staying so,
\* and on settled ones being paid nothing more.
LEMMA SameControl ==
    ASSUME ControlInv, UNCHANGED <<call, startup, rec>>,
           \A s \in Sids : Payable(s) => Payable(s)',
           \A s \in Sids : phase[s] = "settled" =>
               phase'[s] = "settled" /\ paid'[s] = paid[s]
    PROVE  ControlInv'
<1>1. ControlTypes'
    BY DEF ControlInv, ControlTypes
<1>2. PayersHaveIntent'
    BY DEF ControlInv, ControlTypes, PayersHaveIntent, Call, Rec, Idle, Asleep
<1>3. ReceiptsAgree'
    BY DEF ControlInv, ControlTypes, ReceiptsAgree, Call, Idle
<1>4. QED
    BY <1>1, <1>2, <1>3 DEF ControlInv

\* What taking or giving back a row lock does to the data: nothing.
LEMMA BeginInv ==
    ASSUME IInv, NEW s \in Sids, Begin(s)
    PROVE  IInv'
<1> USE DEF Begin, row, logs
<1>1. PICK job \in Jobs(s) : Passes(s, job) /\ tx' = [tx EXCEPT ![s] = job]
    OBVIOUS
<1>2. job \in Tx
  <2>1. ASSUME NEW r \in Requests PROVE DebitTx(r) \in Tx
    <3>1. (balance[r.user] >= r.amount) \in BOOLEAN
      <4>1. balance[r.user] \in Int /\ r.amount \in Int
          BY RequestsAssumption DEF IInv, DataInv, DataTypes, Request
      <4>2. QED
          BY <4>1
    <3> DEFINE b == balance[r.user] >= r.amount
    <3>2. DebitTx(r) = [op |-> "debit", req |-> r, enough |-> b]
        BY Zenon DEF DebitTx
    <3> HIDE DEF b
    <3>3. b \in BOOLEAN
        BY <3>1 DEF b
    <3>4. QED
        BY <3>2, <3>3 DEF Tx
  <2>2. QED
      BY <1>1, <2>1 DEF Jobs, Tx, SaveTx, ClaimTx
<1>3. DataTypes'
    BY <1>1, <1>2 DEF IInv, DataInv, DataTypes
<1>4. Unfinished(s) /\ (job.op = "claim" => IsPacket(s))
  <2>1. CASE job = SaveTx
      BY <1>1, <2>1 DEF Passes, Open, SaveTx, Unfinished
  <2>2. CASE \E r \in Requests : r.sid = s /\ job = DebitTx(r)
      BY <1>1, <2>2 DEF Passes, MayDebit, Open, DebitTx, Unfinished
  <2>3. CASE \E u \in Users : job = ClaimTx(u)
      BY <1>1, <2>3 DEF Passes, MayClaim, Open, ClaimTx, Unfinished
  <2>4. QED
      BY <2>1, <2>2, <2>3 DEF Jobs
<1>5. LocksUndecided'
    BY <1>1, <1>4 DEF IInv, DataInv, DataTypes, LocksUndecided, Unlocked, Unfinished
<1>6. (Accounts /\ RefundMakesWhole /\ PaidExactlyOnce)'
    BY DEF IInv, DataInv, Accounts, Unfinished, Decided, Given, RefundMakesWhole,
           PaidExactlyOnce
<1>7. ControlInv'
    BY SameControl DEF IInv, Payable
<1>8. QED
    BY <1>3, <1>5, <1>6, <1>7 DEF IInv, DataInv

\* A transaction that rolls back changes no row.
LEMMA RollbackInv ==
    ASSUME IInv, NEW s \in Sids, Rollback(s)
    PROVE  IInv'
<1> USE DEF Rollback, row, logs
<1>1. DataTypes'
    BY DEF IInv, DataInv, DataTypes, Tx
<1>2. LocksUndecided'
    BY DEF IInv, DataInv, DataTypes, LocksUndecided, Unlocked, Unfinished, NoTx
<1>3. (Accounts /\ RefundMakesWhole /\ PaidExactlyOnce)'
    BY DEF IInv, DataInv, Accounts, Unfinished, Decided, Given, RefundMakesWhole,
           PaidExactlyOnce
<1>4. ControlInv'
    BY SameControl DEF IInv, Payable
<1>5. QED
    BY <1>1, <1>2, <1>3, <1>4 DEF IInv, DataInv

\* debit moves coins from a balance to the escrow and to the stakes, in a
\* session that nobody has decided: the row lock is held.
LEMMA CommitDebitInv ==
    ASSUME IInv, NEW s \in Sids, CommitDebit(s)
    PROVE  IInv'
<1> DEFINE r == tx[s].req
<1> DEFINE p == r.user
<1> DEFINE n == r.amount
<1> USE DEF logs
<1>1. p \in Users /\ n \in Nat /\ r.event \in STRING
    BY TxArguments, RequestsAssumption
       DEF CommitDebit, IInv, DataInv, DataTypes, Request
<1>2. Unfinished(s)
    BY DEF IInv, DataInv, LocksUndecided, Unlocked, NoTx, CommitDebit
<1>3. /\ balance' = [balance EXCEPT ![p] = @ - n]
      /\ escrow' = [escrow EXCEPT ![s][p] = @ + n]
      /\ staked' = [staked EXCEPT ![s][p] = @ + n]
      /\ events' = [events EXCEPT ![s] = @ \union {r.event}]
    BY DEF CommitDebit
<1>4. /\ phase' = [phase EXCEPT ![s] = "active"]
      /\ mine' = [mine EXCEPT ![s] = TRUE]
      /\ ttl' = [ttl EXCEPT ![s] = TTL]
      /\ tx' = [tx EXCEPT ![s] = NoTx]
      /\ UNCHANGED <<claims, intent, why, taken, paid, call, startup, rec>>
    BY DEF CommitDebit
<1> HIDE DEF r, p, n
<1>5. DataTypes'
  <2> balance \in [Users -> Int] /\ escrow \in [Sids -> [Users -> Nat]]
          /\ staked \in [Sids -> [Users -> Nat]] /\ events \in [Sids -> SUBSET STRING]
      BY DEF IInv, DataInv, DataTypes
  <2>1. balance' \in [Users -> Int]
      BY <1>1, <1>3
  <2>2. escrow' \in [Sids -> [Users -> Nat]] /\ staked' \in [Sids -> [Users -> Nat]]
      BY <1>1, <1>3
  <2>3. events' \in [Sids -> SUBSET STRING]
      BY <1>1, <1>3
  <2>4. tx' \in [Sids -> Tx] /\ phase' \in [Sids -> Phase]
      BY <1>4 DEF IInv, DataInv, DataTypes, Tx, Phase
  <2>5. QED
      BY <1>4, <2>1, <2>2, <2>3, <2>4, TTLAssumption DEF IInv, DataInv, DataTypes
<1>6. Accounts'
  <2> SUFFICES ASSUME NEW t \in Sids
               PROVE  /\ Unfinished(t)' <=> ~Decided(t)'
                      /\ phase'[t] # "settled" =>
                            \A u \in Users : escrow'[t][u] + Given(t, u)' = staked'[t][u]
      BY DEF Accounts
  <2>1. Unfinished(t)' <=> ~Decided(t)'
      BY <1>4, <1>2 DEF IInv, DataInv, DataTypes, Accounts, Unfinished, Decided
  <2>2. ASSUME NEW u \in Users, phase'[t] # "settled"
        PROVE  escrow'[t][u] + Given(t, u)' = staked'[t][u]
    <3>1. phase[t] # "settled"
        BY <1>4, <1>2, <2>2 DEF IInv, DataInv, DataTypes, Unfinished
    <3>2. escrow[t][u] + Given(t, u) = staked[t][u] /\ Given(t, u)' = Given(t, u)
        BY <1>4, <3>1 DEF IInv, DataInv, Accounts, Given
    <3>3. Given(t, u) \in Nat /\ escrow[t][u] \in Nat /\ staked[t][u] \in Nat
        BY DEF IInv, DataInv, DataTypes, Given
    <3>4. CASE t = s /\ u = p
        BY <1>1, <1>3, <3>2, <3>3, <3>4 DEF IInv, DataInv, DataTypes
    <3>5. CASE ~(t = s /\ u = p)
        BY <1>1, <1>3, <3>2, <3>3, <3>5 DEF IInv, DataInv, DataTypes
    <3>6. QED
        BY <3>4, <3>5
  <2>3. QED
      BY <2>1, <2>2
<1>7. RefundMakesWhole'
    BY <1>4, <1>2, <1>3 DEF IInv, DataInv, DataTypes, Accounts, RefundMakesWhole, Decided, Given
<1>8. LocksUndecided'
    BY <1>4 DEF IInv, DataInv, DataTypes, LocksUndecided, Unlocked, Unfinished, NoTx
<1>9. PaidExactlyOnce'
    BY <1>4, <1>2 DEF IInv, DataInv, DataTypes, PaidExactlyOnce, Unfinished
<1>10. ControlInv'
    BY <1>4, <1>2, SameControl DEF IInv, DataInv, DataTypes, Payable, Unfinished
<1>11. QED
    BY <1>5, <1>6, <1>7, <1>8, <1>9, <1>10 DEF IInv, DataInv

\* A checkpoint moves the deadline of an undecided session.
LEMMA CommitCheckpointInv ==
    ASSUME IInv, NEW s \in Sids, CommitCheckpoint(s)
    PROVE  IInv'
<1> USE DEF CommitCheckpoint, logs
<1>1. DataTypes'
    BY TTLAssumption DEF IInv, DataInv, DataTypes, Tx
<1>2. LocksUndecided'
    BY DEF IInv, DataInv, DataTypes, LocksUndecided, Unlocked, Unfinished, NoTx
<1>3. (Accounts /\ RefundMakesWhole /\ PaidExactlyOnce)'
    BY DEF IInv, DataInv, Accounts, Unfinished, Decided, Given, RefundMakesWhole,
           PaidExactlyOnce
<1>4. ControlInv'
    BY SameControl DEF IInv, Payable
<1>5. QED
    BY <1>1, <1>2, <1>3, <1>4 DEF IInv, DataInv

\* claim moves a share from the creator's escrow to the claimant.
LEMMA CommitClaimInv ==
    ASSUME IInv, NEW s \in Sids, CommitClaim(s)
    PROVE  IInv'
<1> DEFINE k == Creator(s)
<1> DEFINE v == tx[s].user
<1> USE DEF logs
<1>1. IsPacket(s) /\ Unfinished(s)
    BY DEF IInv, DataInv, LocksUndecided, Unlocked, NoTx, CommitClaim
<1>2. k \in Users
    BY <1>1, PacketCreator
<1>3. v \in Users
    BY TxArguments DEF CommitClaim, IInv, DataInv, DataTypes
<1>4. PICK n \in ShareSizes(Left(s), SharesLeft(s)) :
        /\ balance' = [balance EXCEPT ![v] = @ + n]
        /\ escrow' = [escrow EXCEPT ![s][k] = @ - n]
        /\ claims' = [claims EXCEPT ![s][v] = n]
        /\ taken' = [taken EXCEPT ![s] = @ + n]
    BY DEF CommitClaim
<1>5. Left(s) \in Nat /\ Left(s) = escrow[s][k] /\ Left(s) > 0
    BY <1>2 DEF IInv, DataInv, DataTypes, Left, CommitClaim
<1>6. n \in Nat /\ n <= escrow[s][k]
  <2>1. SharesLeft(s) \in Int
      BY <1>1, PacketShares
  <2>2. QED
      BY <1>5, <2>1, ShareFits
<1>7. /\ tx' = [tx EXCEPT ![s] = NoTx]
       /\ UNCHANGED <<phase, events, intent, why, ttl, mine, staked, paid,
                      call, startup, rec>>
    BY DEF CommitClaim
<1> HIDE DEF k, v
<1>8. DataTypes'
  <2> balance \in [Users -> Int] /\ escrow \in [Sids -> [Users -> Nat]]
          /\ claims \in [Sids -> [Users -> Nat]] /\ taken \in [Sids -> Nat]
      BY DEF IInv, DataInv, DataTypes
  <2>1. balance' \in [Users -> Int] /\ claims' \in [Sids -> [Users -> Nat]]
      BY <1>3, <1>4, <1>6
  <2>2. escrow' \in [Sids -> [Users -> Nat]] /\ taken' \in [Sids -> Nat]
      BY <1>2, <1>4, <1>6
  <2>3. tx' \in [Sids -> Tx]
      BY <1>7 DEF IInv, DataInv, DataTypes, Tx
  <2>4. QED
      BY <1>7, <2>1, <2>2, <2>3 DEF IInv, DataInv, DataTypes
<1>9. Accounts'
  <2> SUFFICES ASSUME NEW t \in Sids
               PROVE  /\ Unfinished(t)' <=> ~Decided(t)'
                      /\ phase'[t] # "settled" =>
                            \A u \in Users : escrow'[t][u] + Given(t, u)' = staked'[t][u]
      BY DEF Accounts
  <2>1. Unfinished(t)' <=> ~Decided(t)'
      BY <1>7 DEF IInv, DataInv, Accounts, Unfinished, Decided
  <2>2. ASSUME NEW u \in Users, phase'[t] # "settled"
        PROVE  escrow'[t][u] + Given(t, u)' = staked'[t][u]
    <3>1. escrow[t][u] + Given(t, u) = staked[t][u]
        BY <1>7, <2>2 DEF IInv, DataInv, Accounts
    <3>2. taken[t] \in Nat /\ escrow[t][u] \in Nat /\ staked[t][u] \in Nat
        BY DEF IInv, DataInv, DataTypes
    <3>3. CASE t = s /\ u = k
      <4>1. escrow'[t][u] = escrow[t][u] - n /\ taken'[t] = taken[t] + n
          BY <1>2, <1>4, <3>3 DEF IInv, DataInv, DataTypes
      <4>2. QED
          BY <1>1, <1>6, <1>7, <3>1, <3>2, <3>3, <4>1 DEF Given, k
    <3>4. CASE ~(t = s /\ u = k)
      <4>1. escrow'[t][u] = escrow[t][u]
          BY <1>2, <1>4, <3>4 DEF IInv, DataInv, DataTypes
      <4>2. Given(t, u)' = Given(t, u)
          BY <1>4, <3>4 DEF IInv, DataInv, DataTypes, Given, k
      <4>3. QED
          BY <1>7, <3>1, <4>1, <4>2
    <3>5. QED
        BY <3>3, <3>4
  <2>3. QED
      BY <2>1, <2>2
<1>10. RefundMakesWhole'
    BY <1>1, <1>4, <1>7 DEF IInv, DataInv, DataTypes, Accounts, RefundMakesWhole, Decided, Given
<1>11. LocksUndecided'
    BY <1>7 DEF IInv, DataInv, DataTypes, LocksUndecided, Unlocked, Unfinished, NoTx
<1>12. PaidExactlyOnce'
    BY <1>7 DEF IInv, DataInv, DataTypes, PaidExactlyOnce
<1>13. ControlInv'
    BY <1>7, SameControl DEF IInv, Payable
<1>14. QED
    BY <1>8, <1>9, <1>10, <1>11, <1>12, <1>13 DEF IInv, DataInv

\* The transaction of prepare, and the first one of recover_one: an outcome
\* is saved for an undecided session whose row lock is free.
LEMMA SaveIntentData ==
    ASSUME DataInv, NEW s \in Sids, Unlocked(s), phase[s] = "active",
           NEW c \in [Users -> Nat], NEW reason \in {"refund", "result"},
           reason = "refund" => c = escrow[s],
           SaveIntent(s, c, reason), UNCHANGED <<balance, tx, logs>>
    PROVE  DataInv'
<1> USE DEF SaveIntent, logs
<1>1. DataTypes'
    BY DEF DataInv, DataTypes, Phase
<1>2. Accounts'
    BY DEF DataInv, DataTypes, Accounts, Unfinished, Decided, Given
<1>3. RefundMakesWhole'
  <2> SUFFICES ASSUME NEW t \in Sids, why'[t] = "refund", NEW u \in Users
               PROVE  intent'[t][u] + Given(t, u)' = staked'[t][u]
      BY DEF RefundMakesWhole
  <2>1. Given(t, u)' = Given(t, u)
      BY DEF Given
  <2>2. CASE t = s
      BY <2>1, <2>2 DEF DataInv, DataTypes, Accounts
  <2>3. CASE t # s
      BY <2>1, <2>3 DEF DataInv, DataTypes, RefundMakesWhole
  <2>4. QED
      BY <2>2, <2>3
<1>4. LocksUndecided'
    BY DEF DataInv, DataTypes, LocksUndecided, Unlocked, Unfinished
<1>5. PaidExactlyOnce'
    BY DEF DataInv, DataTypes, PaidExactlyOnce
<1>6. QED
    BY <1>1, <1>2, <1>3, <1>4, <1>5 DEF DataInv

\* The transaction of apply pays what was saved, or finds that it was paid.
LEMMA PayData ==
    ASSUME DataInv, NEW s \in Sids, Pay(s)
    PROVE  /\ DataInv'
           /\ phase'[s] = "settled" /\ paid'[s] = intent[s]
           /\ \A t \in Sids \ {s} : phase'[t] = phase[t] /\ paid'[t] = paid[t]
           /\ phase[s] = "settled" => paid'[s] = paid[s]
<1> USE DEF Pay
<1>1. CASE phase[s] = "settled" /\ UNCHANGED <<balance, row, logs, tx>>
    BY <1>1, SameData DEF DataInv, DataTypes, PaidExactlyOnce, row, logs
<1>2. CASE phase[s] = "settling" /\ UNCHANGED tx
  <2>1. /\ balance' = [u \in Users |-> balance[u] + intent[s][u]]
        /\ paid' = [paid EXCEPT ![s] = [u \in Users |-> paid[s][u] + intent[s][u]]]
        /\ phase' = [phase EXCEPT ![s] = "settled"]
        /\ escrow' = [escrow EXCEPT ![s] = Zero]
        /\ UNCHANGED <<events, claims, intent, why, ttl, mine, staked, taken>>
      BY <1>2 DEF Unpaid
  <2>2. paid'[s] = intent[s]
    <3>1. paid \in [Sids -> [Users -> Nat]] /\ intent[s] \in [Users -> Nat]
        BY DEF DataInv, DataTypes
    <3>2. \A u \in Users : paid[s][u] = 0
        BY <1>2 DEF DataInv, PaidExactlyOnce, Zero
    <3>3. paid'[s] = [u \in Users |-> paid[s][u] + intent[s][u]]
        BY <2>1, <3>1
    <3>4. \A u \in Users : paid[s][u] + intent[s][u] = intent[s][u]
        BY <3>1, <3>2
    <3>5. QED
        BY <3>1, <3>3, <3>4
  <2>3. DataTypes'
      BY <1>2, <2>1, <2>2 DEF DataInv, DataTypes, Phase, Zero
  <2>4. (Accounts /\ RefundMakesWhole)'
      BY <1>2, <2>1 DEF DataInv, DataTypes, Accounts, RefundMakesWhole, Unfinished,
                        Decided, Given
  <2>5. LocksUndecided'
      BY <1>2, <2>1 DEF DataInv, DataTypes, LocksUndecided, Unlocked, Unfinished, Pay
  <2>6. PaidExactlyOnce'
      BY <2>1, <2>2 DEF DataInv, DataTypes, PaidExactlyOnce
  <2>7. QED
      BY <1>2, <2>1, <2>2, <2>3, <2>4, <2>5, <2>6 DEF DataInv, DataTypes
<1>3. QED
    BY <1>1, <1>2 DEF Unpaid

\* Either way of saving an outcome keeps what everyone else relies on.
LEMMA SaveIntentForward ==
    ASSUME DataInv, NEW s \in Sids, phase[s] = "active",
           NEW c, NEW reason, SaveIntent(s, c, reason), UNCHANGED logs
    PROVE  /\ phase'[s] = "settling"
           /\ \A t \in Sids : Payable(t) => Payable(t)'
           /\ \A t \in Sids : phase[t] = "settled" =>
                  phase'[t] = "settled" /\ paid'[t] = paid[t]
BY DEF DataInv, DataTypes, SaveIntent, Payable, logs

\* prepare saves an outcome, or finds one.
LEMMA PrepareInv ==
    ASSUME IInv, NEW w \in Workers, NEW s \in Sids, Prepare(w, s)
    PROVE  IInv'
<1> USE DEF Prepare
<1>1. DataInv' /\ Payable(s)'
      /\ (\A t \in Sids : Payable(t) => Payable(t)')
      /\ (\A t \in Sids : phase[t] = "settled" =>
             phase'[t] = "settled" /\ paid'[t] = paid[t])
  <2>1. CASE Undecided(s)
    <3>1. PICK e \in Endings(s) :
              (\A u \in Users : e[1][u] >= 0) /\ SaveIntent(s, e[1], e[2])
        BY <2>1
    <3>2. /\ e[1] \in [Users -> Nat] /\ e[2] \in {"refund", "result"}
          /\ e[2] = "refund" => e[1] = escrow[s]
      <4>1. CASE e = <<escrow[s], "refund">>
          BY <4>1 DEF IInv, DataInv, DataTypes
      <4>2. CASE \E c \in Payouts : e = <<c, "result">>
          BY <3>1, <4>2, PayoutsAssumption
      <4>3. QED
          BY <4>1, <4>2 DEF Endings
    <3>3. phase[s] = "active"
        BY <2>1 DEF Undecided
    <3>4. DataInv'
        BY <3>1, <3>2, <3>3, SaveIntentData DEF IInv
    <3>5. QED
        BY <3>1, <3>3, <3>4, SaveIntentForward DEF IInv, Payable
  <2>2. CASE ~Undecided(s)
    <3>1. DataInv' /\ UNCHANGED <<row, logs>>
        BY <2>2, SameData DEF IInv
    <3>2. Payable(s)
        BY <2>2 DEF IInv, DataInv, DataTypes, Phase, Undecided, Payable
    <3>3. QED
        BY <3>1, <3>2 DEF row, logs, Payable
  <2>3. QED
      BY <2>1, <2>2
<1>2. ControlTypes'
    BY DEF IInv, ControlInv, ControlTypes, Call, Idle, Applying
<1>3. PayersHaveIntent'
  <2>1. \A v \in Workers : (call[v].at = "apply" => Payable(call[v].sid))'
      BY <1>1 DEF IInv, ControlInv, ControlTypes, PayersHaveIntent, Call, Idle, Applying
  <2>2. (rec.at = "paying" => Payable(rec.sid))'
      BY <1>1 DEF IInv, ControlInv, ControlTypes, PayersHaveIntent, Rec, Asleep
  <2>3. QED
      BY <2>1, <2>2 DEF PayersHaveIntent
<1>4. ReceiptsAgree'
    BY <1>1 DEF IInv, ControlInv, ControlTypes, ReceiptsAgree, Call, Idle, Applying
<1>5. QED
    BY <1>1, <1>2, <1>3, <1>4 DEF IInv, ControlInv

\* apply pays the saved outcome, or finds it paid.
LEMMA ApplyInv ==
    ASSUME IInv, NEW w \in Workers, Apply(w)
    PROVE  IInv'
<1> DEFINE s == call[w].sid
<1>1. s \in Sids /\ Pay(s) /\ UNCHANGED <<startup, rec>>
      /\ call' \in {[call EXCEPT ![w] = Done(s, intent[s])], [call EXCEPT ![w] = Idle]}
    BY DEF Apply, IInv, ControlInv, ControlTypes, Call, Idle
<1> HIDE DEF s
<1>2. /\ DataInv'
      /\ phase'[s] = "settled" /\ paid'[s] = intent[s]
      /\ \A t \in Sids : phase[t] = "settled" =>
             phase'[t] = "settled" /\ paid'[t] = paid[t]
      /\ \A t \in Sids : Payable(t) => Payable(t)'
    BY <1>1, PayData DEF IInv, Payable
<1>3. ControlTypes'
  <2>1. call \in [Workers -> Call] /\ intent[s] \in [Users -> Nat]
      BY <1>1 DEF IInv, ControlInv, ControlTypes, DataInv, DataTypes
  <2>2. Done(s, intent[s]) \in Call /\ Idle \in Call
      BY <1>1, <2>1 DEF Call, Done
  <2>3. call' \in [Workers -> Call]
      BY <1>1, <2>1, <2>2
  <2>4. QED
      BY <1>1, <2>3 DEF IInv, ControlInv, ControlTypes
<1>4. PayersHaveIntent'
  <2>1. \A v \in Workers : (call[v].at = "apply" => Payable(call[v].sid))'
      BY <1>1, <1>2 DEF IInv, ControlInv, ControlTypes, PayersHaveIntent, Call, Idle, Done
  <2>2. (rec.at = "paying" => Payable(rec.sid))'
      BY <1>1, <1>2 DEF IInv, ControlInv, ControlTypes, PayersHaveIntent, Rec, Asleep
  <2>3. QED
      BY <2>1, <2>2 DEF PayersHaveIntent
<1>5. ReceiptsAgree'
    BY <1>1, <1>2 DEF IInv, ControlInv, ControlTypes, ReceiptsAgree, Call, Idle, Done
<1>6. QED
    BY <1>2, <1>3, <1>4, <1>5 DEF IInv, ControlInv

\* apply rolls back.
LEMMA ApplyFailsInv ==
    ASSUME IInv, NEW w \in Workers, ApplyFails(w)
    PROVE  IInv'
<1> USE DEF ApplyFails
<1>1. DataInv'
    BY SameData DEF IInv
<1>2. ControlInv'
    BY DEF IInv, ControlInv, ControlTypes, PayersHaveIntent, ReceiptsAgree, Call, Idle,
           Payable, row, logs
<1>3. QED
    BY <1>1, <1>2 DEF IInv

\* The recovery task decides a refund, takes up what is decided, or skips it.
LEMMA RecoverOneInv ==
    ASSUME IInv, NEW s \in Sids, RecoverOne(s)
    PROVE  IInv'
<1> USE DEF RecoverOne
<1>1. CASE StillExpired(s) /\ SaveIntent(s, escrow[s], "refund")
  <2>1. phase[s] = "active" /\ escrow[s] \in [Users -> Nat]
      BY <1>1 DEF StillExpired, Expired, IInv, DataInv, DataTypes
  <2>2. DataInv'
      BY <1>1, <2>1, SaveIntentData DEF IInv
  <2>3. /\ phase'[s] = "settling"
        /\ \A t \in Sids : Payable(t) => Payable(t)'
        /\ \A t \in Sids : phase[t] = "settled" =>
               phase'[t] = "settled" /\ paid'[t] = paid[t]
      BY <1>1, <2>1, SaveIntentForward DEF IInv
  <2>4. (ControlTypes /\ PayersHaveIntent)'
      BY <2>3 DEF IInv, ControlInv, ControlTypes, PayersHaveIntent, Rec, Asleep,
                  Scanned, Paying, Call, Idle, Payable
  <2>5. ReceiptsAgree'
      BY <2>3 DEF IInv, ControlInv, ControlTypes, ReceiptsAgree, Call, Idle
  <2>6. QED
      BY <2>2, <2>4, <2>5 DEF IInv, ControlInv
<1>2. CASE UNCHANGED row
  <2>1. DataInv'
      BY <1>2, SameData DEF IInv
  <2>2. rec'.at = "paying" => rec'.sid = s /\ phase'[s] = "settling"
      BY <1>2 DEF StillExpired, Expired, SaveIntent, Paying, Scanned, row,
                  IInv, DataInv, DataTypes
  <2>3. (ControlTypes /\ PayersHaveIntent)'
      BY <1>2, <2>2 DEF IInv, ControlInv, ControlTypes, PayersHaveIntent, Rec, Asleep,
                  Scanned, Paying, Call, Idle, Payable, row
  <2>4. ReceiptsAgree'
      BY <1>2 DEF IInv, ControlInv, ControlTypes, ReceiptsAgree, Call, Idle, row, logs
  <2>5. QED
      BY <2>1, <2>3, <2>4 DEF IInv, ControlInv
<1>3. QED
    BY <1>1, <1>2

\* The recovery task pays what is decided.
LEMMA RecoverPayInv ==
    ASSUME IInv, NEW s \in Sids, RecoverPay(s)
    PROVE  IInv'
<1> USE DEF RecoverPay
<1>1. /\ DataInv'
      /\ \A t \in Sids : phase[t] = "settled" =>
             phase'[t] = "settled" /\ paid'[t] = paid[t]
      /\ \A t \in Sids : Payable(t) => Payable(t)'
    BY PayData DEF IInv, Payable
<1>2. (ControlTypes /\ PayersHaveIntent)'
    BY <1>1 DEF IInv, ControlInv, ControlTypes, PayersHaveIntent, Rec, Asleep,
                Scanned, Call, Idle
<1>3. ReceiptsAgree'
    BY <1>1 DEF IInv, ControlInv, ControlTypes, ReceiptsAgree, Call, Idle
<1>4. QED
    BY <1>1, <1>2, <1>3 DEF IInv, ControlInv

\* Steps of the recovery task and of the worker that touch no table.
LEMMA ControlStepInv ==
    ASSUME IInv, Scan \/ RecoverFails \/ EndPass
    PROVE  IInv'
<1>1. UNCHANGED <<balance, row, tx, logs, call>> /\ rec'.at # "paying"
    BY DEF Scan, RecoverFails, EndPass, Scanned, Asleep
<1>2. DataInv'
    BY <1>1, SameData DEF IInv
<1>3. ControlTypes'
  <2>1. CASE Scan
      BY <2>1 DEF Scan, IInv, ControlInv, ControlTypes, Rec, Scanned
  <2>2. CASE RecoverFails
      BY <2>2 DEF RecoverFails, IInv, ControlInv, ControlTypes, Rec, Scanned, Asleep
  <2>3. CASE EndPass
      BY <2>3 DEF EndPass, IInv, ControlInv, ControlTypes, Rec, Asleep
  <2>4. QED
      BY <2>1, <2>2, <2>3
<1>4. (PayersHaveIntent /\ ReceiptsAgree)'
    BY <1>1 DEF IInv, ControlInv, ControlTypes, PayersHaveIntent, ReceiptsAgree, Payable,
                row, logs
<1>5. QED
    BY <1>2, <1>3, <1>4 DEF IInv, ControlInv

\* Time passes.
LEMMA TickInv ==
    ASSUME IInv, Tick
    PROVE  IInv'
<1> USE DEF Tick, logs
<1>1. DataTypes'
  <2>1. ttl' \in [Sids -> 0 .. TTL]
      BY TTLAssumption DEF IInv, DataInv, DataTypes
  <2>2. QED
      BY <2>1 DEF IInv, DataInv, DataTypes
<1>2. LocksUndecided'
    BY DEF IInv, DataInv, LocksUndecided, Unlocked, Unfinished
<1>3. (Accounts /\ RefundMakesWhole /\ PaidExactlyOnce)'
    BY DEF IInv, DataInv, Accounts, Unfinished, Decided, Given, RefundMakesWhole,
           PaidExactlyOnce
<1>4. ControlInv'
    BY SameControl DEF IInv, Payable
<1>5. QED
    BY <1>1, <1>2, <1>3, <1>4 DEF IInv, DataInv

\* A restart ends every transaction and worker.
LEMMA RestartInv ==
    ASSUME IInv, Restart
    PROVE  IInv'
<1> USE DEF Restart, logs
<1>1. DataTypes'
    BY DEF IInv, DataInv, DataTypes, Tx
<1>2. LocksUndecided'
    BY DEF IInv, DataInv, DataTypes, LocksUndecided, Unlocked, NoTx
<1>3. (Accounts /\ RefundMakesWhole /\ PaidExactlyOnce)'
    BY DEF IInv, DataInv, Accounts, Unfinished, Decided, Given, RefundMakesWhole,
           PaidExactlyOnce
<1>4. ControlInv'
    BY DEF ControlInv, ControlTypes, PayersHaveIntent, ReceiptsAgree, Call, Rec,
           Idle, Asleep
<1>5. QED
    BY <1>1, <1>2, <1>3, <1>4 DEF IInv, DataInv

\* The induction step.
LEMMA NextInv == IInv /\ [Next]_vars => IInv'
<1> SUFFICES ASSUME IInv, [Next]_vars PROVE IInv'
    OBVIOUS
<1>1. CASE UNCHANGED vars
  <2>1. DataInv'
      BY <1>1, SameData DEF vars, IInv
  <2>2. ControlInv'
      BY <1>1, SameControl DEF vars, IInv, row, logs, Payable
  <2>3. QED
      BY <2>1, <2>2 DEF IInv
<1>2. ASSUME NEW s \in Sids,
             \/ Begin(s) \/ Rollback(s)
             \/ CommitDebit(s) \/ CommitCheckpoint(s) \/ CommitClaim(s)
             \/ RecoverOne(s) \/ RecoverPay(s)
      PROVE  IInv'
    BY <1>2, BeginInv, RollbackInv, CommitDebitInv, CommitCheckpointInv,
       CommitClaimInv, RecoverOneInv, RecoverPayInv
<1>3. ASSUME NEW w \in Workers, NEW s \in Sids, Prepare(w, s)
      PROVE  IInv'
    BY <1>3, PrepareInv
<1>4. ASSUME NEW w \in Workers, Apply(w) \/ ApplyFails(w)
      PROVE  IInv'
    BY <1>4, ApplyInv, ApplyFailsInv
<1>5. CASE Scan \/ RecoverFails \/ EndPass
    BY <1>5, ControlStepInv
<1>6. CASE Tick \/ Restart
    BY <1>6, TickInv, RestartInv
<1>7. QED
    BY <1>1, <1>2, <1>3, <1>4, <1>5, <1>6 DEF Next

\* IInv: a session is decided once, and what was staked and not taken is in
\* its escrow until it is paid.
THEOREM Invariance == Spec => []IInv
BY InitInv, NextInv, PTL DEF Spec

(***************************************************************************)
(* What the invariant says, property by property.                          *)
(***************************************************************************)
\* Columns keep their types; no stake, share or payout is ever negative.
THEOREM Types == Spec => []TypeOK
BY Invariance, PTL DEF IInv, DataInv, ControlInv, TypeOK

\* apply credits exactly the saved settlement, once.
THEOREM PaymentIsExact == Spec => []PaidExactlyOnce
BY Invariance, PTL DEF IInv, DataInv

\* A refund returns each stake, less what was drawn from a packet.
THEOREM RefundIsWhole == Spec => []RefundMakesWhole
BY Invariance, PTL DEF IInv, DataInv

\* Every caller of finish that gets an answer gets the one that was paid.
THEOREM Agreement == Spec => []ReceiptsAgree
BY Invariance, PTL DEF IInv, ControlInv

\* After the outcome is saved, prepare, debit and claim change nothing.
LEMMA FrozenStep ==
    ASSUME IInv, [Next]_vars, NEW s \in Sids, Decided(s)
    PROVE  <<intent[s], why[s], staked[s], taken[s]>>'
               = <<intent[s], why[s], staked[s], taken[s]>>
<1>1. Unlocked(s) /\ phase[s] # "active"
    BY DEF IInv, DataInv, Accounts, LocksUndecided, Unfinished
<1>2. intent \in [Sids -> [Users -> Nat]] /\ why \in [Sids -> {"none", "refund", "result"}]
      /\ staked \in [Sids -> [Users -> Nat]] /\ taken \in [Sids -> Nat]
    BY DEF IInv, DataInv, DataTypes
<1>3. CASE UNCHANGED vars
    BY <1>3 DEF vars, row, logs
<1>4. ASSUME NEW t \in Sids, CommitDebit(t) \/ CommitClaim(t)
      PROVE  <<intent, why>>' = <<intent, why>> /\ staked'[s] = staked[s] /\ taken'[s] = taken[s]
    BY <1>1, <1>2, <1>4 DEF CommitDebit, CommitClaim, Unlocked, NoTx
<1>5. ASSUME NEW t \in Sids, Begin(t) \/ Rollback(t) \/ CommitCheckpoint(t)
      PROVE  UNCHANGED <<intent, why, staked, taken>>
    BY <1>5 DEF Begin, Rollback, CommitCheckpoint, row, logs
<1>6. ASSUME NEW t \in Sids, NEW c, NEW reason, phase[t] = "active",
             SaveIntent(t, c, reason), UNCHANGED logs
      PROVE  <<intent[s], why[s], staked[s], taken[s]>>'
                 = <<intent[s], why[s], staked[s], taken[s]>>
    BY <1>1, <1>2, <1>6 DEF SaveIntent, logs
<1>7. ASSUME NEW t \in Sids, RecoverOne(t)
      PROVE  <<intent[s], why[s], staked[s], taken[s]>>'
                 = <<intent[s], why[s], staked[s], taken[s]>>
    BY <1>6, <1>7 DEF RecoverOne, StillExpired, Expired, row, logs
<1>8. ASSUME NEW w \in Workers, NEW t \in Sids, Prepare(w, t)
      PROVE  <<intent[s], why[s], staked[s], taken[s]>>'
                 = <<intent[s], why[s], staked[s], taken[s]>>
    BY <1>6, <1>8 DEF Prepare, Undecided, row, logs
<1>9. ASSUME NEW t \in Sids, Pay(t)
      PROVE  UNCHANGED <<intent, why, staked, taken>>
    BY <1>9 DEF Pay, row, logs
<1>10. ASSUME \/ \E t \in Sids : RecoverPay(t)
              \/ \E w \in Workers : Apply(w) \/ ApplyFails(w)
              \/ Scan \/ RecoverFails \/ EndPass \/ Tick \/ Restart
       PROVE  UNCHANGED <<intent, why, staked, taken>>
  <2>1. CASE \E t \in Sids : RecoverPay(t)
      BY <1>9, <2>1 DEF RecoverPay
  <2>2. CASE \E w \in Workers : Apply(w)
      BY <1>9, <2>2 DEF Apply, IInv, ControlInv, ControlTypes, Call, Idle
  <2>3. CASE \/ \E w \in Workers : ApplyFails(w)
             \/ Scan \/ RecoverFails \/ EndPass \/ Tick \/ Restart
      BY <2>3 DEF ApplyFails, Scan, RecoverFails, EndPass, Tick, Restart, row, logs
  <2>4. QED
      BY <1>10, <2>1, <2>2, <2>3
<1>11. QED
    BY <1>3, <1>4, <1>5, <1>7, <1>8, <1>10 DEF Next

\* A decided session is frozen: no later finish changes the outcome.
THEOREM DecisionIsFinal == Spec => DecidedIsFrozen
<1>1. IInv /\ [Next]_vars =>
        [\A s \in Sids : Decided(s) =>
            <<intent[s], why[s], staked[s], taken[s]>>'
                = <<intent[s], why[s], staked[s], taken[s]>>]_vars
    BY FrozenStep
<1>2. QED
    BY <1>1, Invariance, PTL DEF Spec, DecidedIsFrozen

(***************************************************************************)
(* The store implements WagerPromise.                                      *)
(***************************************************************************)
\* At the beginning every pot is open and empty.
LEMMA InitPromise == Init => Promise!PInit
<1> SUFFICES ASSUME Init PROVE Promise!PInit
    OBVIOUS
<1>1. [s \in Sids |-> Stage(s)] = [s \in Sids |-> "open"]
    BY DEF Init, Stage
<1>2. QED
    BY <1>1 DEF Init, Promise!PInit, Promise!Nothing, Zero

\* Steps that move no coin and save no outcome are not seen at all.
LEMMA Unseen ==
    ASSUME UNCHANGED <<balance, phase, escrow, intent>>
    PROVE  UNCHANGED Promise!pvars
BY DEF Promise!pvars, Stage

\* Saving an outcome is the decision ...
LEMMA SaveIntentDecides ==
    ASSUME DataInv, NEW s \in Sids, phase[s] = "active", NEW c, NEW reason,
           c \in Payouts \union {escrow[s]},
           SaveIntent(s, c, reason), UNCHANGED balance
    PROVE  Promise!PNext
<1>1. phase' = [phase EXCEPT ![s] = "settling"] /\ phase \in [Sids -> Phase]
    BY DEF SaveIntent, DataInv, DataTypes
<1>2. [t \in Sids |-> Stage(t)]' = [[t \in Sids |-> Stage(t)] EXCEPT ![s] = "decided"]
    BY <1>1 DEF Stage
<1>3. Promise!Decide(s, c)
    BY <1>2 DEF Promise!Decide, SaveIntent, Stage
<1>4. QED
    BY <1>3 DEF Promise!PNext

\* ... and the transaction of apply is the payout, or nothing.
LEMMA PayPaysOut ==
    ASSUME DataInv, NEW s \in Sids, Pay(s)
    PROVE  [Promise!PNext]_(Promise!pvars)
<1>1. CASE phase[s] = "settled" /\ UNCHANGED <<balance, row>>
    BY <1>1, Unseen DEF row
<1>2. CASE Unpaid(s)
  <2>1. /\ balance' = [u \in Users |-> balance[u] + intent[s][u]]
        /\ phase' = [phase EXCEPT ![s] = "settled"]
        /\ escrow' = [escrow EXCEPT ![s] = Zero]
        /\ intent' = intent
      BY <1>2 DEF Pay, Unpaid
  <2>2. [t \in Sids |-> Stage(t)]' = [[t \in Sids |-> Stage(t)] EXCEPT ![s] = "closed"]
      BY <2>1 DEF Stage, DataInv, DataTypes
  <2>3. Promise!PayOut(s)
      BY <1>2, <2>1, <2>2 DEF Promise!PayOut, Promise!Nothing, Zero, Stage, Unpaid
  <2>4. QED
      BY <2>3 DEF Promise!PNext
<1>3. QED
    BY <1>1, <1>2 DEF Pay, Unpaid

\* A debit is a payment into the pot.
LEMMA DebitPutsIn ==
    ASSUME IInv, NEW s \in Sids, CommitDebit(s)
    PROVE  Promise!PNext
<1> DEFINE u == tx[s].req.user
<1> DEFINE n == tx[s].req.amount
<1>1. u \in Users /\ n \in Nat \ {0} /\ n \in {r.amount : r \in Requests}
    BY TxArguments, RequestsAssumption DEF CommitDebit, IInv, DataInv, DataTypes, Request
<1>2. Unfinished(s)
    BY DEF IInv, DataInv, LocksUndecided, Unlocked, NoTx, CommitDebit
<1>3. /\ balance' = [balance EXCEPT ![u] = @ - n]
      /\ escrow' = [escrow EXCEPT ![s][u] = @ + n]
      /\ phase' = [phase EXCEPT ![s] = "active"] /\ intent' = intent
    BY <1>1 DEF CommitDebit, IInv, DataInv, DataTypes
<1> HIDE DEF u, n
<1>4. [t \in Sids |-> Stage(t)]' = [t \in Sids |-> Stage(t)] /\ Stage(s) = "open"
    BY <1>2, <1>3 DEF Stage, IInv, DataInv, DataTypes, Unfinished
<1>5. Promise!PutIn(s, u, n)
    BY <1>3, <1>4 DEF Promise!PutIn
<1>6. QED
    BY <1>1, <1>5 DEF Promise!PNext

\* A claim draws from the pot of the packet's sender.
LEMMA ClaimDraws ==
    ASSUME IInv, NEW s \in Sids, CommitClaim(s)
    PROVE  Promise!PNext
<1> DEFINE k == Creator(s)
<1> DEFINE v == tx[s].user
<1>1. IsPacket(s) /\ Unfinished(s)
    BY DEF IInv, DataInv, LocksUndecided, Unlocked, NoTx, CommitClaim
<1>2. k \in Users /\ v \in Users
    BY <1>1, PacketCreator, TxArguments DEF CommitClaim, IInv, DataInv, DataTypes
<1>3. PICK n \in ShareSizes(Left(s), SharesLeft(s)) :
        /\ balance' = [balance EXCEPT ![v] = @ + n]
        /\ escrow' = [escrow EXCEPT ![s][k] = @ - n]
    BY DEF CommitClaim
<1>4. n \in 1 .. escrow[s][k]
  <2>1. Left(s) \in Nat /\ Left(s) = escrow[s][k] /\ Left(s) > 0 /\ SharesLeft(s) \in Int
      BY <1>1, <1>2, PacketShares DEF IInv, DataInv, DataTypes, Left, CommitClaim
  <2>2. QED
      BY <2>1, ShareFits
<1>5. phase' = phase /\ intent' = intent
    BY DEF CommitClaim
<1> HIDE DEF k, v
<1>6. [t \in Sids |-> Stage(t)]' = [t \in Sids |-> Stage(t)] /\ Stage(s) = "open"
    BY <1>1, <1>5 DEF Stage, Unfinished
<1>7. Promise!Draw(s, k, v, n)
    BY <1>3, <1>5, <1>6 DEF Promise!Draw
<1>8. QED
    BY <1>2, <1>4, <1>7 DEF Promise!PNext

\* Every step of the store is one of the promise, or none.
LEMMA StepKeepsPromise ==
    ASSUME IInv, [Next]_vars
    PROVE  [Promise!PNext]_(Promise!pvars)
<1>1. CASE UNCHANGED vars
    BY <1>1, Unseen DEF vars, row
<1>2. ASSUME NEW s \in Sids, CommitDebit(s) \/ CommitClaim(s)
      PROVE  [Promise!PNext]_(Promise!pvars)
    BY <1>2, DebitPutsIn, ClaimDraws
<1>3. ASSUME NEW s \in Sids, Begin(s) \/ Rollback(s) \/ CommitCheckpoint(s)
      PROVE  [Promise!PNext]_(Promise!pvars)
    BY <1>3, Unseen DEF Begin, Rollback, CommitCheckpoint, row
<1>4. ASSUME NEW s \in Sids, RecoverOne(s)
      PROVE  [Promise!PNext]_(Promise!pvars)
  <2>1. CASE UNCHANGED row
      BY <1>4, <2>1, Unseen DEF RecoverOne, row
  <2>2. CASE StillExpired(s) /\ SaveIntent(s, escrow[s], "refund")
      BY <1>4, <2>2, SaveIntentDecides DEF RecoverOne, StillExpired, Expired, IInv
  <2>3. QED
      BY <1>4, <2>1, <2>2 DEF RecoverOne
<1>5. ASSUME NEW w \in Workers, NEW s \in Sids, Prepare(w, s)
      PROVE  [Promise!PNext]_(Promise!pvars)
  <2>1. CASE UNCHANGED row
      BY <1>5, <2>1, Unseen DEF Prepare, row
  <2>2. CASE Undecided(s)
    <3>1. PICK e \in Endings(s) : SaveIntent(s, e[1], e[2])
        BY <1>5, <2>2 DEF Prepare
    <3>2. e[1] \in Payouts \union {escrow[s]}
        BY DEF Endings
    <3>3. QED
        BY <1>5, <2>2, <3>1, <3>2, SaveIntentDecides DEF Prepare, Undecided, IInv
  <2>3. QED
      BY <1>5, <2>1, <2>2 DEF Prepare
<1>6. ASSUME NEW s \in Sids, RecoverPay(s)
      PROVE  [Promise!PNext]_(Promise!pvars)
    BY <1>6, PayPaysOut DEF RecoverPay, IInv
<1>7. ASSUME NEW w \in Workers, Apply(w)
      PROVE  [Promise!PNext]_(Promise!pvars)
  <2>1. call[w].sid \in Sids /\ Pay(call[w].sid)
      BY <1>7 DEF Apply, IInv, ControlInv, ControlTypes, Call, Idle
  <2>2. QED
      BY <2>1, PayPaysOut DEF IInv
<1>8. CASE \/ \E w \in Workers : ApplyFails(w)
           \/ Scan \/ RecoverFails \/ EndPass \/ Tick \/ Restart
    BY <1>8, Unseen DEF ApplyFails, Scan, RecoverFails, EndPass, Tick, Restart, row
<1>9. QED
    BY <1>1, <1>2, <1>3, <1>4, <1>5, <1>6, <1>7, <1>8 DEF Next

\* Deadlines, owners, row locks, retries and the recovery task implement the
\* promise: stakes while open, one decision, one payout of it.
THEOREM Refinement == Spec => KeepsPromise
<1>1. Init => Promise!PInit
    BY InitPromise
<1>2. IInv /\ [Next]_vars => [Promise!PNext]_(Promise!pvars)
    BY StepKeepsPromise
<1>3. QED
    BY <1>1, <1>2, Invariance, PTL DEF Spec, KeepsPromise, Promise!PSpec

\* The recovery task refunds no live game of its own process: recover_one
\* looks at the deadline again, under the row lock.
THEOREM LiveGamesAreSpared == Spec => RecoverySparesLiveGames
<1> DEFINE Spares ==
        \A s \in Sids : (phase[s] = "active" /\ phase'[s] # "active" /\ rec' # rec)
                            => ttl[s] = 0 \/ ~mine[s]
<1>1. IInv /\ [Next]_vars => [Spares]_vars
  <2> SUFFICES ASSUME IInv, Next, NEW s \in Sids, phase[s] = "active",
                      phase'[s] # "active", rec' # rec
               PROVE  ttl[s] = 0 \/ ~mine[s]
      OBVIOUS
  <2>1. PICK t \in Sids : RecoverOne(t) \/ RecoverPay(t)
      BY DEF Next, Begin, Rollback, CommitDebit, CommitCheckpoint, CommitClaim, Prepare,
             Apply, ApplyFails, Scan, RecoverFails, EndPass, Tick, Restart, row
  <2>2. CASE RecoverPay(t)
      BY <2>2, PayData DEF RecoverPay, Pay, Unpaid, row, IInv, DataInv, DataTypes
  <2>3. CASE RecoverOne(t)
      BY <2>3 DEF RecoverOne, StillExpired, Expired, SaveIntent, row, IInv, DataInv,
                  DataTypes
  <2>4. QED
      BY <2>1, <2>2, <2>3
<1>2. QED
    BY <1>1, Invariance, PTL DEF Spec, RecoverySparesLiveGames

(***************************************************************************)
(* Sums: what was charged, what is left in a packet, and all the coins.    *)
(***************************************************************************)
LEMMA OwedType ==
    ASSUME DataTypes
    PROVE  \A s \in Sids : /\ SumFunction(escrow[s]) \in Int
                           /\ SumFunction(intent[s]) \in Int
                           /\ SumFunction(staked[s]) \in Int
                           /\ Pending(s) \in Int /\ House(s) \in Int
<1> SUFFICES ASSUME NEW s \in Sids
             PROVE  /\ SumFunction(escrow[s]) \in Int
                    /\ SumFunction(intent[s]) \in Int
                    /\ SumFunction(staked[s]) \in Int
                    /\ Pending(s) \in Int /\ House(s) \in Int
    OBVIOUS
<1>1. escrow[s] \in [Users -> Int] /\ intent[s] \in [Users -> Int] /\ staked[s] \in [Users -> Int]
    BY DEF DataTypes
<1>2. SumFunction(escrow[s]) \in Int /\ SumFunction(intent[s]) \in Int
      /\ SumFunction(staked[s]) \in Int
    BY <1>1, UsersAssumption, TotalType
<1>3. QED
    BY <1>2 DEF Pending, House

\* Coins that leave the balances are owed by the session they go to, and the
\* other way round.
LEMMA MoneyMoves ==
    ASSUME DataTypes, MoneyConserved, NEW s \in Sids, NEW d \in Int,
           balance' \in [Users -> Int],
           SumFunction(balance') = SumFunction(balance) + d,
           Pending(s)' + House(s)' = Pending(s) + House(s) - d,
           \A t \in Sids \ {s} : Pending(t)' = Pending(t) /\ House(t)' = House(t)
    PROVE  MoneyConserved'
<1> DEFINE owed == [t \in Sids |-> Pending(t) + House(t)]
           owes == [t \in Sids |-> Pending(t)' + House(t)']
           v == Pending(s) + House(s) - d
<1>1. owed \in [Sids -> Int] /\ Pending(s) \in Int /\ House(s) \in Int
    BY OwedType
<1>3. v \in Int /\ owed[s] = v + d
  <2>1. owed[s] = Pending(s) + House(s)
      OBVIOUS
  <2>2. QED
      BY <1>1, <2>1
<1>2. owes \in [Sids -> Int] /\ owes[s] = v /\ \A t \in Sids : t # s => owes[t] = owed[t]
  <2>1. owes = [owed EXCEPT ![s] = v]
      OBVIOUS
  <2> HIDE DEF owes, owed, v
  <2>2. QED
      BY <1>1, <1>3, <2>1
<1>4. SumFunction(balance) \in Int /\ SumFunction(Initial) \in Int
  <2>1. balance \in [Users -> Int] /\ Initial \in [Users -> Int]
      BY InitialAssumption DEF DataTypes
  <2>2. QED
      BY <2>1, UsersAssumption, TotalType
<1>5. SumFunction(balance) + SumFunction(owed) = SumFunction(Initial)
    BY DEF MoneyConserved
<1> HIDE DEF owed, owes, v
<1>6. SumFunction(owed) \in Int
    BY <1>1, SidsAssumption, TotalType
<1>7. SumFunction(owes) = SumFunction(owed) - owed[s] + v
  <2>1. SumFunction(owes) = SumFunction(owed) - owed[s] + owes[s]
      BY <1>1, <1>2, SidsAssumption, TotalChanges
  <2>2. QED
      BY <1>2, <2>1
<1>8. SumFunction(balance') + SumFunction(owes) = SumFunction(Initial)
    BY <1>3, <1>4, <1>5, <1>6, <1>7
<1>9. QED
    BY <1>8 DEF MoneyConserved, owes

\* A step that moves nothing and decides nothing.
LEMMA SameBooks ==
    ASSUME SumsInv, JobsInv',
           UNCHANGED <<balance, phase, escrow, events, claims, intent, why, logs>>
    PROVE  SumsInv'
<1> USE DEF logs
<1>1. RowsInv'
    BY DEF SumsInv, RowsInv, Charged
<1>2. ChargedOncePerEvent'
    BY DEF SumsInv, ChargedOncePerEvent, Charged
<1>3. PacketServesEveryShare'
    BY DEF SumsInv, PacketServesEveryShare, Left, SharesLeft
<1>4. MoneyConserved'
    BY DEF SumsInv, MoneyConserved, Pending, House
<1>5. QED
    BY <1>1, <1>2, <1>3, <1>4 DEF SumsInv

\* The open transactions stay as they are.
LEMMA SameJobs ==
    ASSUME JobsInv, tx' = tx, claims' = claims, events' = events,
           \A s \in Sids : tx[s].op = "claim" => phase'[s] = phase[s]
    PROVE  JobsInv'
  BY DEF JobsInv

\* A transaction that begins reads and writes nothing.
LEMMA BeginSums ==
    ASSUME IInv, SumsInv, NEW s \in Sids, Begin(s)
    PROVE  SumsInv'
<1> USE DEF Begin, row, logs
<1>1. PICK job \in Jobs(s) : Passes(s, job) /\ tx' = [tx EXCEPT ![s] = job]
    OBVIOUS
<1>2. /\ job.op = "debit" => /\ job.req \in Requests /\ job.req.sid = s
                             /\ job.req.event \notin events[s]
      /\ job.op = "claim" => phase[s] = "active" /\ claims[s][job.user] = 0
  <2>1. CASE job = SaveTx
      BY <2>1 DEF SaveTx
  <2>2. CASE \E r \in Requests : r.sid = s /\ job = DebitTx(r)
      BY <1>1, <2>2 DEF Passes, MayDebit, DebitTx
  <2>3. CASE \E u \in Users : job = ClaimTx(u)
      BY <1>1, <2>3 DEF Passes, MayClaim, Open, ClaimTx
  <2>4. QED
      BY <2>1, <2>2, <2>3 DEF Jobs
<1>3. \A t \in Sids : tx'[t] = IF t = s THEN job ELSE tx[t]
    BY <1>1 DEF IInv, DataInv, DataTypes
<1>4. JobsInv'
    BY <1>2, <1>3 DEF SumsInv, JobsInv
<1>5. QED
    BY <1>4, SameBooks

\* Transactions that end without a debit or claim, the clock and a restart.
LEMMA QuietSums ==
    ASSUME IInv, SumsInv,
           \/ \E s \in Sids : Rollback(s) \/ CommitCheckpoint(s)
           \/ \E w \in Workers : ApplyFails(w)
           \/ Scan \/ RecoverFails \/ EndPass \/ Tick \/ Restart \/ UNCHANGED vars
    PROVE  SumsInv'
<1> USE DEF row, logs, vars
<1>1. UNCHANGED <<balance, phase, escrow, events, claims, intent, why, logs>>
    BY DEF Rollback, CommitCheckpoint, ApplyFails, Scan, RecoverFails, EndPass, Tick, Restart
<1>2. \A t \in Sids : tx'[t] = tx[t] \/ tx'[t] = NoTx
    BY DEF Rollback, CommitCheckpoint, ApplyFails, Scan, RecoverFails, EndPass, Tick, Restart,
           IInv, DataInv, DataTypes
<1>3. JobsInv'
    BY <1>1, <1>2 DEF SumsInv, JobsInv, NoTx
<1>4. QED
    BY <1>1, <1>3, SameBooks

\* Saving an outcome turns what is held for the players into what they are owed.
LEMMA SaveSums ==
    ASSUME IInv, SumsInv, NEW s \in Sids, Unlocked(s), phase[s] = "active",
           NEW c \in [Users -> Nat], NEW reason \in {"refund", "result"},
           reason = "refund" => c = escrow[s], reason = "result" => ~IsPacket(s),
           SaveIntent(s, c, reason), UNCHANGED <<balance, tx, logs>>
    PROVE  SumsInv'
<1> USE DEF logs
<1>1. /\ phase' = [phase EXCEPT ![s] = "settling"]
      /\ intent' = [intent EXCEPT ![s] = c] /\ why' = [why EXCEPT ![s] = reason]
      /\ UNCHANGED <<escrow, events, claims, ttl, mine>>
    BY DEF SaveIntent
<1>2. DataTypes /\ phase \in [Sids -> Phase]
    BY DEF IInv, DataInv, DataTypes
<1>3. JobsInv'
    BY <1>1, <1>2, SameJobs DEF SumsInv, Unlocked, NoTx
<1>4. RowsInv'
    BY <1>1, <1>2 DEF SumsInv, RowsInv, Charged
<1>5. ChargedOncePerEvent'
    BY <1>1 DEF SumsInv, ChargedOncePerEvent, Charged
<1>6. PacketServesEveryShare'
    BY <1>1, <1>2 DEF SumsInv, PacketServesEveryShare, Left, SharesLeft
<1>7. MoneyConserved'
  <2>1. why[s] = "none"
      BY DEF IInv, DataInv, Accounts, Unfinished, Decided
  <2>2. Pending(s) = SumFunction(escrow[s]) /\ House(s) = 0
      BY <2>1 DEF Pending, House
  <2>3. /\ phase'[s] = "settling" /\ intent'[s] = c /\ why'[s] = reason
        /\ Pending(s)' = SumFunction(c)
        /\ House(s)' = IF reason = "result" THEN SumFunction(staked[s]) - SumFunction(c) ELSE 0
      BY <1>1, <1>2 DEF DataTypes, Pending, House
  <2>4. reason = "result" => staked[s] = escrow[s]
    <3>1. staked[s] \in [Users -> Nat] /\ escrow[s] \in [Users -> Nat]
        BY <1>2 DEF DataTypes
    <3>2. ASSUME NEW u \in Users, ~IsPacket(s) PROVE staked[s][u] = escrow[s][u]
        BY <3>1, <3>2 DEF IInv, DataInv, Accounts, Given
    <3>3. QED
        BY <3>1, <3>2
  <2>5. SumFunction(c) \in Int /\ SumFunction(escrow[s]) \in Int
    <3>1. c \in [Users -> Int]
        OBVIOUS
    <3>2. QED
        BY <1>2, <3>1, UsersAssumption, TotalType, OwedType
  <2>6. Pending(s)' + House(s)' = Pending(s) + House(s) - 0
    <3>1. CASE reason = "refund"
        BY <2>2, <2>3, <2>5, <3>1
    <3>2. CASE reason = "result"
        BY <2>2, <2>3, <2>4, <2>5, <3>2
    <3>3. QED
        BY <3>1, <3>2
  <2>7. \A t \in Sids \ {s} : Pending(t)' = Pending(t) /\ House(t)' = House(t)
    <3> SUFFICES ASSUME NEW t \in Sids \ {s}
                 PROVE Pending(t)' = Pending(t) /\ House(t)' = House(t)
        OBVIOUS
    <3>1. phase'[t] = phase[t] /\ intent'[t] = intent[t] /\ why'[t] = why[t]
          /\ escrow'[t] = escrow[t] /\ staked'[t] = staked[t]
        BY <1>1, <1>2 DEF DataTypes
    <3>2. QED
        BY <3>1 DEF Pending, House
  <2>8. SumFunction(balance') = SumFunction(balance) + 0
    <3>1. balance \in [Users -> Int]
        BY <1>2 DEF DataTypes
    <3>2. SumFunction(balance) \in Int
        BY <3>1, UsersAssumption, TotalType
    <3>3. QED
        BY <3>2
  <2>9. balance' \in [Users -> Int]
      BY <1>2 DEF DataTypes
  <2>10. QED
      BY <1>2, <2>6, <2>7, <2>8, <2>9, MoneyMoves DEF SumsInv
<1>8. QED
    BY <1>3, <1>4, <1>5, <1>6, <1>7 DEF SumsInv

\* Paying what is owed moves it into the balances.
LEMMA PaySums ==
    ASSUME IInv, SumsInv, NEW s \in Sids, Pay(s)
    PROVE  SumsInv'
<1> USE DEF logs
<1>1. CASE phase[s] = "settled" /\ UNCHANGED <<balance, row, logs, tx>>
  <2>1. JobsInv'
      BY <1>1, SameJobs DEF SumsInv, row
  <2>2. QED
      BY <1>1, <2>1, SameBooks DEF row
<1>2. CASE Unpaid(s)
  <2>1. /\ Unlocked(s) /\ phase[s] = "settling" /\ tx' = tx
        /\ balance' = [u \in Users |-> balance[u] + intent[s][u]]
        /\ phase' = [phase EXCEPT ![s] = "settled"]
        /\ escrow' = [escrow EXCEPT ![s] = Zero]
        /\ UNCHANGED <<events, claims, intent, why, staked, taken>>
      BY <1>2 DEF Pay, Unpaid
  <2>2. DataTypes /\ phase \in [Sids -> Phase] /\ escrow \in [Sids -> [Users -> Nat]]
      BY DEF IInv, DataInv, DataTypes
  <2>3. JobsInv'
      BY <2>1, <2>2, SameJobs DEF SumsInv, Unlocked, NoTx
  <2>4. RowsInv'
      BY <2>1, <2>2 DEF SumsInv, RowsInv, Charged
  <2>5. ChargedOncePerEvent'
      BY <2>1 DEF SumsInv, ChargedOncePerEvent, Charged
  <2>6. PacketServesEveryShare'
    <3> SUFFICES ASSUME NEW t \in Sids, IsPacket(t), phase'[t] = "active"
                 PROVE (taken[t] = SumFunction(claims[t])
                        /\ Left(t) >= SharesLeft(t)
                        /\ (SharesLeft(t) = 0 => Left(t) = 0))'
        BY DEF PacketServesEveryShare
    <3>1. t # s /\ phase[t] = "active" /\ escrow'[t] = escrow[t]
        BY <2>1, <2>2
    <3>2. QED
        BY <2>1, <3>1 DEF SumsInv, PacketServesEveryShare, Left, SharesLeft
  <2>7. MoneyConserved'
    <3> DEFINE d == SumFunction(intent[s])
    <3>1. /\ balance \in [Users -> Int] /\ intent[s] \in [Users -> Int]
          /\ balance' \in [Users -> Int]
        BY <2>1, <2>2 DEF DataTypes
    <3>2. SumFunction(balance') = SumFunction(balance) + d
        BY <2>1, <3>1, UsersAssumption, TotalPlus
    <3>3. Pending(s) = d /\ d \in Int /\ House(s) \in Int
        BY <2>1, <2>2, OwedType DEF Pending
    <3>4. Pending(s)' = 0
      <4>1. phase'[s] = "settled" /\ escrow'[s] = Zero
          BY <2>1, <2>2
      <4>2. SumFunction(Zero) = 0
          BY UsersAssumption, TotalOfZeros DEF Zero
      <4>3. QED
          BY <4>1, <4>2 DEF Pending
    <3>5. House(s)' = House(s)
        BY <2>1 DEF House
    <3>6. \A t \in Sids \ {s} : Pending(t)' = Pending(t) /\ House(t)' = House(t)
        BY <2>1, <2>2 DEF Pending, House
    <3> HIDE DEF d
    <3>7. Pending(s)' + House(s)' = Pending(s) + House(s) - d
        BY <3>3, <3>4, <3>5
    <3>8. QED
        BY <2>2, <3>1, <3>2, <3>3, <3>6, <3>7, MoneyMoves DEF SumsInv
  <2>8. QED
      BY <2>3, <2>4, <2>5, <2>6, <2>7 DEF SumsInv
<1>3. QED
    BY <1>1, <1>2 DEF Pay

\* The one request of a packet.
LEMMA PacketIsRequest ==
    ASSUME NEW s \in Sids, NEW r \in Requests, r.sid = s, IsPacket(s)
    PROVE  PacketRequest(s) = r /\ Creator(s) = r.user /\ r.shares > 0
<1>1. PacketRequest(s) \in Requests /\ PacketRequest(s).sid = s /\ PacketRequest(s).shares > 0
    BY DEF IsPacket, PacketRequest
<1>2. QED
    BY <1>1, RequestsAssumption DEF Creator

\* debit adds one request to what was charged, and its amount to the stakes.
LEMMA DebitSums ==
    ASSUME IInv, SumsInv, NEW s \in Sids, CommitDebit(s)
    PROVE  SumsInv'
<1> USE DEF logs
<1>1. PICK r \in Requests : r = tx[s].req
    BY DEF CommitDebit, SumsInv, JobsInv
<1> DEFINE p == r.user
           n == r.amount
<1>2. /\ r \in Requests /\ r.sid = s /\ r.event \notin events[s]
      /\ p \in Users /\ n \in Nat \ {0} /\ r.shares \in Nat
    BY <1>1, RequestsAssumption DEF CommitDebit, SumsInv, JobsInv, Request
<1>3. Unfinished(s) /\ why[s] = "none"
    BY DEF IInv, DataInv, LocksUndecided, Unlocked, NoTx, CommitDebit, Accounts, Decided
<1>4. /\ balance' = [balance EXCEPT ![p] = @ - n]
      /\ escrow' = [escrow EXCEPT ![s][p] = @ + n]
      /\ staked' = [staked EXCEPT ![s][p] = @ + n]
      /\ events' = [events EXCEPT ![s] = @ \union {r.event}]
      /\ phase' = [phase EXCEPT ![s] = "active"]
      /\ tx' = [tx EXCEPT ![s] = NoTx]
      /\ UNCHANGED <<claims, intent, why, taken>>
    BY <1>1 DEF CommitDebit
<1> HIDE DEF p, n
<1>5. /\ balance \in [Users -> Int] /\ escrow \in [Sids -> [Users -> Nat]]
      /\ staked \in [Sids -> [Users -> Nat]] /\ phase \in [Sids -> Phase]
      /\ DOMAIN events = Sids /\ DOMAIN tx = Sids /\ DataTypes
    BY DEF IInv, DataInv, DataTypes
<1>6. /\ balance' \in [Users -> Int] /\ balance'[p] = balance[p] - n
      /\ \A u \in Users : u # p => balance'[u] = balance[u]
    BY <1>2, <1>4, <1>5
<1>7. /\ escrow' \in [Sids -> [Users -> Nat]] /\ escrow'[s][p] = escrow[s][p] + n
      /\ \A u \in Users : u # p => escrow'[s][u] = escrow[s][u]
      /\ \A t \in Sids : t # s => escrow'[t] = escrow[t]
    BY <1>2, <1>4, <1>5
<1>8. /\ staked'[s][p] = staked[s][p] + n
      /\ \A t \in Sids, u \in Users : ~(t = s /\ u = p) => staked'[t][u] = staked[t][u]
      /\ \A t \in Sids : t # s => staked'[t] = staked[t]
    BY <1>2, <1>4, <1>5
<1>9. /\ events'[s] = events[s] \union {r.event} /\ phase'[s] = "active" /\ tx'[s] = NoTx
      /\ \A t \in Sids : t # s =>
            events'[t] = events[t] /\ phase'[t] = phase[t] /\ tx'[t] = tx[t]
    BY <1>4, <1>5
<1>10. JobsInv'
    BY <1>4, <1>9 DEF SumsInv, JobsInv, NoTx
<1>11. /\ Charged(s, p)' = Charged(s, p) \union {r} /\ r \notin Charged(s, p)
       /\ \A t \in Sids, u \in Users : ~(t = s /\ u = p) => Charged(t, u)' = Charged(t, u)
  <2>1. \A q \in Requests : q.sid = s /\ q.event = r.event => q = r
      BY <1>2, EventsAssumption
  <2>2. Charged(s, p)' = Charged(s, p) \union {r} /\ r \notin Charged(s, p)
    <3>1. r.user = p
        BY DEF p
    <3> HIDE DEF p
    <3>2. \A q \in Requests : q.sid = s /\ q.user = p =>
              (q.event \in events'[s] <=> q.event \in events[s] \/ q = r)
        BY <1>2, <1>9, <2>1
    <3>3. QED
        BY <1>2, <3>1, <3>2 DEF Charged
  <2>3. ASSUME NEW u \in Users, u # p PROVE Charged(s, u)' = Charged(s, u)
      BY <1>2, <1>9, <2>1, <2>3 DEF Charged, p
  <2>4. ASSUME NEW t \in Sids, t # s, NEW u \in Users PROVE Charged(t, u)' = Charged(t, u)
      BY <1>9, <2>4 DEF Charged
  <2>5. QED
      BY <2>2, <2>3, <2>4
<1>12. RowsInv'
  <2> SUFFICES ASSUME NEW t \in Sids
               PROVE (/\ \A u \in Users : IsFiniteSet(Charged(t, u))
                      /\ IsPacket(t) /\ phase[t] = "none" => claims[t] = Zero /\ taken[t] = 0
                      /\ IsPacket(t) /\ phase[t] # "none" =>
                             PacketRequest(t).event \in events[t])'
      BY DEF RowsInv
  <2>1. ASSUME NEW u \in Users PROVE IsFiniteSet(Charged(t, u)')
    <3>1. IsFiniteSet(Charged(t, u))
        BY DEF SumsInv, RowsInv
    <3>2. CASE t = s /\ u = p
      <4>1. IsFiniteSet(Charged(s, p) \union {r})
          BY <3>1, <3>2, FS_AddElement
      <4>2. QED
          BY <1>11, <3>2, <4>1
    <3>3. CASE ~(t = s /\ u = p)
        BY <1>11, <3>1, <3>3
    <3>4. QED
        BY <3>2, <3>3
  <2>2. CASE t # s
      BY <1>4, <1>9, <2>1, <2>2 DEF SumsInv, RowsInv
  <2>3. CASE t = s
    <3>1. IsPacket(s) => PacketRequest(s) = r
        BY <1>2, PacketIsRequest
    <3>2. QED
        BY <1>9, <2>1, <2>3, <3>1
  <2>4. QED
      BY <2>2, <2>3
<1>13. ChargedOncePerEvent'
  <2> SUFFICES ASSUME NEW t \in Sids, NEW u \in Users
               PROVE  staked'[t][u] = SumFunction([q \in Charged(t, u)' |-> q.amount])
      BY DEF ChargedOncePerEvent
  <2>1. staked[t][u] = SumFunction([q \in Charged(t, u) |-> q.amount])
      BY DEF SumsInv, ChargedOncePerEvent
  <2>2. CASE ~(t = s /\ u = p)
      BY <1>8, <1>11, <2>1, <2>2
  <2>3. CASE t = s /\ u = p
    <3> DEFINE C == Charged(s, p)
               f == [q \in C |-> q.amount]
               g == [q \in C \union {r} |-> q.amount]
    <3>1. \A q \in Requests : q.amount \in Int
        BY RequestsAssumption DEF Request
    <3>2. f \in [C -> Int] /\ g \in [C \union {r} -> Int] /\ g[r] = n
          /\ \A q \in C : g[q] = f[q]
        BY <1>2, <3>1 DEF Charged, n
    <3>3. IsFiniteSet(C) /\ r \notin C
        BY <1>2, <1>11 DEF SumsInv, RowsInv
    <3> HIDE DEF C, f, g
    <3>4. SumFunction(g) = SumFunction(f) + n
        BY <3>2, <3>3, TotalGrows
    <3>5. staked'[s][p] = SumFunction(g)
        BY <1>8, <2>1, <2>3, <3>4 DEF C, f
    <3>6. [q \in Charged(s, p)' |-> q.amount] = g
        BY <1>11 DEF C, g
    <3>7. QED
        BY <2>3, <3>5, <3>6
  <2>4. QED
      BY <2>2, <2>3
<1>14. PacketServesEveryShare'
  <2> SUFFICES ASSUME NEW t \in Sids, IsPacket(t), phase'[t] = "active"
               PROVE (/\ taken[t] = SumFunction(claims[t])
                      /\ Left(t) >= SharesLeft(t)
                      /\ SharesLeft(t) = 0 => Left(t) = 0)'
      BY DEF PacketServesEveryShare
  <2>1. CASE t # s
      BY <1>4, <1>7, <1>9, <2>1 DEF SumsInv, PacketServesEveryShare, Left, SharesLeft
  <2>2. CASE t = s
    <3>1. PacketRequest(s) = r /\ Creator(s) = p /\ r.shares > 0
        BY <1>2, <2>2, PacketIsRequest DEF p
    <3>2. phase[s] = "none"
        BY <1>2, <1>3, <2>2, <3>1 DEF SumsInv, RowsInv, Unfinished
    <3>3. claims[s] = Zero /\ taken[s] = 0
        BY <2>2, <3>2 DEF SumsInv, RowsInv
    <3>4. SumFunction(Zero) = 0
        BY UsersAssumption, TotalOfZeros DEF Zero
    <3>5. SharesLeft(s)' = r.shares
      <4>1. {u \in Users : claims'[s][u] > 0} = {}
          BY <1>4, <3>3 DEF Zero
      <4>2. Cardinality({u \in Users : claims'[s][u] > 0}) = 0
          BY <4>1, FS_EmptySet
      <4>3. QED
          BY <1>2, <3>1, <4>2 DEF SharesLeft
    <3>6. Left(s)' = escrow[s][p] + n /\ escrow[s][p] \in Nat
        BY <1>2, <1>5, <1>7, <3>1 DEF Left
    <3>7. n >= r.shares
        BY <1>2, RequestsAssumption DEF n
    <3>8. Left(s)' >= SharesLeft(s)' /\ SharesLeft(s)' # 0
        BY <1>2, <3>1, <3>5, <3>6, <3>7
    <3>9. taken'[s] = SumFunction(claims'[s])
        BY <1>4, <3>3, <3>4
    <3>10. QED
        BY <2>2, <3>8, <3>9
  <2>3. QED
      BY <2>1, <2>2
<1>15. MoneyConserved'
  <2>1. balance \in [Users -> Int] /\ balance' \in [Users -> Int]
      BY <1>5, <1>6
  <2>2. SumFunction(balance) \in Int
      BY <2>1, UsersAssumption, TotalType
  <2>3. SumFunction(balance') = SumFunction(balance) - balance[p] + balance'[p]
      BY <1>2, <1>6, <2>1, UsersAssumption, TotalChanges
  <2>4. SumFunction(balance') = SumFunction(balance) + (-n)
      BY <1>2, <1>5, <1>6, <2>2, <2>3
  <2>5. escrow[s] \in [Users -> Int] /\ escrow'[s] \in [Users -> Int]
      BY <1>5, <1>7
  <2>6. SumFunction(escrow[s]) \in Int
      BY <2>5, UsersAssumption, TotalType
  <2>7. SumFunction(escrow'[s]) = SumFunction(escrow[s]) - escrow[s][p] + escrow'[s][p]
      BY <1>2, <1>7, <2>5, UsersAssumption, TotalChanges
  <2>8. SumFunction(escrow'[s]) = SumFunction(escrow[s]) + n
      BY <1>2, <1>5, <1>7, <2>6, <2>7
  <2>9. /\ Pending(s) = SumFunction(escrow[s]) /\ Pending(s)' = SumFunction(escrow'[s])
        /\ House(s) = 0 /\ House(s)' = 0
      BY <1>3, <1>4, <1>9 DEF Pending, House, Unfinished
  <2>10. Pending(s)' + House(s)' = Pending(s) + House(s) - (-n)
      BY <1>2, <2>6, <2>8, <2>9
  <2>11. \A t \in Sids \ {s} : Pending(t)' = Pending(t) /\ House(t)' = House(t)
      BY <1>4, <1>7, <1>8, <1>9 DEF Pending, House
  <2>12. -n \in Int
      BY <1>2
  <2>13. QED
      BY <1>5, <1>6, <2>4, <2>10, <2>11, <2>12, MoneyMoves DEF SumsInv
<1>16. QED
    BY <1>10, <1>12, <1>13, <1>14, <1>15 DEF SumsInv

\* A share leaves a coin for each of the others, or takes all that is left.
LEMMA ShareLeavesEnough ==
    ASSUME NEW left \in Nat, NEW count \in Nat \ {0}, left >= count,
           NEW n \in ShareSizes(left, count)
    PROVE  /\ n \in 1 .. left
           /\ left - n >= count - 1
           /\ count = 1 => left - n = 0
<1> DEFINE cap == (left * 2) \div 5
<1>1. cap \in Nat /\ cap <= left
    BY SMT
<1> HIDE DEF cap
<1>2. ShareSizes(left, count) =
        IF count = 1 THEN {left}
        ELSE 1 .. (IF (IF left - count + 1 < cap THEN left - count + 1 ELSE cap) < 1
                   THEN 1 ELSE IF left - count + 1 < cap THEN left - count + 1 ELSE cap)
    BY DEF ShareSizes, cap
<1>3. CASE count = 1
    BY <1>2, <1>3
<1>4. CASE count # 1
  <2>1. n \in Int /\ n >= 1 /\ (n <= 1 \/ n <= left - count + 1)
      BY <1>1, <1>2, <1>4
  <2>2. QED
      BY <1>4, <2>1
<1>5. QED
    BY <1>3, <1>4

\* claim: one share more is drawn, and counted.
LEMMA ClaimSums ==
    ASSUME IInv, SumsInv, NEW s \in Sids, CommitClaim(s)
    PROVE  SumsInv'
<1> USE DEF logs
<1>1. IsPacket(s) /\ phase[s] = "active"
    BY DEF IInv, DataInv, LocksUndecided, SumsInv, JobsInv, CommitClaim
<1>2. PICK v \in Users : v = tx[s].user
    BY TxArguments DEF CommitClaim, IInv, DataInv, DataTypes
<1> DEFINE k == Creator(s)
<1>3. k \in Users
    BY <1>1, PacketCreator
<1>4. /\ taken[s] = SumFunction(claims[s]) /\ Left(s) >= SharesLeft(s)
      /\ SharesLeft(s) > 0 /\ Left(s) > 0 /\ claims[s][v] = 0
    BY <1>1, <1>2 DEF SumsInv, PacketServesEveryShare, JobsInv, CommitClaim
<1>5. PICK n \in ShareSizes(Left(s), SharesLeft(s)) :
        /\ balance' = [balance EXCEPT ![v] = @ + n]
        /\ escrow' = [escrow EXCEPT ![s][k] = @ - n]
        /\ claims' = [claims EXCEPT ![s][v] = n]
        /\ taken' = [taken EXCEPT ![s] = @ + n]
    BY <1>2 DEF CommitClaim
<1>6. /\ tx' = [tx EXCEPT ![s] = NoTx]
      /\ UNCHANGED <<phase, events, intent, why, staked>>
    BY DEF CommitClaim
<1> HIDE DEF k
<1>7. /\ balance \in [Users -> Int] /\ escrow \in [Sids -> [Users -> Nat]]
      /\ claims \in [Sids -> [Users -> Nat]] /\ taken \in [Sids -> Nat]
      /\ DOMAIN tx = Sids /\ DataTypes
    BY DEF IInv, DataInv, DataTypes
<1>8. /\ Left(s) \in Nat /\ Left(s) = escrow[s][k]
      /\ SharesLeft(s) \in Nat \ {0}
  <2>1. SharesLeft(s) \in Int
      BY <1>1, PacketShares
  <2>2. QED
      BY <1>3, <1>4, <1>7, <2>1 DEF Left, k
<1>9. /\ n \in 1 .. Left(s) /\ Left(s) - n >= SharesLeft(s) - 1
      /\ SharesLeft(s) = 1 => Left(s) - n = 0
    BY <1>4, <1>8, ShareLeavesEnough
<1>10. n \in Nat \ {0}
    BY <1>8, <1>9
<1>11. /\ balance' \in [Users -> Int] /\ balance'[v] = balance[v] + n
       /\ \A u \in Users : u # v => balance'[u] = balance[u]
    BY <1>5, <1>7, <1>10
<1>12. /\ escrow'[s] \in [Users -> Nat] /\ escrow'[s][k] = escrow[s][k] - n
       /\ \A u \in Users : u # k => escrow'[s][u] = escrow[s][u]
       /\ \A t \in Sids : t # s => escrow'[t] = escrow[t]
    BY <1>3, <1>5, <1>7, <1>8, <1>9, <1>10
<1>13. /\ claims'[s] \in [Users -> Nat] /\ claims'[s][v] = n
       /\ \A u \in Users : u # v => claims'[s][u] = claims[s][u]
       /\ \A t \in Sids : t # s => claims'[t] = claims[t]
    BY <1>5, <1>7, <1>10
<1>14. taken'[s] = taken[s] + n /\ \A t \in Sids : t # s => taken'[t] = taken[t]
    BY <1>5, <1>7
<1>15. tx'[s] = NoTx /\ \A t \in Sids : t # s => tx'[t] = tx[t]
    BY <1>6, <1>7
<1>16. JobsInv'
    BY <1>6, <1>13, <1>15 DEF SumsInv, JobsInv, NoTx
<1>17. RowsInv'
  <2> SUFFICES ASSUME NEW t \in Sids
               PROVE (/\ \A u \in Users : IsFiniteSet(Charged(t, u))
                      /\ IsPacket(t) /\ phase[t] = "none" => claims[t] = Zero /\ taken[t] = 0
                      /\ IsPacket(t) /\ phase[t] # "none" =>
                             PacketRequest(t).event \in events[t])'
      BY DEF RowsInv
  <2>1. \A u \in Users : Charged(t, u)' = Charged(t, u)
      BY <1>6 DEF Charged
  <2>2. QED
      BY <1>1, <1>6, <1>13, <1>14, <2>1 DEF SumsInv, RowsInv
<1>18. ChargedOncePerEvent'
    BY <1>6 DEF SumsInv, ChargedOncePerEvent, Charged
<1>19. PacketServesEveryShare'
  <2> SUFFICES ASSUME NEW t \in Sids, IsPacket(t), phase'[t] = "active"
               PROVE (/\ taken[t] = SumFunction(claims[t])
                      /\ Left(t) >= SharesLeft(t)
                      /\ SharesLeft(t) = 0 => Left(t) = 0)'
      BY DEF PacketServesEveryShare
  <2>1. CASE t # s
      BY <1>6, <1>12, <1>13, <1>14, <2>1 DEF SumsInv, PacketServesEveryShare, Left, SharesLeft
  <2>2. CASE t = s
    <3>1. taken'[s] = SumFunction(claims'[s])
      <4>1. claims[s] \in [Users -> Int] /\ claims'[s] \in [Users -> Int]
          BY <1>7, <1>13
      <4>2. SumFunction(claims[s]) \in Int
          BY <4>1, UsersAssumption, TotalType
      <4>3. SumFunction(claims'[s]) = SumFunction(claims[s]) - claims[s][v] + claims'[s][v]
          BY <1>13, <4>1, UsersAssumption, TotalChanges
      <4>4. QED
          BY <1>4, <1>10, <1>13, <1>14, <4>2, <4>3
    <3>2. SharesLeft(s)' = SharesLeft(s) - 1
      <4> DEFINE before == {u \in Users : claims[s][u] > 0}
                 after == {u \in Users : claims'[s][u] > 0}
      <4>1. IsFiniteSet(before) /\ v \notin before /\ after = before \union {v}
          BY <1>4, <1>10, <1>13, UsersAssumption, FS_Subset
      <4> HIDE DEF before, after
      <4>2. Cardinality(after) = Cardinality(before) + 1
          BY <4>1, FS_AddElement
      <4>3. Cardinality(before) \in Nat /\ PacketRequest(s).shares \in Nat
          BY <1>1, <4>1, FS_CardinalityType, RequestsAssumption DEF IsPacket, PacketRequest, Request
      <4>4. /\ SharesLeft(s) = PacketRequest(s).shares - Cardinality(before)
            /\ SharesLeft(s)' = PacketRequest(s).shares - Cardinality(after)
          BY DEF SharesLeft, before, after
      <4>5. QED
          BY <4>2, <4>3, <4>4
    <3>3. Left(s)' = Left(s) - n
        BY <1>8, <1>12 DEF Left, k
    <3>4. QED
        BY <1>8, <1>9, <1>10, <2>2, <3>1, <3>2, <3>3
  <2>3. QED
      BY <2>1, <2>2
<1>20. MoneyConserved'
  <2>1. balance \in [Users -> Int] /\ balance' \in [Users -> Int]
      BY <1>7, <1>11
  <2>2. SumFunction(balance) \in Int
      BY <2>1, UsersAssumption, TotalType
  <2>3. SumFunction(balance') = SumFunction(balance) - balance[v] + balance'[v]
      BY <1>11, <2>1, UsersAssumption, TotalChanges
  <2>4. SumFunction(balance') = SumFunction(balance) + n
      BY <1>7, <1>10, <1>11, <2>2, <2>3
  <2>5. escrow[s] \in [Users -> Int] /\ escrow'[s] \in [Users -> Int]
      BY <1>7, <1>12
  <2>6. SumFunction(escrow[s]) \in Int
      BY <2>5, UsersAssumption, TotalType
  <2>7. SumFunction(escrow'[s]) = SumFunction(escrow[s]) - escrow[s][k] + escrow'[s][k]
      BY <1>3, <1>12, <2>5, UsersAssumption, TotalChanges
  <2>8. SumFunction(escrow'[s]) = SumFunction(escrow[s]) - n
      BY <1>3, <1>7, <1>10, <1>12, <2>6, <2>7
  <2>9. /\ Pending(s) = SumFunction(escrow[s]) /\ Pending(s)' = SumFunction(escrow'[s])
        /\ House(s)' = House(s)
      BY <1>1, <1>6 DEF Pending, House
  <2>10. House(s) \in Int
      BY <1>7, OwedType
  <2>11. Pending(s)' + House(s)' = Pending(s) + House(s) - n
      BY <1>10, <2>6, <2>8, <2>9, <2>10
  <2>12. \A t \in Sids \ {s} : Pending(t)' = Pending(t) /\ House(t)' = House(t)
      BY <1>6, <1>12 DEF Pending, House
  <2>13. QED
      BY <1>7, <1>10, <1>11, <2>4, <2>11, <2>12, MoneyMoves DEF SumsInv
<1>21. QED
    BY <1>16, <1>17, <1>18, <1>19, <1>20 DEF SumsInv

\* Nothing was charged or claimed.
LEMMA InitSums == Init => SumsInv
<1> SUFFICES ASSUME Init PROVE SumsInv
    OBVIOUS
<1>1. \A s \in Sids : events[s] = {} /\ phase[s] = "none" /\ claims[s] = Zero /\ taken[s] = 0
          /\ tx[s] = NoTx /\ escrow[s] = Zero /\ why[s] = "none" /\ staked[s] = Zero
    BY DEF Init
<1>2. \A s \in Sids, u \in Users : Charged(s, u) = {}
    BY <1>1 DEF Charged
<1>3. JobsInv
    BY <1>1 DEF JobsInv, NoTx
<1>4. RowsInv
    BY <1>1, <1>2, FS_EmptySet DEF RowsInv
<1>5. ChargedOncePerEvent
  <2> SUFFICES ASSUME NEW s \in Sids, NEW u \in Users
               PROVE  staked[s][u] = SumFunction([r \in Charged(s, u) |-> r.amount])
      BY DEF ChargedOncePerEvent
  <2>1. [r \in Charged(s, u) |-> r.amount] = [x \in {} |-> 0]
      BY <1>2
  <2>2. SumFunction([x \in {} |-> 0]) = 0
      BY FS_EmptySet, TotalOfZeros
  <2>3. staked[s][u] = 0
      BY <1>1 DEF Zero
  <2>4. QED
      BY <2>1, <2>2, <2>3
<1>6. PacketServesEveryShare
    BY <1>1 DEF PacketServesEveryShare
<1>7. MoneyConserved
  <2>1. SumFunction(Zero) = 0
      BY UsersAssumption, TotalOfZeros DEF Zero
  <2>2. \A s \in Sids : Pending(s) + House(s) = 0
      BY <1>1, <2>1 DEF Pending, House
  <2>3. [s \in Sids |-> Pending(s) + House(s)] = [s \in Sids |-> 0]
      BY <2>2
  <2>4. SumFunction([s \in Sids |-> Pending(s) + House(s)]) = 0
      BY <2>3, SidsAssumption, TotalOfZeros
  <2>5. balance = Initial /\ SumFunction(Initial) \in Int
    <3>1. Initial \in [Users -> Int]
        BY InitialAssumption
    <3>2. QED
        BY <3>1, UsersAssumption, TotalType DEF Init
  <2>6. QED
      BY <2>4, <2>5 DEF MoneyConserved
<1>8. QED
    BY <1>3, <1>4, <1>5, <1>6, <1>7 DEF SumsInv

\* The induction step.
LEMMA NextSums == IInv /\ SumsInv /\ [Next]_vars => SumsInv'
<1> SUFFICES ASSUME IInv, SumsInv, [Next]_vars PROVE SumsInv'
    OBVIOUS
<1>1. ASSUME NEW s \in Sids, Begin(s) \/ CommitDebit(s) \/ CommitClaim(s)
      PROVE  SumsInv'
    BY <1>1, BeginSums, DebitSums, ClaimSums
<1>2. CASE \/ \E s \in Sids : Rollback(s) \/ CommitCheckpoint(s)
           \/ \E w \in Workers : ApplyFails(w)
           \/ Scan \/ RecoverFails \/ EndPass \/ Tick \/ Restart \/ UNCHANGED vars
    BY <1>2, QuietSums
<1>3. ASSUME NEW s \in Sids, RecoverPay(s) PROVE SumsInv'
    BY <1>3, PaySums DEF RecoverPay
<1>4. ASSUME NEW w \in Workers, Apply(w) PROVE SumsInv'
  <2>1. call[w].sid \in Sids /\ Pay(call[w].sid)
      BY <1>4 DEF Apply, IInv, ControlInv, ControlTypes, Call, Idle
  <2>2. QED
      BY <2>1, PaySums
<1>5. ASSUME UNCHANGED <<balance, row, tx, logs>> PROVE SumsInv'
  <2>1. JobsInv'
      BY <1>5, SameJobs DEF SumsInv, row
  <2>2. QED
      BY <1>5, <2>1, SameBooks DEF row
<1>6. ASSUME NEW s \in Sids, RecoverOne(s) PROVE SumsInv'
  <2>1. CASE UNCHANGED row
      BY <1>5, <1>6, <2>1 DEF RecoverOne
  <2>2. CASE StillExpired(s) /\ SaveIntent(s, escrow[s], "refund")
    <3>1. phase[s] = "active" /\ escrow[s] \in [Users -> Nat]
        BY <2>2 DEF StillExpired, Expired, IInv, DataInv, DataTypes
    <3>2. QED
        BY <1>6, <2>2, <3>1, SaveSums DEF RecoverOne
  <2>3. QED
      BY <1>6, <2>1, <2>2 DEF RecoverOne
<1>7. ASSUME NEW w \in Workers, NEW s \in Sids, Prepare(w, s) PROVE SumsInv'
  <2>1. CASE UNCHANGED row
      BY <1>5, <1>7, <2>1 DEF Prepare
  <2>2. CASE Undecided(s)
    <3>1. PICK e \in Endings(s) :
              (\A u \in Users : e[1][u] >= 0) /\ SaveIntent(s, e[1], e[2])
        BY <1>7, <2>2 DEF Prepare
    <3>2. /\ e[1] \in [Users -> Nat] /\ e[2] \in {"refund", "result"}
          /\ e[2] = "refund" => e[1] = escrow[s]
          /\ e[2] = "result" => ~IsPacket(s)
      <4>1. CASE e = <<escrow[s], "refund">>
          BY <4>1 DEF IInv, DataInv, DataTypes
      <4>2. CASE ~IsPacket(s) /\ \E c \in Payouts : e = <<c, "result">>
          BY <3>1, <4>2, PayoutsAssumption
      <4>3. QED
          BY <4>1, <4>2 DEF Endings
    <3>3. phase[s] = "active" /\ Unlocked(s) /\ UNCHANGED <<balance, tx, logs>>
        BY <1>7, <2>2 DEF Undecided, Prepare
    <3>4. QED
        BY <3>1, <3>2, <3>3, SaveSums
  <2>3. QED
      BY <1>7, <2>1, <2>2 DEF Prepare
<1>8. QED
    BY <1>1, <1>2, <1>3, <1>4, <1>6, <1>7 DEF Next

\* The charges, the packets and the coins add up in every reachable state.
THEOREM SumsInvariance == Spec => []SumsInv
<1>1. QED
    BY InitSums, NextSums, Invariance, PTL DEF Spec

\* debit charges each interaction once, and all of it.
THEOREM ChargesAreExact == Spec => []ChargedOncePerEvent
BY SumsInvariance, PTL DEF SumsInv

\* A packet that is open can serve all of its shares (claim).
THEOREM PacketsServeEveryShare == Spec => []PacketServesEveryShare
BY SumsInvariance, PTL DEF SumsInv

\* The store neither makes nor loses a coin.
THEOREM MoneyIsConserved == Spec => []MoneyConserved
BY SumsInvariance, PTL DEF SumsInv
================================================================================
