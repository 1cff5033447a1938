----------------------------- MODULE EscrowStore -----------------------------
(***************************************************************************)
(* GameStore (bot_modules/state_repo.py) and the task that recovers its    *)
(* sessions (bot.py): the table bot_game_sessions, which escrows the stake *)
(* of every blackjack game, duel and red packet, and its transactions.     *)
(*                                                                         *)
(* A transaction locks the row of its session (SELECT ... FOR UPDATE)      *)
(* until it ends.  debit, checkpoint and claim look at the clock first and *)
(* commit later, so they are two steps, with the lock held in between; the *)
(* other transactions are one step.  A transaction either commits or rolls *)
(* back; the caller of one that commits may still get an error, when the   *)
(* reply to COMMIT is lost.                                                *)
(*                                                                         *)
(* The plain reads of a transaction see the snapshot that the first of     *)
(* them opened (REPEATABLE READ): debit compares the stake with a balance  *)
(* as old as its look at the events, from before it waits for the row of   *)
(* the user, and takes the stake off the balance of now.                   *)
(*                                                                         *)
(* A row of users that does not exist counts as a balance of zero: debit   *)
(* refuses both alike, and whatever credits a user creates the row first.  *)
(***************************************************************************)
EXTENDS Integers, FiniteSets, Functions

CONSTANTS
    Sids,       \* session ids
    Users,      \* user ids
    Workers,    \* callbacks and timers that may be settling a session
    Requests,   \* the debits the commands may ask for
    Payouts,    \* the credits a game may end with
    Initial,    \* the balances before the first game
    TTL         \* ticks a session lives after its last save

(***************************************************************************)
(* A request is a debit together with the interaction (event) that asks    *)
(* for it.  A red packet is the session of one request, which names the    *)
(* number of shares.  /redpacket refuses fewer coins than shares.          *)
(***************************************************************************)
Request == [sid: Sids, event: STRING, user: Users, amount: Nat \ {0}, shares: Nat]

IsPacket(s) == \E r \in Requests : r.sid = s /\ r.shares > 0

PacketRequest(s) == CHOOSE r \in Requests : r.sid = s /\ r.shares > 0

Creator(s) == PacketRequest(s).user

ASSUME RequestsAssumption ==
    /\ Requests \subseteq Request
    /\ \A r1, r2 \in Requests : r1.sid = r2.sid /\ r1.shares > 0 => r1 = r2
    /\ \A r \in Requests : r.amount >= r.shares

\* An event is the id of the interaction that debits, or the one debit that
\* opens a packet: it names one request of its session.
ASSUME EventsAssumption ==
    \A r1, r2 \in Requests : r1.sid = r2.sid /\ r1.event = r2.event => r1 = r2

ASSUME UsersAssumption == IsFiniteSet(Users)

ASSUME SidsAssumption == IsFiniteSet(Sids)

ASSUME PayoutsAssumption == Payouts \subseteq [Users -> Int]

ASSUME InitialAssumption == Initial \in [Users -> Nat]

ASSUME TTLAssumption == TTL \in Nat \ {0}

VARIABLES
    balance,    \* users.balance
    phase,      \* the phase column; "none" while there is no row
    escrow,     \* the escrow column: what each player has at stake
    events,     \* bot_game_events: the debits already charged
    claims,     \* payload.claims of a packet; 0: not claimed
    intent,     \* settlement.credits
    why,        \* settlement.reason: a game's result, or a refund
    ttl,        \* expires_at, as the ticks that are left
    mine,       \* owner_id is the id of the running process
    tx,         \* the transaction that holds the row lock of the session
    staked,     \* log rows: what each user was debited for the session
    taken,      \* log rows: what claimants drew from the packet
    paid,       \* log rows: what apply credited
    call,       \* what each worker is doing
    startup,    \* game_recovery_task's flag
    rec         \* where the recovery task is

row == <<phase, escrow, events, claims, intent, why, ttl, mine>>
logs == <<staked, taken, paid>>
vars == <<balance, row, tx, logs, call, startup, rec>>

(***************************************************************************)
(* What the steps of the model look like.                                  *)
(***************************************************************************)
NoTx == [op |-> "none"]
SaveTx == [op |-> "checkpoint"]
DebitTx(r) == [op |-> "debit", req |-> r, enough |-> balance[r.user] >= r.amount]
ClaimTx(u) == [op |-> "claim", user |-> u]

Jobs(s) ==
    {SaveTx} \union {DebitTx(r) : r \in {q \in Requests : q.sid = s}}
             \union {ClaimTx(u) : u \in Users}

Idle == [at |-> "idle"]
Applying(s) == [at |-> "apply", sid |-> s]
Done(s, c) == [at |-> "done", sid |-> s, got |-> c]

Asleep == [at |-> "asleep"]
Scanned(ids) == [at |-> "scanned", ids |-> ids]
Paying(s, ids) == [at |-> "paying", sid |-> s, ids |-> ids]

Zero == [u \in Users |-> 0]

Init ==
    /\ balance = Initial
    /\ phase = [s \in Sids |-> "none"]
    /\ escrow = [s \in Sids |-> Zero]
    /\ events = [s \in Sids |-> {}]
    /\ claims = [s \in Sids |-> Zero]
    /\ intent = [s \in Sids |-> Zero]
    /\ why = [s \in Sids |-> "none"]
    /\ ttl = [s \in Sids |-> 0]
    /\ mine = [s \in Sids |-> FALSE]
    /\ tx = [s \in Sids |-> NoTx]
    /\ staked = [s \in Sids |-> Zero]
    /\ taken = [s \in Sids |-> 0]
    /\ paid = [s \in Sids |-> Zero]
    /\ call = [w \in Workers |-> Idle]
    /\ startup = TRUE
    /\ rec = Asleep

\* Mutant: the session is read without FOR UPDATE.
UnlockedMutant(s) == s \in Sids

Unlocked(s) == tx[s] = NoTx

\* The views of a session live in the process that opened it.
Reachable(s) == phase[s] = "none" \/ mine[s]

\* Mutant: only the deadline is looked at.
OpenMutant(s) == ttl[s] > 0

Open(s) == phase[s] = "active" /\ ttl[s] > 0

(***************************************************************************)
(* debit, checkpoint and claim: the checks made under the row lock.        *)
(***************************************************************************)
\* Mutant: the event is not looked up.
MayDebitMutant(r) == phase[r.sid] = "none" \/ Open(r.sid)

MayDebit(r) ==
    /\ r.event \notin events[r.sid]
    /\ phase[r.sid] = "none" \/ Open(r.sid)

MayClaim(s, u) ==
    /\ IsPacket(s)
    /\ claims[s][u] = 0
    /\ Open(s)

Passes(s, job) ==
    CASE job.op = "debit" -> MayDebit(job.req)
      [] job.op = "claim" -> MayClaim(s, job.user)
      [] OTHER            -> Open(s)

Begin(s) ==
    /\ Unlocked(s)
    /\ Reachable(s)
    /\ \E job \in Jobs(s) :
        /\ Passes(s, job)
        /\ tx' = [tx EXCEPT ![s] = job]
    /\ UNCHANGED <<balance, row, logs, call, startup, rec>>

\* An exception, a lost connection, too small a balance.
Rollback(s) ==
    /\ ~Unlocked(s)
    /\ tx' = [tx EXCEPT ![s] = NoTx]
    /\ UNCHANGED <<balance, row, logs, call, startup, rec>>

\* In the balance of the snapshot, though the row of the user is locked by now.
Affords(t) == t.enough

CommitDebit(s) ==
    /\ tx[s].op = "debit"
    /\ LET r == tx[s].req IN
        /\ Affords(tx[s])
        /\ balance' = [balance EXCEPT ![r.user] = @ - r.amount]
        /\ escrow' = [escrow EXCEPT ![s][r.user] = @ + r.amount]
        /\ staked' = [staked EXCEPT ![s][r.user] = @ + r.amount]
        /\ events' = [events EXCEPT ![s] = @ \union {r.event}]
    /\ phase' = [phase EXCEPT ![s] = "active"]
    /\ mine' = [mine EXCEPT ![s] = TRUE]
    /\ ttl' = [ttl EXCEPT ![s] = TTL]
    /\ tx' = [tx EXCEPT ![s] = NoTx]
    /\ UNCHANGED <<claims, intent, why, taken, paid, call, startup, rec>>

CommitCheckpoint(s) ==
    /\ tx[s].op = "checkpoint"
    /\ ttl' = [ttl EXCEPT ![s] = TTL]
    /\ tx' = [tx EXCEPT ![s] = NoTx]
    /\ UNCHANGED <<balance, phase, escrow, events, claims, intent, why, mine,
                   logs, call, startup, rec>>

\* Only the creator stakes into a packet: its escrow sums to the creator's.
Left(s) == escrow[s][Creator(s)]

SharesLeft(s) ==
    PacketRequest(s).shares - Cardinality({u \in Users : claims[s][u] > 0})

\* Mutant: a share may take whatever is left.
ShareSizesMutant(left, count) == 1 .. left + 0 * count

ShareSizes(left, count) ==
    LET cap == IF left - count + 1 < (left * 2) \div 5
               THEN left - count + 1 ELSE (left * 2) \div 5
    IN  IF count = 1 THEN {left} ELSE 1 .. (IF cap < 1 THEN 1 ELSE cap)

CommitClaim(s) ==
    /\ tx[s].op = "claim"
    /\ SharesLeft(s) > 0
    /\ Left(s) > 0
    /\ \E n \in ShareSizes(Left(s), SharesLeft(s)) :
        /\ balance' = [balance EXCEPT ![tx[s].user] = @ + n]
        /\ escrow' = [escrow EXCEPT ![s][Creator(s)] = @ - n]
        /\ claims' = [claims EXCEPT ![s][tx[s].user] = n]
        /\ taken' = [taken EXCEPT ![s] = @ + n]
    /\ tx' = [tx EXCEPT ![s] = NoTx]
    /\ UNCHANGED <<phase, events, intent, why, ttl, mine, staked, paid,
                   call, startup, rec>>

(***************************************************************************)
(* finish: prepare saves the intent, apply pays it.  A worker that got an  *)
(* error gives up; it, or another one, may call finish again.              *)
(***************************************************************************)
\* Mutant: the claims are taken off the credits a second time.
SaveIntentMutant(s, credits, reason) ==
    /\ phase' = [phase EXCEPT ![s] = "settling"]
    /\ intent' = [intent EXCEPT ![s] =
            [u \in Users |-> IF IsPacket(s) /\ u = Creator(s)
                             THEN credits[u] - SumFunction(claims[s]) ELSE credits[u]]]
    /\ why' = [why EXCEPT ![s] = reason]
    /\ UNCHANGED <<escrow, events, claims, ttl, mine>>

SaveIntent(s, credits, reason) ==
    /\ phase' = [phase EXCEPT ![s] = "settling"]
    /\ intent' = [intent EXCEPT ![s] = credits]
    /\ why' = [why EXCEPT ![s] = reason]
    /\ UNCHANGED <<escrow, events, claims, ttl, mine>>

\* Mutant: the refund is the stake, not what the escrow still holds.
EndingsMutant(s) ==
    {<<staked[s], "refund">>} \union
    (IF IsPacket(s) THEN {} ELSE {<<c, "result">> : c \in Payouts})

\* The credits finish may be asked for; a packet is only ever refunded.
Endings(s) ==
    {<<escrow[s], "refund">>} \union
    (IF IsPacket(s) THEN {} ELSE {<<c, "result">> : c \in Payouts})

\* Mutants: a later finish replaces an outcome that is not paid yet; any outcome.
UndecidedMutantSettling(s) == phase[s] \in {"active", "settling"}
UndecidedMutantAlways(s) == phase[s] # "none"

Undecided(s) == phase[s] = "active"

Prepare(w, s) ==
    /\ call[w].at # "apply"
    /\ Unlocked(s)
    /\ phase[s] # "none" /\ mine[s]
    /\ IF Undecided(s)
       THEN \E e \in Endings(s) :
                /\ \A u \in Users : e[1][u] >= 0
                /\ SaveIntent(s, e[1], e[2])
       ELSE UNCHANGED row
    /\ call' \in {[call EXCEPT ![w] = Applying(s)], [call EXCEPT ![w] = Idle]}
    /\ UNCHANGED <<balance, tx, logs, startup, rec>>

\* Mutant: apply does not stop at a settled session.
UnpaidMutant(s) == phase[s] \in {"settling", "settled"}

Unpaid(s) == phase[s] = "settling"

\* The transaction of apply: pays, unless that was done before.
Pay(s) ==
    /\ Unlocked(s)
    /\ \/ /\ Unpaid(s)
          /\ balance' = [u \in Users |-> balance[u] + intent[s][u]]
          /\ paid' = [paid EXCEPT ![s] = [u \in Users |-> @[u] + intent[s][u]]]
          /\ phase' = [phase EXCEPT ![s] = "settled"]
          /\ escrow' = [escrow EXCEPT ![s] = Zero]
          /\ UNCHANGED <<events, claims, intent, why, ttl, mine, staked, taken>>
       \/ /\ phase[s] = "settled"
          /\ UNCHANGED <<balance, row, logs>>
    /\ UNCHANGED tx

Apply(w) ==
    /\ call[w].at = "apply"
    /\ LET s == call[w].sid IN
        /\ Pay(s)
        /\ call' \in {[call EXCEPT ![w] = Done(s, intent[s])],
                      [call EXCEPT ![w] = Idle]}
    /\ UNCHANGED <<startup, rec>>

ApplyFails(w) ==
    /\ call[w].at = "apply"
    /\ call' = [call EXCEPT ![w] = Idle]
    /\ UNCHANGED <<balance, row, tx, logs, startup, rec>>

(***************************************************************************)
(* game_recovery_task: recover reads the ids of the sessions that are due, *)
(* without locks, then handles one after the other with recover_one.  An   *)
(* exception in one session is logged and the next one is taken.           *)
(***************************************************************************)
\* Mutant: deadlines are left to the first pass after a restart.
ExpiredMutant(s) == phase[s] = "active" /\ startup /\ ~mine[s]

Expired(s) == phase[s] = "active" /\ (ttl[s] = 0 \/ (startup /\ ~mine[s]))

\* Mutant: saved outcomes are left to whoever saved them.
IsDueMutant(s) == Expired(s)

IsDue(s) == phase[s] = "settling" \/ Expired(s)

Scan ==
    /\ rec = Asleep
    /\ rec' = Scanned({s \in Sids : IsDue(s)})
    /\ UNCHANGED <<balance, row, tx, logs, call, startup>>

\* Mutant: what the scan saw is not checked again.
StillExpiredMutant(s) == phase[s] = "active"

StillExpired(s) == Expired(s)

\* The first transaction of recover_one checks again, under the row lock.
RecoverOne(s) ==
    /\ rec.at = "scanned" /\ s \in rec.ids
    /\ Unlocked(s)
    /\ LET rest == rec.ids \ {s} IN
        \/ /\ StillExpired(s)
           /\ SaveIntent(s, escrow[s], "refund")
           /\ rec' \in {Paying(s, rest), Scanned(rest)}
        \/ /\ phase[s] = "settling"
           /\ rec' = Paying(s, rest)
           /\ UNCHANGED row
        \/ /\ ~IsDue(s)
           /\ rec' = Scanned(rest)
           /\ UNCHANGED row
    /\ UNCHANGED <<balance, tx, logs, call, startup>>

RecoverPay(s) ==
    /\ rec.at = "paying" /\ rec.sid = s
    /\ Pay(s)
    /\ rec' = Scanned(rec.ids)
    /\ UNCHANGED <<call, startup>>

RecoverFails ==
    /\ \/ rec.at = "paying" /\ rec' = Scanned(rec.ids)
       \/ rec.at = "scanned" /\ \E s \in rec.ids : rec' = Scanned(rec.ids \ {s})
    /\ UNCHANGED <<balance, row, tx, logs, call, startup>>

\* recover returns, and the task sleeps for 20 seconds.
EndPass ==
    /\ rec = Scanned({})
    /\ rec' = Asleep
    /\ startup' = FALSE
    /\ UNCHANGED <<balance, row, tx, logs, call>>

(***************************************************************************)
(* The clock, and a restart of the bot: transactions that are open roll    *)
(* back, the views are gone, and the process has a new owner_id.           *)
(***************************************************************************)
Tick ==
    /\ \E s \in Sids : ttl[s] > 0
    /\ ttl' = [s \in Sids |-> IF ttl[s] > 0 THEN ttl[s] - 1 ELSE 0]
    /\ UNCHANGED <<balance, phase, escrow, events, claims, intent, why, mine,
                   tx, logs, call, startup, rec>>

Restart ==
    /\ mine' = [s \in Sids |-> FALSE]
    /\ tx' = [s \in Sids |-> NoTx]
    /\ call' = [w \in Workers |-> Idle]
    /\ startup' = TRUE
    /\ rec' = Asleep
    /\ UNCHANGED <<balance, phase, escrow, events, claims, intent, why, ttl, logs>>

Next ==
    \/ \E s \in Sids :
        \/ Begin(s) \/ Rollback(s)
        \/ CommitDebit(s) \/ CommitCheckpoint(s) \/ CommitClaim(s)
        \/ RecoverOne(s) \/ RecoverPay(s)
    \/ \E w \in Workers, s \in Sids : Prepare(w, s)
    \/ \E w \in Workers : Apply(w) \/ ApplyFails(w)
    \/ Scan \/ RecoverFails \/ EndPass
    \/ Tick \/ Restart

Spec == Init /\ [][Next]_vars

(***************************************************************************)
(* Fairness, for liveness only.  The database ends every transaction, one  *)
(* way or the other (lock wait timeouts); time passes; the recovery task   *)
(* loops until the bot closes.  The task may meet errors, but not at every *)
(* attempt for ever: hence strong fairness of the steps that succeed.      *)
(***************************************************************************)
EndTx(s) == CommitDebit(s) \/ CommitCheckpoint(s) \/ CommitClaim(s) \/ Rollback(s)

Fairness ==
    /\ WF_vars(Tick) /\ WF_vars(Scan) /\ WF_vars(EndPass)
    /\ \A s \in Sids :
        /\ WF_vars(EndTx(s))
        /\ SF_vars(RecoverOne(s))
        /\ SF_vars(RecoverPay(s))

FairSpec == Spec /\ Fairness

-----------------------------------------------------------------------------
Phase == {"none", "active", "settling", "settled"}

Tx ==
    {NoTx, SaveTx} \union [op : {"debit"}, req : Requests, enough : BOOLEAN]
                   \union [op : {"claim"}, user : Users]

Call ==
    {Idle} \union [at : {"apply"}, sid : Sids]
           \union [at : {"done"}, sid : Sids, got : [Users -> Nat]]

Rec ==
    {Asleep} \union [at : {"scanned"}, ids : SUBSET Sids]
             \union [at : {"paying"}, sid : Sids, ids : SUBSET Sids]

DataTypes ==
    /\ balance \in [Users -> Int]
    /\ phase \in [Sids -> Phase]
    /\ escrow \in [Sids -> [Users -> Nat]]
    /\ events \in [Sids -> SUBSET STRING]
    /\ claims \in [Sids -> [Users -> Nat]]
    /\ intent \in [Sids -> [Users -> Nat]]
    /\ why \in [Sids -> {"none", "refund", "result"}]
    /\ ttl \in [Sids -> 0 .. TTL]
    /\ mine \in [Sids -> BOOLEAN]
    /\ tx \in [Sids -> Tx]
    /\ staked \in [Sids -> [Users -> Nat]]
    /\ taken \in [Sids -> Nat]
    /\ paid \in [Sids -> [Users -> Nat]]

ControlTypes ==
    /\ call \in [Workers -> Call]
    /\ startup \in BOOLEAN
    /\ rec \in Rec

\* The types of the columns and of the program counters; in particular no
\* stake, share or payout is ever negative.  A balance may be.
TypeOK == DataTypes /\ ControlTypes

Decided(s) == why[s] # "none"

\* What claimants drew out of the stake of u.
Given(s, u) == IF IsPacket(s) /\ u = Creator(s) THEN taken[s] ELSE 0

(***************************************************************************)
(* Nobody plays for coins he does not have: debit returns FALSE to who     *)
(* cannot pay.  (It does not hold: see the header.)                        *)
(***************************************************************************)
NobodyOverdrawn == \A u \in Users : balance[u] >= 0

(***************************************************************************)
(* A session credits exactly its saved intent, once: never before it is    *)
(* settled, and never again, however often finish is retried, timeouts and *)
(* the recovery task race for the same session, or the bot restarts        *)
(* between the two transactions of a settlement.                           *)
(***************************************************************************)
PaidExactlyOnce ==
    \A s \in Sids : paid[s] = IF phase[s] = "settled" THEN intent[s] ELSE Zero

(***************************************************************************)
(* A refund returns to every player what that player staked, less what was *)
(* already drawn from a packet: no debit or claim that is committing while *)
(* a timeout or the recovery task saves the refund is lost or paid twice.  *)
(***************************************************************************)
RefundMakesWhole ==
    \A s \in Sids : why[s] = "refund" =>
        \A u \in Users : intent[s][u] + Given(s, u) = staked[s][u]

Charged(s, u) == {r \in Requests : r.sid = s /\ r.user = u /\ r.event \in events[s]}

\* One interaction is charged at most once, and in full, though debit is
\* retried: the stakes of a session are exactly those of its recorded events.
ChargedOncePerEvent ==
    \A s \in Sids, u \in Users :
        staked[s][u] = SumFunction([r \in Charged(s, u) |-> r.amount])

\* Coins held for the players of a session, and what the house won by it.
Pending(s) ==
    CASE phase[s] = "settling" -> SumFunction(intent[s])
      [] OTHER                 -> SumFunction(escrow[s])

House(s) ==
    IF why[s] = "result" THEN SumFunction(staked[s]) - SumFunction(intent[s]) ELSE 0

(***************************************************************************)
(* Coins move, they are not made: balances, what sessions hold and what    *)
(* the house won by results always add up to the first balances.  A refund *)
(* or a red packet in particular neither makes nor loses a coin.           *)
(***************************************************************************)
MoneyConserved ==
    SumFunction(balance)
      + SumFunction([s \in Sids |-> Pending(s) + House(s)]) = SumFunction(Initial)

\* Everyone who got an answer from finish was told what the session really
\* paid, even if another caller or the recovery task decided it first.
ReceiptsAgree ==
    \A w \in Workers : call[w].at = "done" =>
        phase[call[w].sid] = "settled" /\ call[w].got = paid[call[w].sid]

\* An open packet can serve a coin to each share that is left, its last
\* share empties it, and nobody's claim is overwritten by a second one.
PacketServesEveryShare ==
    \A s \in Sids : IsPacket(s) /\ phase[s] = "active" =>
        /\ taken[s] = SumFunction(claims[s])
        /\ Left(s) >= SharesLeft(s)
        /\ SharesLeft(s) = 0 => Left(s) = 0

\* Once the outcome is saved it is never changed, and nobody stakes into
\* the session or draws from it any more.
DecidedIsFrozen ==
    [][\A s \in Sids : Decided(s) =>
        <<intent[s], why[s], staked[s], taken[s]>>'
            = <<intent[s], why[s], staked[s], taken[s]>>]_vars

\* The recovery task never ends a game of the running process that is still
\* within its deadline, even if a save extended that deadline after the scan.
RecoverySparesLiveGames ==
    [][\A s \in Sids :
        (phase[s] = "active" /\ phase'[s] # "active" /\ rec' # rec)
            => ttl[s] = 0 \/ ~mine[s]]_vars

\* A saved outcome is paid in the end.
DecidedGetsPaid ==
    \A s \in Sids : phase[s] = "settling" ~> phase[s] = "settled"

\* A game whose process died is settled in the end, played on by nobody.
OrphansGetRefunded ==
    \A s \in Sids : (phase[s] = "active" /\ ~mine[s]) ~> phase[s] = "settled"

\* A game whose players stop for ever is settled in the end.
AbandonedGetsRefunded ==
    \A s \in Sids :
        <>[][tx'[s] = tx[s]]_vars => (phase[s] = "active" ~> phase[s] = "settled")

(***************************************************************************)
(* The store keeps the promise of WagerPromise: deadlines, owners, locks,  *)
(* scans and the retries of either transaction of a settlement are steps   *)
(* that the players cannot tell from no step at all.                       *)
(***************************************************************************)
Stage(s) ==
    CASE phase[s] = "settling" -> "decided"
      [] phase[s] = "settled"  -> "closed"
      [] OTHER                 -> "open"

Promise == INSTANCE WagerPromise WITH
    Stakes <- {r.amount : r \in Requests},
    purse <- balance,
    pot   <- escrow,
    stage <- [s \in Sids |-> Stage(s)],
    due   <- intent

KeepsPromise == Promise!PSpec

(***************************************************************************)
(* The inductive invariant behind the safety properties.                   *)
(***************************************************************************)
Unfinished(s) == phase[s] \in {"none", "active"}

Payable(s) == phase[s] \in {"settling", "settled"}

\* Each coin staked is still in escrow or was drawn, until it is paid out;
\* a refund was decided on that same account.
Accounts ==
    \A s \in Sids :
        /\ Unfinished(s) <=> ~Decided(s)
        /\ phase[s] # "settled" =>
              \A u \in Users : escrow[s][u] + Given(s, u) = staked[s][u]

\* Who holds the row lock works on an undecided session.
LocksUndecided ==
    \A s \in Sids :
        /\ ~Unlocked(s) => Unfinished(s)
        /\ tx[s].op = "claim" => IsPacket(s)

\* Whoever is about to pay has seen an outcome saved.
PayersHaveIntent ==
    /\ \A w \in Workers : call[w].at = "apply" => Payable(call[w].sid)
    /\ rec.at = "paying" => Payable(rec.sid)

DataInv ==
    DataTypes /\ Accounts /\ RefundMakesWhole /\ LocksUndecided /\ PaidExactlyOnce

ControlInv == ControlTypes /\ PayersHaveIntent /\ ReceiptsAgree

IInv == DataInv /\ ControlInv

\* What the checks made under the row lock say is still so at the commit.
JobsInv ==
    \A s \in Sids :
        /\ tx[s].op = "debit" => /\ tx[s].req \in Requests /\ tx[s].req.sid = s
                                /\ tx[s].req.event \notin events[s]
        /\ tx[s].op = "claim" => phase[s] = "active" /\ claims[s][tx[s].user] = 0

\* Nothing is charged or claimed before there is a row, and a packet is
\* charged once.
RowsInv ==
    \A s \in Sids :
        /\ \A u \in Users : IsFiniteSet(Charged(s, u))
        /\ IsPacket(s) /\ phase[s] = "none" => claims[s] = Zero /\ taken[s] = 0
        /\ IsPacket(s) /\ phase[s] # "none" => PacketRequest(s).event \in events[s]

SumsInv ==
    JobsInv /\ RowsInv /\ ChargedOncePerEvent /\ PacketServesEveryShare /\ MoneyConserved
=============================================================================
