-------------------------------- MODULE Roulette --------------------------------
(***************************************************************************)
(* Russian roulette: one match of commands/russian_roulette.py, a duel or  *)
(* an elimination, and what rr_match_repo.py saves of it.                  *)
(*                                                                         *)
(* Stakes are debited from the players when they enter; only the saved row *)
(* remembers them over a restart.  A settlement is one transaction: it     *)
(* needs the row, takes an event key once, pays, and deletes or updates    *)
(* the row.  The handlers of a match run under its lock, "at" is the await *)
(* the running one is in; the command that creates a match is not under    *)
(* the lock, "making" is where that one is.  Nothing orders its save, of   *)
(* the payload it built before, and what the handlers commit meanwhile:    *)
(* "late" says whether it was overtaken.                                   *)
(*                                                                         *)
(* Any await may raise, which ends its handler.  When the message could    *)
(* not be edited, its old buttons are refused (match_action) and the new   *)
(* view is never dispatched: the match is not "live" until a restart.      *)
(***************************************************************************)
EXTENDS Integers, Sequences, FiniteSets, Functions

CONSTANTS
    Players,
    Host,               \* who creates the match
    Bet,
    Modes,              \* subset of "duel", "royale", "rematch"
    MinPlayers, MaxPlayers,
    Chambers, ExtraChambers,
    Initial,            \* each player's balance
    MaxBets,            \* bound on what is charged
    MaxRestarts         \* bound

ASSUME PlayersAssumption == IsFiniteSet(Players)
ASSUME KeysAssumption == {"none", "refund", "leave"} \intersect Players = {}
ASSUME HostAssumption == Host \in Players
ASSUME BetAssumption == Bet \in Nat \ {0} /\ Initial \in Nat
ASSUME SizeAssumption == MinPlayers \in Nat /\ MaxPlayers \in Nat /\ MinPlayers > 2
ASSUME GunAssumption == Chambers \in Nat \ {0} /\ ExtraChambers \in Nat \ {0}
ASSUME LimitsAssumption == {MaxBets, MaxRestarts} \subseteq Nat

VARIABLES
    purse,
    row,        \* russian_roulette_active_matches: the payload and phase
    events,     \* russian_roulette_settlements of the match
    charged, paid,  \* log rows: what went into the match and out of it
    unsaved,    \* ghost: what leavers got back and the row still holds
    twice,      \* ghost: the part of it that a recovery took up again
    m,          \* RrMatch, with the view that m.view or the message shows
    live,       \* clicks and timeouts of that view are dispatched
    at,         \* the await of the handler that holds m.lock
    pend,       \* the arguments of its settle_event_sync
    making,     \* "none", "sent" or "saving": the command that creates
    draft,      \* the payload it saves
    late,       \* ghost: "no", "overtaken" while it saves, "yes" once it did
    told,       \* the last message said that stakes were returned
    restarts

db == <<purse, row, events, charged, paid, unsaved, twice>>
vars == <<db, m, live, at, pend, making, draft, late, told, restarts>>

None == [view |-> "none"]
NoSettlement == [event |-> "none"]

Zero == [p \in Players |-> 0]

Sum(f) == SumFunctionOnSet(f, Players)

Pot == Sum(m.stakes)

(***************************************************************************)
(* RrMatch.  The bullets' places are drawn when they are reached: a shot   *)
(* may hit if a bullet is left, and miss if an empty chamber is left.      *)
(***************************************************************************)
NewMatch(mode, parts) ==
    [mode |-> mode, view |-> IF mode = "duel" THEN "invite" ELSE "lobby",
     parts |-> parts, alive |-> parts, turn |-> Host,
     stakes |-> [Zero EXCEPT ![Host] = Bet], chambers |-> Chambers, bullets |-> 1,
     settled |-> FALSE, joined |-> FALSE, closed |-> FALSE]

IsDuel(x) == x.mode = "duel"

Playing(x) == x.view \in {"shoot", "choice"}

\* Mutant: a bullet for each player beyond two.
LoadGunMutant(x) ==
    LET n == Len(x.alive)
    IN  [x EXCEPT !.bullets = IF n > 2 THEN n - 2 ELSE 1, !.chambers = Chambers + n * ExtraChambers]

\* configure_royale_gun
LoadGun(x) ==
    LET n == Len(x.alive)
        bullets == IF n > 2 THEN n - 1 ELSE 1
        all == Chambers + (IF n > 2 THEN n - 2 ELSE 0) * ExtraChambers
    IN  [x EXCEPT !.bullets = bullets, !.chambers = IF all > bullets THEN all ELSE bullets]

\* next_alive_uid
NextAlive(x) ==
    LET i == CHOOSE i \in DOMAIN x.alive : x.alive[i] = x.turn
    IN  x.alive[(i % Len(x.alive)) + 1]

\* seq without p, who is in it once.
Without(seq, p) ==
    LET i == CHOOSE i \in DOMAIN seq : seq[i] = p
    IN  [j \in 1 .. Len(seq) - 1 |-> seq[IF j < i THEN j ELSE j + 1]]

Final(x) == IsDuel(x) \/ Len(x.alive) = 1

Winner(x) == IF IsDuel(x) THEN CHOOSE p \in Players : p \in Range(x.parts) /\ p # x.turn
             ELSE x.alive[1]

\* apply_royale_elimination of the player whose turn it is; a duel is over.
Eliminated(x) ==
    IF IsDuel(x) THEN [x EXCEPT !.settled = TRUE]
    ELSE LET rest == Without(x.alive, x.turn)
         IN  [x EXCEPT !.alive = rest, !.settled = Len(rest) = 1,
                       !.turn = IF Len(rest) = 1 THEN @ ELSE NextAlive(x)]

Init ==
    /\ purse = [p \in Players |-> Initial]
    /\ row = None /\ events = {}
    /\ charged = Zero /\ paid = Zero
    /\ unsaved = 0 /\ twice = 0
    /\ m = None /\ live = FALSE
    /\ at = "idle" /\ pend = NoSettlement
    /\ making = "none" /\ draft = None /\ late = "no"
    /\ told = FALSE
    /\ restarts = 0

(***************************************************************************)
(* The transactions.                                                       *)
(***************************************************************************)
Debit(p) ==
    /\ purse[p] >= Bet
    /\ Sum(charged) < MaxBets * Bet
    /\ purse' = [purse EXCEPT ![p] = @ - Bet]
    /\ charged' = [charged EXCEPT ![p] = @ + Bet]
    /\ UNCHANGED <<row, events, paid, unsaved, twice>>

Credit(credits) ==
    /\ purse' = [p \in Players |-> purse[p] + credits[p]]
    /\ paid' = [p \in Players |-> paid[p] + credits[p]]

\* save_match_sync: what a view knows beside the payload is not saved.
Saved(x) == [x EXCEPT !.closed = FALSE]

Save(x) ==
    /\ row' = Saved(x) /\ unsaved' = 0
    /\ UNCHANGED <<purse, events, charged, paid, twice>>

NoCall == UNCHANGED db

\* What a handler commits while the first save is under way overtakes it.
Overtakes == late' = IF making = "saving" /\ late = "no" THEN "overtaken" ELSE late

\* Mutant: a settlement that is not the last leaves the row alone.
SettleMutantRow(s) ==
    /\ row.view # "none" /\ s.event \notin events
    /\ events' = events \union {s.event}
    /\ Credit(s.credits)
    /\ row' = IF s.final THEN None ELSE row
    /\ unsaved' = 0 /\ UNCHANGED <<charged, twice>>

\* Mutant: the row outlives the last settlement.
SettleMutantDelete(s) ==
    /\ row.view # "none" /\ s.event \notin events
    /\ events' = events \union {s.event}
    /\ Credit(s.credits)
    /\ row' = IF s.final THEN row ELSE Saved([m EXCEPT !.view = "shoot"])
    /\ unsaved' = 0 /\ UNCHANGED <<charged, twice>>

\* settle_event_sync, when it does not return False.
Settle(s) ==
    /\ row.view # "none" /\ s.event \notin events
    /\ events' = events \union {s.event}
    /\ Credit(s.credits)
    /\ row' = IF s.final THEN None ELSE Saved([m EXCEPT !.view = "shoot"])
    /\ unsaved' = 0 /\ UNCHANGED <<charged, twice>>

SettleRefused(s) == (row.view = "none" \/ s.event \in events) /\ NoCall

(***************************************************************************)
(* Creating a match: the duel and royale commands, and the rematch.        *)
(***************************************************************************)
Create(mode) ==
    /\ m = None /\ charged = Zero /\ mode \in Modes \ {"rematch"}
    /\ Debit(Host)
    /\ \/ /\ \/ /\ mode = "duel"
                /\ \E p \in Players \ {Host} : m' = NewMatch("duel", <<Host, p>>)
             \/ mode = "royale" /\ m' = NewMatch("royale", <<Host>>)
          /\ live' = TRUE /\ making' = "sent"
       \/ UNCHANGED <<m, live, making>>     \* the message could not be sent
    /\ UNCHANGED <<at, pend, draft, late, told, restarts>>

\* persist, which does nothing once the match is settled.
CallSave ==
    /\ making = "sent"
    /\ IF m.settled THEN making' = "none" /\ UNCHANGED draft
       ELSE /\ making' = "saving"
            /\ draft' = [m EXCEPT !.view = IF IsDuel(m) THEN "invite" ELSE "lobby"]
    /\ NoCall /\ UNCHANGED <<m, live, at, pend, late, told, restarts>>

FirstSave ==
    /\ making = "saving"
    /\ making' = "none" /\ draft' = None
    /\ \/ Save(draft) /\ late' = IF late = "overtaken" THEN "yes" ELSE late
       \/ NoCall /\ late' = IF late = "overtaken" THEN "no" ELSE late
    /\ UNCHANGED <<m, live, at, pend, told, restarts>>

\* _try_start: both pay, or the first gets the bet back.
RematchPays ==
    /\ m = None /\ charged = Zero /\ "rematch" \in Modes /\ at = "idle"
    /\ Debit(Host)
    /\ at' = "rematch"
    /\ UNCHANGED <<m, live, pend, making, draft, late, told, restarts>>

RematchStarts ==
    /\ at = "rematch"
    /\ \E p \in Players \ {Host} :
        \/ /\ Debit(p)
           /\ \E turn \in {Host, p} :
                m' = [NewMatch("duel", <<Host, p>>) EXCEPT !.view = "shoot", !.turn = turn,
                        !.stakes = [q \in Players |-> IF q \in {Host, p} THEN Bet ELSE 0],
                        !.joined = TRUE]
           /\ \/ live' = TRUE /\ at' = "save"
              \/ at' = "idle" /\ UNCHANGED live
        \/ /\ Credit([Zero EXCEPT ![Host] = Bet])
           /\ at' = "idle"
           /\ UNCHANGED <<row, events, charged, unsaved, twice, m, live>>
    /\ UNCHANGED <<pend, making, draft, late, told, restarts>>

(***************************************************************************)
(* How a handler goes on.                                                  *)
(***************************************************************************)
InView(view) == at = "idle" /\ live /\ m.view = view /\ ~m.settled

\* The message shows the new view and the match is saved, or it cannot be
\* edited and the old buttons are refused.
ShowAndSave(x) ==
    /\ m' = x
    /\ \/ at' = "save" /\ live' = TRUE
       \/ at' = "idle" /\ live' = FALSE
    /\ UNCHANGED <<pend, making, draft, late, told, restarts>>

\* A settlement starts; "from" is the view it was called from.
StartSettle(x, event, credits, from) ==
    /\ m' = x
    /\ at' = "settle"
    /\ pend' = [event |-> event, credits |-> credits, from |-> from,
                final |-> event = "refund" \/ Final(x)]
    /\ told' = (from = "told")
    /\ UNCHANGED <<live, making, draft, late, restarts>>

\* refund_participants
StartRefund(x, from) ==
    StartSettle([x EXCEPT !.settled = TRUE, !.closed = TRUE], "refund", x.stakes, from)

\* payout_duel and payout_royale
StartPayout(x, loser, from) ==
    StartSettle(x, loser, IF x.settled THEN [Zero EXCEPT ![Winner(x)] = Sum(x.stakes)] ELSE Zero,
                from)

Unanswered == UNCHANGED <<live, at, pend, making, draft, late, told, restarts>>

NoReply == UNCHANGED m /\ Unanswered

SaveMatch ==
    /\ at = "save"
    /\ at' = "idle"
    /\ (Save(m) /\ Overtakes) \/ (NoCall /\ UNCHANGED late)
    /\ UNCHANGED <<m, live, pend, making, draft, told, restarts>>

\* The settlement returns, and the message is edited; after a hit or a
\* timeout that does not end the match, it shows a new view.
SettleReturns ==
    /\ at = "settle"
    /\ (Settle(pend) /\ Overtakes) \/ (SettleRefused(pend) /\ UNCHANGED late)
    /\ IF pend.final
       THEN /\ told' = (pend.event = "refund")
            /\ at' = "idle" /\ UNCHANGED <<m, live>>
       ELSE /\ m' = [m EXCEPT !.view = "shoot"]
            /\ \/ live' = TRUE /\ at' = IF pend.from = "timeout" THEN "save" ELSE "idle"
               \/ live' = FALSE /\ at' = "idle"
            /\ UNCHANGED told
    /\ pend' = NoSettlement
    /\ UNCHANGED <<making, draft, restarts>>

\* It raises, with its transaction rolled back or only its reply lost.  Only
\* the view that was shown when a trigger was pulled is still good.  The
\* recovery keeps the row for the next connection.
SettleRaises ==
    /\ at = "settle"
    /\ (Settle(pend) /\ Overtakes) \/ (NoCall /\ UNCHANGED late)
    /\ IF pend.from = "recover" THEN at' = "recover" /\ m' = None
       ELSE at' = "idle" /\ UNCHANGED m
    /\ live' = (live /\ pend.from = "shoot")
    /\ pend' = NoSettlement
    /\ UNCHANGED <<making, draft, told, restarts>>

(***************************************************************************)
(* RrInviteView.                                                           *)
(***************************************************************************)
Accept ==
    /\ InView("invite") /\ ~m.closed
    /\ LET p == m.parts[2] IN
        /\ Debit(p)
        /\ \/ \E turn \in Range(m.parts) :
                ShowAndSave([m EXCEPT !.view = "shoot", !.stakes[p] = Bet, !.turn = turn,
                                      !.joined = TRUE, !.closed = TRUE])
           \/ NoReply

\* DeclineReasonSelect, and the timeout of the invitation.
Decline ==
    /\ InView("invite") /\ ~m.closed
    /\ StartRefund(m, "decline")
    /\ NoCall

\* The message is edited before the refund; when that fails there is none.
Withdraw ==
    /\ InView("invite") /\ ~m.closed
    /\ StartRefund(m, "told") \/ (m' = [m EXCEPT !.closed = TRUE] /\ Unanswered)
    /\ NoCall

(***************************************************************************)
(* RrRoyaleLobbyView.  Its message keeps the view, so it stays live.       *)
(***************************************************************************)
ShowLobby(x, next) ==
    /\ m' = x
    /\ at' \in {next, "idle"}
    /\ UNCHANGED <<live, pend, making, draft, late, told, restarts>>

\* Mutant: without the guard against a second entry.
JoinMutant(p) ==
    /\ InView("lobby") /\ Len(m.parts) < MaxPlayers /\ Debit(p)
    /\ LET all == Append(m.parts, p)
       IN  ShowLobby([m EXCEPT !.parts = all, !.alive = all, !.stakes[p] = Bet], "save")

Join(p) ==
    /\ InView("lobby")
    /\ p \notin Range(m.parts) /\ Len(m.parts) < MaxPlayers
    /\ Debit(p)
    /\ \/ LET all == Append(m.parts, p)
          IN  ShowLobby([m EXCEPT !.parts = all, !.alive = all, !.stakes[p] = Bet], "save")
       \/ NoReply

Leave(p) ==
    /\ InView("lobby")
    /\ p \in Range(m.parts) \ {Host}
    /\ LET rest == Without(m.parts, p)
           gone == [m EXCEPT !.parts = rest, !.alive = rest, !.stakes[p] = 0]
       IN  \/ ShowLobby(gone, "idle")
           \/ /\ m' = gone /\ at' = "leave"
              /\ pend' = [event |-> "leave", credits |-> [Zero EXCEPT ![p] = m.stakes[p]],
                          from |-> "lobby", final |-> FALSE]
              /\ UNCHANGED <<live, making, draft, late, told, restarts>>
    /\ NoCall

\* What of the credits the row would pay again.
StillHeld(credits) == Sum([p \in Players |-> IF row.stakes[p] > 0 THEN credits[p] ELSE 0])

\* The refund of a leaver, which the save follows in a transaction of its own.
LeaveCredit ==
    /\ at = "leave"
    /\ pend' = NoSettlement
    /\ \/ /\ Credit(pend.credits) /\ Overtakes
          /\ at' \in {"save", "idle"}
          /\ unsaved' = IF row = None THEN 0 ELSE unsaved + StillHeld(pend.credits)
          /\ UNCHANGED <<row, events, charged, twice>>
       \/ NoCall /\ at' = "idle" /\ UNCHANGED late
    /\ UNCHANGED <<m, live, making, draft, told, restarts>>

\* The message is edited first, as in Withdraw; at the timeout, last.
Disband ==
    /\ InView("lobby")
    /\ StartRefund(m, "told") \/ NoReply
    /\ NoCall

LobbyTimeout == InView("lobby") /\ StartRefund(m, "lobby") /\ NoCall

StartRoyale ==
    /\ InView("lobby")
    /\ Len(m.parts) >= MinPlayers
    /\ \E turn \in Range(m.alive) :
        ShowAndSave(LoadGun([m EXCEPT !.view = "shoot", !.turn = turn, !.joined = TRUE]))
    /\ NoCall

(***************************************************************************)
(* RrShootView and RrChoiceView.                                           *)
(***************************************************************************)
\* ensure_chambers_for_royale
Ready(x) == IF x.chambers = 0 /\ ~IsDuel(x) THEN LoadGun(x) ELSE x

\* _fire, pulled from the view "from".
Fire(x, from) ==
    LET gun == Ready(x)
        shot == [gun EXCEPT !.chambers = @ - 1]
    IN  \/ /\ gun.chambers > gun.bullets
           /\ ShowAndSave([shot EXCEPT !.view = "choice"])
        \/ /\ gun.bullets > 0
           /\ StartPayout(Eliminated([shot EXCEPT !.bullets = @ - 1]), x.turn, from)

PullTrigger == \E from \in {"shoot", "choice"} : InView(from) /\ Fire(m, from) /\ NoCall

DoubleDown ==
    /\ InView("choice")
    /\ Debit(m.turn)
    /\ \/ Fire([m EXCEPT !.stakes[m.turn] = @ + Bet], "choice")
       \/ NoReply

PassTurn ==
    /\ InView("choice")
    /\ ShowAndSave([m EXCEPT !.view = "shoot",
                             !.turn = IF IsDuel(m) THEN Winner(m) ELSE NextAlive(m)])
    /\ NoCall

\* _finish_turn_timeout: whoever does not act has lost.
TurnTimeout ==
    /\ Playing(m) /\ InView(m.view)
    /\ StartPayout(Eliminated(m), m.turn, "timeout")
    /\ NoCall

(***************************************************************************)
(* A restart, and _recover_one, which is tried again when it raises.       *)
(***************************************************************************)
Restart ==
    /\ restarts < MaxRestarts /\ restarts' = restarts + 1
    /\ m' = None /\ live' = FALSE /\ pend' = NoSettlement
    /\ at' = IF row = None THEN "idle" ELSE "recover"
    /\ making' = "none" /\ draft' = None /\ late' = IF late = "overtaken" THEN "no" ELSE late
    /\ NoCall /\ UNCHANGED told

RecoveredView(x) ==
    IF x.view \in {"invite", "lobby"} /\ x.joined THEN "shoot" ELSE x.view

Recover ==
    /\ at = "recover" /\ row.view # "none"
    /\ LET x == [row EXCEPT !.view = RecoveredView(row)] IN
        \/ /\ m' = x /\ live' = TRUE /\ at' = "idle"
           /\ UNCHANGED <<pend, making, draft, late, told, restarts>>
        \/ StartRefund(x, "recover")
    /\ twice' = twice + unsaved /\ unsaved' = 0
    /\ UNCHANGED <<purse, row, events, charged, paid>>

Next ==
    \/ \E mode \in Modes : Create(mode)
    \/ CallSave \/ FirstSave \/ RematchPays \/ RematchStarts
    \/ SaveMatch \/ SettleReturns \/ SettleRaises
    \/ Accept \/ Decline \/ Withdraw
    \/ \E p \in Players : Join(p) \/ Leave(p)
    \/ LeaveCredit \/ Disband \/ LobbyTimeout \/ StartRoyale
    \/ PullTrigger \/ DoubleDown \/ PassTurn \/ TurnTimeout
    \/ Restart \/ Recover

Spec == Init /\ [][Next]_vars

--------------------------------------------------------------------------------
MatchType(x) ==
    \/ x = None
    \/ /\ x.mode \in {"duel", "royale"}
       /\ x.view \in {"invite", "lobby", "shoot", "choice"}
       /\ IsInjective(x.parts) /\ IsInjective(x.alive)
       /\ Range(x.alive) \subseteq Range(x.parts) /\ Range(x.parts) \subseteq Players
       /\ x.turn \in Players
       /\ x.stakes \in [Players -> Nat]
       /\ x.chambers \in Nat /\ x.bullets \in Nat
       /\ {x.settled, x.joined, x.closed} \subseteq BOOLEAN

TypeOK ==
    /\ {purse, charged, paid} \subseteq [Players -> Nat]
    /\ {unsaved, twice} \subseteq Nat
    /\ MatchType(row) /\ MatchType(m) /\ MatchType(draft)
    /\ events \subseteq Players \union {"refund", "leave"}
    /\ {live, told} \subseteq BOOLEAN
    /\ at \in {"idle", "save", "settle", "leave", "rematch", "recover"}
    /\ making \in {"none", "sent", "saving"} /\ late \in {"no", "overtaken", "yes"}
    /\ restarts \in 0 .. MaxRestarts

(***************************************************************************)
(* A recovery pays what the row says, so the row must never promise more   *)
(* than the stakes that are still out.  One exception is counted exactly:  *)
(* a leaver who was refunded when the list without them had not been       *)
(* saved.                                                                  *)
(***************************************************************************)
Backed ==
    LET out == Sum(charged) - Sum(paid) + twice
    IN  out >= 0 /\ (row # None => Sum(row.stakes) <= out + unsaved)

(***************************************************************************)
(* No order of joins, raises, payouts, refunds, lost replies and restarts  *)
(* pays a coin twice (settle_event_sync's event keys, and the row being    *)
(* deleted with the last payout), unless the save of the command that      *)
(* created the match was overtaken and then wrote its old payload: that    *)
(* is the only way to a row that is not backed.                            *)
(***************************************************************************)
RowIsBacked == late # "yes" => Backed

(***************************************************************************)
(* What the comment in persist asks for, that a save which comes after the *)
(* settlement leaves no ghost of the match: the row is backed at all       *)
(* times.  The check of "settled" there is made before the await, so the   *)
(* overtaken save of the command that created the match breaks it.         *)
(***************************************************************************)
RowAlwaysBacked == Backed

(***************************************************************************)
(* Who was eliminated by a committed event is not brought back by a row    *)
(* that a restart reads, and never shoots again: the payout and the        *)
(* payload are one transaction, and only the overtaken save, as above,     *)
(* can write an older one.                                                 *)
(***************************************************************************)
EliminatedStayOut ==
    late # "yes" /\ row # None => events \intersect Range(row.alive) = {}

(***************************************************************************)
(* As many bullets as players, less one: firing all of them leaves one     *)
(* survivor, so an elimination match is never out of bullets or chambers   *)
(* while it goes on, whoever was late, and after whichever restart.        *)
(* (The comment at the top of russian_roulette.py; the reloading in        *)
(* ensure_chambers_for_royale is not needed for it.)                       *)
(***************************************************************************)
GunOutlastsPlayers ==
    \A x \in {m, row} :
        x # None /\ Playing(x) /\ ~x.settled /\ ~IsDuel(x)
            => x.chambers >= x.bullets /\ x.bullets >= Len(x.alive) - 1

(***************************************************************************)
(* Why it holds.  What a match in memory, a row or the payload of a save   *)
(* always satisfies:                                                       *)
(***************************************************************************)
Match ==
    [mode : {"duel", "royale"}, view : {"invite", "lobby", "shoot", "choice"},
     parts : Seq(Players), alive : Seq(Players), turn : Players,
     stakes : [Players -> Nat], chambers : Nat, bullets : Nat,
     settled : BOOLEAN, joined : BOOLEAN, closed : BOOLEAN]

\* The view fits the mode, and a match that is played had its players join.
ViewInv(x) ==
    /\ x.view = "invite" => IsDuel(x)
    /\ x.view = "lobby" => ~IsDuel(x)
    /\ Playing(x) => x.joined

\* Nobody is listed twice, and who has the turn can act.
ListsInv(x) ==
    /\ IsInjective(x.parts) /\ IsInjective(x.alive)
    /\ Range(x.alive) \subseteq Range(x.parts)
    /\ IsDuel(x) => Len(x.parts) = 2 /\ x.turn \in Range(x.parts)
    /\ ~IsDuel(x) /\ ~x.joined => x.alive = x.parts
    /\ ~IsDuel(x) /\ x.joined /\ ~x.settled => x.turn \in Range(x.alive) /\ Len(x.alive) >= 2

GunInv(x) ==
    ~x.settled =>
        /\ x.chambers >= x.bullets
        /\ ~IsDuel(x) /\ x.joined => x.bullets >= Len(x.alive) - 1

MatchInv(x) == x \in Match /\ ViewInv(x) /\ ListsInv(x) /\ GunInv(x)

MatchesInv ==
    /\ m # None => MatchInv(m) /\ (m.joined => Playing(m))
    /\ row # None => MatchInv(row)
    /\ draft # None => MatchInv(draft)

\* Nothing happened before the first stake was paid.  The command that creates
\* the match never meets a recovery of it.
OrderInv ==
    /\ charged = Zero =>
          /\ m = None /\ row = None /\ events = {} /\ unsaved = 0 /\ at = "idle"
          /\ making = "none" /\ late = "no"
    /\ making # "none" => /\ m # None /\ at # "recover"
                          /\ at = "settle" => pend.from # "recover"
    /\ (making = "saving") = (draft # None)
    /\ late = "overtaken" => making = "saving"

\* What the handler that is at work relies on after its await.
HandlerInv ==
    /\ at = "save" => m # None /\ ~m.settled
    /\ at = "rematch" => m = None /\ row = None /\ events = {}
    /\ at = "leave" =>
          /\ m # None /\ ~m.settled
          /\ \E p \in Players :
                /\ pend.credits \in [Players -> Nat] /\ m.stakes[p] = 0
                /\ \A q \in Players \ {p} : pend.credits[q] = 0
    /\ at = "settle" =>
          /\ m # None /\ pend.credits \in [Players -> Nat]
          /\ pend.event \in Players \union {"refund"}
          /\ pend.final \in BOOLEAN /\ pend.final = m.settled
          /\ ~pend.final =>
                /\ pend.credits = Zero /\ ~IsDuel(m) /\ m.joined
                /\ pend.event \notin Range(m.alive)

\* Who was eliminated is neither in the row nor in the match, and nobody was
\* before it began.
Clean(x) ==
    x # None /\ ~x.settled =>
        /\ events \intersect Range(x.alive) = {}
        /\ ~x.joined => events = {}

OutInv == late # "yes" => Clean(row) /\ Clean(m) /\ (late = "no" => Clean(draft))

\* The row is never one of a settled match.
RowInv ==
    /\ row # None => ~row.settled
    /\ draft # None => ~draft.settled

(***************************************************************************)
(* The money: "Out" was paid in and not paid back, counting what a leaver  *)
(* got twice; "InHand" are the stakes that the code may still pay back     *)
(* from memory, "Held" those and the ones of a first save under way, and   *)
(* "Written" those that it may pay back from the row.                      *)
(***************************************************************************)
Out == Sum(charged) - Sum(paid) + twice

InHand(p) ==
    IF m = None THEN IF at = "rematch" /\ p = Host THEN Bet ELSE 0
    ELSE IF m.settled THEN 0
    ELSE m.stakes[p] + IF at = "leave" THEN pend.credits[p] ELSE 0

Drafted(p) == IF draft # None /\ late = "no" THEN draft.stakes[p] ELSE 0

Held(p) == IF InHand(p) > Drafted(p) THEN InHand(p) ELSE Drafted(p)

Written(p) == IF row # None THEN row.stakes[p] ELSE 0

Holdings == [p \in Players |-> Held(p)]

Cover == [p \in Players |-> IF Held(p) > Written(p) THEN Held(p) ELSE Written(p)]

Money ==
    /\ Sum(Holdings) <= Out
    /\ Sum(Cover) <= Out + unsaved
    /\ at = "settle" => Sum(pend.credits) <= Out

MoneyInv == late # "yes" => Money

RInv == TypeOK /\ MatchesInv /\ OrderInv /\ HandlerInv /\ OutInv /\ RowInv /\ MoneyInv
================================================================================
