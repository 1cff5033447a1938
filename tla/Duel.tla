--------------------------------- MODULE Duel ---------------------------------
(***************************************************************************)
(* The E-card duel (bot_modules/commands/duel.py): the invitation, the     *)
(* match and its settlement, on top of the promise of the escrow store     *)
(* (WagerPromise, which EscrowStore implements).                           *)
(*                                                                         *)
(* The callbacks of the invitation, and those of the match, run under a    *)
(* lock (serialized_action), so one handler runs at a time; "at" is the    *)
(* await it is in.  Between two awaits the recovery task may refund the    *)
(* session, or the bot may restart; any await may raise, which ends the    *)
(* handler where it is.  A lost reply is an await that raises although the *)
(* transaction was committed.                                              *)
(*                                                                         *)
(* Deadlines belong to EscrowStore: here the recovery task may refund an   *)
(* open session at any time.  A checkpoint only moves the deadline and     *)
(* saves a payload that is never read, so it is no step of its own.        *)
(***************************************************************************)
EXTENDS Integers

CONSTANTS
    Challenger, Opponent,
    Bet,            \* what each player stakes
    Citizens,       \* citizen cards in a hand; four in the code
    Initial,        \* the balances before the duel
    LostReplies     \* whether the reply to a commit may be lost

Players == {Challenger, Opponent}

ASSUME PlayersAssumption == Challenger # Opponent
ASSUME BetAssumption == Bet \in Nat \ {0}
ASSUME CitizensAssumption == Citizens \in Nat
ASSUME InitialAssumption == Initial \in [Players -> Nat]
ASSUME LostRepliesAssumption == LostReplies \in BOOLEAN

VARIABLES
    purse, pot, stage, due,     \* the store; see WagerPromise
    by,         \* settlement.reason: who decided the outcome
    charged,    \* log rows: what each player was debited for this duel
    invite,     \* the invitation: "none", "open" or "over" (resolved)
    inviteTimer,
    match,      \* the state of EDuelMatch
    playTimer,
    shown,      \* the last message about the money
    at,         \* the await of the running handler
    alive       \* the process that shows the views

Session == "duel"

Splits == {[p \in Players |-> IF p = Challenger THEN n ELSE 2 * Bet - n] : n \in 0 .. 2 * Bet}

Store == INSTANCE WagerPromise WITH
    Sids <- {Session}, Users <- Players, Stakes <- {Bet}, Payouts <- Splits

store == <<purse, pot, stage, due>>
view == <<invite, inviteTimer, match, playTimer, shown, alive>>
vars == <<store, by, charged, view, at>>

Other(p) == IF p = Challenger THEN Opponent ELSE Challenger

\* A hand: one special card (king or slave) and the citizens.
FullHand == [special |-> 1, citizen |-> Citizens]

NoMatch ==
    [state |-> "none", first |-> Challenger, game |-> 1, round |-> 1,
     hands |-> [p \in Players |-> FullHand], scores |-> [p \in Players |-> 0],
     picks |-> [p \in Players |-> "none"], pending |-> "none", settled |-> FALSE]

NotShown == [kind |-> "none"]

Init ==
    /\ Store!PInit
    /\ by = "nobody"
    /\ charged = [p \in Players |-> 0]
    /\ invite = "none" /\ inviteTimer = FALSE
    /\ match = NoMatch /\ playTimer = FALSE
    /\ shown = NotShown
    /\ at = "idle"
    /\ alive = TRUE

(***************************************************************************)
(* The calls to the store.  finish is two of them: prepare saves the       *)
(* outcome unless one is saved, apply pays it unless it is paid.  Debits   *)
(* of one session wait for its row before they open their snapshot: with   *)
(* one duel and no other command, the balance they see is the one of now.  *)
(***************************************************************************)
Debit(p) ==
    /\ Store!PutIn(Session, p, Bet)
    /\ purse[p] >= Bet
    /\ charged' = [charged EXCEPT ![p] = @ + Bet]
    /\ UNCHANGED by

Prepare(outcome, reason) ==
    \/ /\ Store!Decide(Session, outcome)
       /\ by' = reason
       /\ UNCHANGED charged
    \/ /\ stage[Session] # "open"
       /\ UNCHANGED <<store, by, charged>>

Apply ==
    \/ Store!PayOut(Session) /\ UNCHANGED <<by, charged>>
    \/ stage[Session] = "closed" /\ UNCHANGED <<store, by, charged>>

NoCall == UNCHANGED <<store, by, charged>>

(***************************************************************************)
(* duel_slash and EDuelInviteView.                                         *)
(***************************************************************************)
\* The message with the invitation may not be sent, or the reply be lost.
Challenge ==
    /\ alive /\ at = "idle"
    /\ invite = "none" /\ charged[Challenger] = 0
    /\ Debit(Challenger)
    /\ \/ invite' = "open" /\ inviteTimer' = TRUE
       \/ UNCHANGED <<invite, inviteTimer>>
    /\ UNCHANGED <<match, playTimer, shown, at, alive>>

\* A click may have waited for the lock since before the timeout.
InviteClick == alive /\ at = "idle" /\ invite = "open"

\* Each click is an interaction, and so an event, of its own.
Accept ==
    /\ InviteClick
    /\ Debit(Opponent)
    /\ \/ /\ invite' = "over"
          /\ at' = "accepted"
       \/ /\ LostReplies
          /\ UNCHANGED <<invite, at>>
    /\ UNCHANGED <<inviteTimer, match, playTimer, shown, alive>>

\* The edit that shows the match; when it raises, nobody ever sees the match.
ShowMatch ==
    /\ at = "accepted"
    /\ at' = "idle"
    /\ \/ /\ \E p \in Players : match' = [NoMatch EXCEPT !.state = "on", !.first = p]
          /\ playTimer' = TRUE
       \/ UNCHANGED <<match, playTimer>>
    /\ NoCall
    /\ UNCHANGED <<invite, inviteTimer, shown, alive>>

Decline ==
    /\ InviteClick
    /\ at' = "cancel"
    /\ NoCall /\ UNCHANGED view

InviteTimeout ==
    /\ InviteClick
    /\ inviteTimer
    /\ inviteTimer' = FALSE
    /\ at' = "cancel"
    /\ NoCall
    /\ UNCHANGED <<invite, match, playTimer, shown, alive>>

\* _refund_challenger: the first and the second transaction of finish.
CancelPrepare ==
    /\ at = "cancel"
    /\ Prepare(pot[Session], "view")
    /\ at' = "cancel2"
    /\ UNCHANGED view

CancelApply ==
    /\ at = "cancel2"
    /\ Apply
    /\ invite' = "over"
    /\ shown' = [kind |-> "cancelled", got |-> [p \in {Challenger} |-> Bet]]
    /\ at' = "idle"
    /\ UNCHANGED <<inviteTimer, match, playTimer, alive>>

(***************************************************************************)
(* EDuelMatch.  Game 1 starts with a random emperor, game 2 swaps roles.   *)
(***************************************************************************)
\* Mutant: the roles are not swapped for game 2.
EmperorMutant == match.first

Emperor == IF match.game = 1 THEN match.first ELSE Other(match.first)

\* Mutant: two special cards are a draw, like two citizens.
RoundMutantDraw(emperorPick, slavePick) ==
    IF emperorPick = slavePick THEN "draw" ELSE "emperor"

\* duel_resolve_round: the special card is the king or the slave.
Round(emperorPick, slavePick) ==
    IF emperorPick = "citizen" /\ slavePick = "citizen" THEN "draw"
    ELSE IF emperorPick = "special" /\ slavePick = "special" THEN "slave"
    ELSE "emperor"

MatchHandler == alive /\ at = "idle" /\ match.state = "on" /\ ~match.settled

\* record_pick under the lock, up to the await of edit_message.
RecordPick(p, card) ==
    /\ MatchHandler
    /\ match.pending = "none"
    /\ match.picks[p] = "none"
    /\ match.hands[p][card] > 0
    /\ match' = [match EXCEPT !.picks[p] = card]
    /\ at' = "edit"
    /\ NoCall
    /\ UNCHANGED <<invite, inviteTimer, playTimer, shown, alive>>

BothPicked == \A p \in Players : match.picks[p] # "none"

\* _process_round, when both have picked.
AfterRound ==
    LET e == Emperor
        s == Other(e)
        result == Round(match.picks[e], match.picks[s])
        played == [match EXCEPT
            !.hands = [p \in Players |->
                [match.hands[p] EXCEPT ![match.picks[p]] = @ - 1]],
            !.scores = [p \in Players |->
                match.scores[p] +
                    CASE result = "emperor" /\ p = e -> 1
                      [] result = "slave" /\ p = s   -> 3
                      [] OTHER                       -> 0]]
    IN  CASE result = "draw" ->
                [played EXCEPT !.picks = NoMatch.picks, !.round = @ + 1]
          [] result # "draw" /\ match.game = 1 ->
                [played EXCEPT !.picks = NoMatch.picks, !.game = 2, !.round = 1,
                               !.hands = NoMatch.hands]
          [] OTHER -> [played EXCEPT !.pending = "payout"]

\* The edit returns.  A handler that raised here has left its pick behind.
PickShown ==
    /\ at = "edit"
    /\ IF BothPicked
       THEN /\ match' = AfterRound
            /\ at' = IF match'.pending = "payout" THEN "settle" ELSE "idle"
       ELSE at' = "idle" /\ UNCHANGED match
    /\ NoCall
    /\ UNCHANGED <<invite, inviteTimer, playTimer, shown, alive>>

\* Mutant: the division comes before the product.
SplitMutant(s) ==
    LET total == s[Challenger] + s[Opponent]
    IN  [p \in Players |-> (s[p] \div total) * 2 * Bet]

\* The two credits of _settle_match.
Split(s) ==
    LET total == s[Challenger] + s[Opponent]
        first == IF total <= 0 THEN Bet ELSE (2 * Bet * s[Challenger]) \div total
    IN  [p \in Players |-> IF p = Challenger THEN first ELSE 2 * Bet - first]

\* finish_pending of a payout: finish, then the embed of the receipt.
SettlePrepare ==
    /\ at = "settle"
    /\ Prepare(Split(match.scores), "result")
    /\ at' = "settle2"
    /\ UNCHANGED view

\* Mutant: the embed shows what the scores say, not the receipt.
ReceiptMutant ==
    [kind |-> IF by = "recovery" THEN "interrupted" ELSE "final", got |-> Split(match.scores)]

Receipt ==
    [kind |-> IF by = "recovery" THEN "interrupted" ELSE "final", got |-> due[Session]]

SettleApply ==
    /\ at = "settle2"
    /\ Apply
    /\ match' = [match EXCEPT !.settled = TRUE]
    /\ shown' = Receipt
    /\ at' = "idle"
    /\ UNCHANGED <<invite, inviteTimer, playTimer, alive>>

\* finish_pending of a refund: the message names the bet.
RefundPrepare ==
    /\ at = "refund"
    /\ Prepare(pot[Session], "view")
    /\ at' = "refund2"
    /\ UNCHANGED view

RefundApply ==
    /\ at = "refund2"
    /\ Apply
    /\ match' = [match EXCEPT !.settled = TRUE]
    /\ shown' = [kind |-> "refund", got |-> [p \in Players |-> Bet]]
    /\ at' = "idle"
    /\ UNCHANGED <<invite, inviteTimer, playTimer, alive>>

\* A click on a match with a pending outcome tries to finish it again.
RetryPending ==
    /\ MatchHandler
    /\ match.pending # "none"
    /\ at' = IF match.pending = "payout" THEN "settle" ELSE "refund"
    /\ NoCall /\ UNCHANGED view

\* Mutant: the last picks of an unplayed round count as the end of the game.
TimeoutOutcomeMutantPicks ==
    IF match.pending = "payout" \/ (match.game = 2 /\ BothPicked)
    THEN "payout" ELSE "refund"

\* Mutant: a timeout always refunds.
TimeoutOutcomeMutant == "refund"

TimeoutOutcome == IF match.pending = "payout" THEN "payout" ELSE "refund"

HandleTimeout ==
    /\ MatchHandler
    /\ playTimer
    /\ playTimer' = FALSE
    /\ match' = [match EXCEPT !.pending = TimeoutOutcome]
    /\ at' = IF match'.pending = "payout" THEN "settle" ELSE "refund"
    /\ NoCall
    /\ UNCHANGED <<invite, inviteTimer, shown, alive>>

(***************************************************************************)
(* An await that raises: Discord or the database refused.  The reply to    *)
(* either transaction of finish may also be lost after its commit.         *)
(***************************************************************************)
AwaitRaises ==
    /\ at # "idle" /\ at # "accepted"
    /\ at' = "idle"
    /\ UNCHANGED view
    /\ \/ NoCall
       \/ /\ LostReplies
          /\ \/ at \in {"cancel", "refund"} /\ Prepare(pot[Session], "view")
             \/ at = "settle" /\ Prepare(Split(match.scores), "result")
             \/ at \in {"cancel2", "refund2", "settle2"} /\ Apply

(***************************************************************************)
(* The recovery task, and a restart of the bot, which loses every view.    *)
(***************************************************************************)
RecoverDecide ==
    /\ charged[Challenger] > 0
    /\ Store!Decide(Session, pot[Session])
    /\ by' = "recovery"
    /\ UNCHANGED <<charged, view, at>>

RecoverPay ==
    /\ Store!PayOut(Session)
    /\ UNCHANGED <<by, charged, view, at>>

Restart ==
    /\ alive /\ alive' = FALSE
    /\ at' = "idle"
    /\ NoCall
    /\ UNCHANGED <<invite, inviteTimer, match, playTimer, shown>>

Next ==
    \/ Challenge
    \/ Accept \/ ShowMatch \/ Decline \/ InviteTimeout \/ CancelPrepare \/ CancelApply
    \/ \E p \in Players, card \in {"special", "citizen"} : RecordPick(p, card)
    \/ PickShown \/ SettlePrepare \/ SettleApply \/ RefundPrepare \/ RefundApply
    \/ RetryPending \/ HandleTimeout \/ AwaitRaises
    \/ RecoverDecide \/ RecoverPay \/ Restart

Spec == Init /\ [][Next]_vars

-----------------------------------------------------------------------------
MoneyTypes ==
    /\ purse \in [Players -> Nat]
    /\ pot \in [{Session} -> [Players -> Nat]]
    /\ stage \in [{Session} -> {"open", "decided", "closed"}]
    /\ due \in [{Session} -> [Players -> Nat]]
    /\ by \in {"nobody", "view", "result", "recovery"}
    /\ charged \in [Players -> Nat]

Match ==
    [state : {"none", "on"}, first : Players, game : 1 .. 2, round : 1 .. Citizens + 1,
     hands : [Players -> [special : 0 .. 1, citizen : 0 .. Citizens]],
     scores : [Players -> {0, 1, 3, 4}],
     picks : [Players -> {"none", "special", "citizen"}],
     pending : {"none", "payout", "refund"}, settled : BOOLEAN]

\* The types of the money, of the two views and of the match.
TypeOK ==
    /\ MoneyTypes
    /\ invite \in {"none", "open", "over"}
    /\ {inviteTimer, playTimer, alive} \subseteq BOOLEAN
    /\ match \in Match
    /\ shown.kind \in {"none", "cancelled", "final", "interrupted", "refund"}
    /\ at \in {"idle", "accepted", "cancel", "cancel2", "edit", "settle", "settle2",
               "refund", "refund2"}

Sum(f) == f[Challenger] + f[Opponent]

Held == IF stage[Session] = "decided" THEN Sum(due[Session]) ELSE Sum(pot[Session])

\* Coins only move between the two players: what they have and what the
\* session holds for them is what they had, whoever decides the duel and
\* wherever a handler was cut off (_settle_match, _refund_both).  The one
\* exception is a second charge for accepting, after a lost reply: a result
\* shares out two stakes, and the third is gone.
CoinsAccountedFor ==
    Sum(purse) + Held + (IF by = "result" THEN Sum(charged) - 2 * Bet ELSE 0) = Sum(Initial)

\* What the last message says the players got is what the store paid them,
\* and the scores are shown as the result only if the result was paid
\* (finish_pending, _build_final_embed, the edits of decline and on_timeout).
ShownIsPaid ==
    shown.kind # "none" =>
        /\ stage[Session] = "closed"
        /\ shown.kind = "final" => by = "result"
        /\ charged[Opponent] <= Bet =>
               \A p \in DOMAIN shown.got : shown.got[p] = due[Session][p]

\* Two games with swapped roles end even or with all points on one side, so
\* the rounding of the first share in _settle_match never costs a coin.
SplitIsAllOrEven ==
    by = "result" => due[Session][Challenger] \in {0, Bet, 2 * Bet}

\* A game is worth one point or three, so two games an even number.
BothGamesDecided == Sum(match.scores) \in {2, 4, 6}

\* The pot is shared out only by the points of two games that were played to
\* the end: a round that was cut off between its picks and its result decides
\* nothing, whatever timeout, retry or old selection comes after it
\* (record_pick, handle_timeout, finish_pending).
ResultNeedsBothGames == by = "result" => BothGamesDecided

\* Once the second game is decided, no callback refunds the duel: neither the
\* timeout that comes before the result is saved nor a retry after it failed
\* (handle_timeout, finish_pending).
TimeoutKeepsResult == by = "view" => ~BothGamesDecided

\* A settlement that failed after the second game is not turned into a refund:
\* MAINTENANCE.md says so of a timeout.  finish_pending and handle_timeout keep
\* to it, the deadline of the session does not.
DecidedDuelIsPaid ==
    match.pending = "payout" /\ ~match.settled /\ at = "idle" => by \in {"nobody", "result"}

\* Both players have a card to pick until the game is decided: a game takes
\* at most as many rounds as there are cards in a hand (_process_round).
HandsLastLongEnough ==
    match.state = "on" /\ match.pending = "none" =>
        \A p \in Players : /\ match.hands[p].special = 1
                           /\ match.hands[p].citizen = Citizens + 1 - match.round

(***************************************************************************)
(* The inductive invariant (DuelProofs).                                   *)
(***************************************************************************)
\* What was charged is in the pot until it is paid out; a refund is what was
\* charged, a result shares out two stakes.
MoneyInv ==
    /\ by = "nobody" <=> stage[Session] = "open"
    /\ charged[Challenger] \in {0, Bet}
    /\ Sum(purse) = Sum(Initial) - Sum(charged)
                      + (IF stage[Session] = "closed" THEN Sum(due[Session]) ELSE 0)
    /\ pot[Session] = IF stage[Session] = "closed" THEN [p \in Players |-> 0] ELSE charged
    /\ by \in {"view", "recovery"} => due[Session] = charged
    /\ by = "result" => SplitIsAllOrEven /\ Sum(due[Session]) = 2 * Bet

\* The points after the first game, and after both.
ScoresInv ==
    LET mine == match.scores[match.first]
        theirs == match.scores[Other(match.first)]
    IN  IF match.pending = "payout"
        THEN <<mine, theirs>> \in {<<1, 1>>, <<3, 3>>, <<4, 0>>, <<0, 4>>}
        ELSE IF match.game = 2 THEN <<mine, theirs>> \in {<<1, 0>>, <<0, 3>>}
        ELSE mine = 0 /\ theirs = 0

\* A card that is picked is still in the hand.
PicksInv ==
    match.pending = "none" =>
        \A p \in Players :
            match.picks[p] # "none" => match.hands[p][match.picks[p]] > 0

\* Only a match that was shown and accepted is played, only its second game
\* brings a result, and a view refunds only what has none.
ViewsInv ==
    /\ invite # "none" => charged[Challenger] = Bet
    /\ match.state = "none" => match.pending = "none" /\ match.game = 1
    /\ match.state = "on" => invite = "over"
    /\ match.state = "on" \/ at = "accepted" => charged[Opponent] >= Bet
    /\ at = "accepted" =>
          invite = "over" /\ match.state = "none" /\ by \in {"nobody", "recovery"}
    /\ at \in {"cancel", "cancel2"} => invite = "open"
    /\ at \in {"edit", "settle", "settle2", "refund", "refund2"} => match.state = "on"
    /\ at = "edit" => match.pending = "none"
    /\ at \in {"settle", "settle2"} => match.pending = "payout"
    /\ at \in {"refund", "refund2"} => match.pending = "refund"
    /\ at \in {"cancel2", "settle2", "refund2"} => stage[Session] # "open"
    /\ by = "result" => match.pending = "payout"
    /\ by = "view" => match.state = "none" \/ match.pending = "refund"

DInv ==
    /\ TypeOK /\ MoneyInv /\ ScoresInv /\ PicksInv /\ ViewsInv
    /\ HandsLastLongEnough /\ ShownIsPaid
===============================================================================
