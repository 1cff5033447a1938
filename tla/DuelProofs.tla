------------------------------- MODULE DuelProofs -------------------------------
(***************************************************************************)
(* What TLAPS proves of Duel, for every bet, number of citizens and        *)
(* balance, with or without lost replies: DInv is inductive, and the       *)
(* safety invariants of the duel follow from it.                           *)
(***************************************************************************)
EXTENDS Duel, TLAPS

USE PlayersAssumption, BetAssumption, CitizensAssumption, LostRepliesAssumption

(***************************************************************************)
(* The store.                                                              *)
(***************************************************************************)
\* What a view may rely on, whatever happens to the session.
StoreStep ==
    /\ MoneyTypes' /\ MoneyInv'
    /\ \A p \in Players : charged'[p] >= charged[p]
    /\ stage[Session] # "open" =>
          /\ stage'[Session] # "open"
          /\ by' = by /\ due' = due /\ charged' = charged
    /\ stage[Session] = "closed" => stage'[Session] = "closed"

\* A step that leaves the session alone.
LEMMA NoCallIsStep ==
    ASSUME MoneyTypes, MoneyInv, NoCall
    PROVE StoreStep /\ stage' = stage /\ by' = by /\ due' = due /\ charged' = charged
<1>1. /\ purse' = purse /\ pot' = pot /\ stage' = stage /\ due' = due
      /\ by' = by /\ charged' = charged
    BY DEF NoCall, store
<1>2. MoneyTypes'
    BY <1>1 DEF MoneyTypes
<1>3. MoneyInv'
    BY <1>1 DEF MoneyInv, SplitIsAllOrEven, Sum
<1>4. \A p \in Players : charged[p] \in Nat
    BY DEF MoneyTypes
<1>5. QED
    BY <1>1, <1>2, <1>3, <1>4 DEF StoreStep

\* A debit is for an open session.
LEMMA DebitIsStep ==
    ASSUME MoneyTypes, MoneyInv, NEW p \in Players, p = Challenger => charged[p] = 0,
           Debit(p)
    PROVE /\ StoreStep
          /\ stage[Session] = "open" /\ stage' = stage /\ by' = by /\ by = "nobody"
          /\ charged' = [charged EXCEPT ![p] = @ + Bet]
<1>1. /\ stage[Session] = "open" /\ stage' = stage /\ due' = due /\ by' = by
      /\ purse[p] >= Bet /\ purse' = [purse EXCEPT ![p] = @ - Bet]
      /\ pot' = [pot EXCEPT ![Session][p] = @ + Bet]
      /\ charged' = [charged EXCEPT ![p] = @ + Bet]
    BY DEF Debit, Store!PutIn
<1>2. by = "nobody" /\ pot[Session] = charged
    BY <1>1 DEF MoneyInv
<1>3. /\ purse \in [Players -> Nat] /\ charged \in [Players -> Nat]
      /\ pot \in [{Session} -> [Players -> Nat]]
    BY DEF MoneyTypes
<1>4. /\ purse' \in [Players -> Nat] /\ charged' \in [Players -> Nat]
      /\ \A q \in Players : /\ purse'[q] = IF q = p THEN purse[q] - Bet ELSE purse[q]
                            /\ charged'[q] = IF q = p THEN charged[q] + Bet ELSE charged[q]
    BY <1>1, <1>3
<1>5. pot' \in [{Session} -> [Players -> Nat]] /\ pot'[Session] = charged'
  <2>1. pot'[Session] = [pot[Session] EXCEPT ![p] = @ + Bet]
      BY <1>1, <1>3
  <2>2. QED
      BY <1>1, <1>2, <1>3, <1>4, <2>1
<1>6. MoneyTypes'
    BY <1>1, <1>4, <1>5 DEF MoneyTypes
<1>7. Sum(purse') = Sum(Initial) - Sum(charged')
  <2>1. Sum(purse) = Sum(Initial) - Sum(charged)
      BY <1>1, <1>3, InitialAssumption DEF MoneyInv, Sum, Players
  <2>2. \A q \in Players : Initial[q] \in Nat
      BY InitialAssumption
  <2>3. Sum(purse') = Sum(purse) - Bet /\ Sum(charged') = Sum(charged) + Bet
      BY <1>3, <1>4 DEF Sum, Players
  <2>4. Sum(purse) \in Int /\ Sum(charged) \in Int /\ Sum(Initial) \in Int
      BY <1>3, <2>2 DEF Sum, Players
  <2>5. QED
      BY <2>1, <2>3, <2>4
<1>8. charged'[Challenger] \in {0, Bet}
    BY <1>3, <1>4 DEF MoneyInv, Players
<1>9. MoneyInv'
  <2>1. Sum(purse') = Sum(Initial) - Sum(charged') + 0
      BY <1>4, <1>7, InitialAssumption DEF Sum, Players
  <2>2. stage'[Session] # "closed" /\ stage'[Session] = "open" /\ by' = "nobody"
      BY <1>1, <1>2
  <2>3. QED
      BY <1>5, <1>8, <2>1, <2>2 DEF MoneyInv, Sum
<1>10. QED
    BY <1>1, <1>2, <1>3, <1>4, <1>6, <1>9 DEF StoreStep

\* An open session is decided, by a result or by a refund of its pot.
LEMMA DecideIsStep ==
    ASSUME MoneyTypes, MoneyInv, NEW outcome \in [Players -> Nat],
           NEW reason \in {"view", "result", "recovery"},
           Store!Decide(Session, outcome), by' = reason, UNCHANGED charged,
           reason # "result" => outcome = pot[Session],
           reason = "result" =>
               outcome[Challenger] \in {0, Bet, 2 * Bet} /\ Sum(outcome) = 2 * Bet
    PROVE StoreStep /\ stage'[Session] = "decided"
<1>1. /\ stage[Session] = "open" /\ stage' = [stage EXCEPT ![Session] = "decided"]
      /\ due' = [due EXCEPT ![Session] = outcome] /\ purse' = purse /\ pot' = pot
      /\ charged' = charged
    BY DEF Store!Decide
<1>2. stage'[Session] = "decided" /\ due'[Session] = outcome
    BY <1>1 DEF MoneyTypes
<1>3. MoneyTypes'
    BY <1>1 DEF MoneyTypes
<1>4. MoneyInv'
  <2>1. Sum(purse') = Sum(Initial) - Sum(charged') /\ pot'[Session] = charged'
      BY <1>1, InitialAssumption DEF MoneyTypes, MoneyInv, Sum, Players
  <2>2. charged'[Challenger] \in {0, Bet}
      BY <1>1 DEF MoneyInv
  <2>3. by' = "result" => /\ due'[Session][Challenger] \in {0, Bet, 2 * Bet}
                          /\ Sum(due'[Session]) = 2 * Bet
      BY <1>2
  <2>4. by' \in {"view", "recovery"} => due'[Session] = charged'
      BY <1>1, <1>2, <2>1
  <2>5. by' # "nobody" /\ stage'[Session] = "decided"
      BY <1>2
  <2>6. Sum(purse') = Sum(Initial) - Sum(charged') + 0
      BY <1>1, <2>1, InitialAssumption DEF MoneyTypes, Sum, Players
  <2>7. QED
      BY <2>1, <2>2, <2>3, <2>4, <2>5, <2>6 DEF MoneyInv, SplitIsAllOrEven, Sum
<1>5. \A p \in Players : charged[p] \in Nat
    BY DEF MoneyTypes
<1>6. QED
    BY <1>1, <1>2, <1>3, <1>4, <1>5 DEF StoreStep

\* The first transaction of finish.
LEMMA PrepareIsStep ==
    ASSUME MoneyTypes, MoneyInv, NEW outcome \in [Players -> Nat],
           NEW reason \in {"view", "result"}, Prepare(outcome, reason),
           reason # "result" => outcome = pot[Session],
           reason = "result" =>
               outcome[Challenger] \in {0, Bet, 2 * Bet} /\ Sum(outcome) = 2 * Bet
    PROVE StoreStep /\ stage'[Session] # "open" /\ by' \in {by, reason}
<1>1. CASE /\ Store!Decide(Session, outcome) /\ by' = reason /\ UNCHANGED charged
    BY <1>1, DecideIsStep
<1>2. CASE stage[Session] # "open" /\ UNCHANGED <<store, by, charged>>
    BY <1>2, NoCallIsStep DEF NoCall
<1>3. QED
    BY <1>1, <1>2 DEF Prepare

\* A decided session is paid.
LEMMA PayOutIsStep ==
    ASSUME MoneyTypes, MoneyInv, Store!PayOut(Session), UNCHANGED <<by, charged>>
    PROVE StoreStep /\ stage'[Session] = "closed" /\ due' = due
<1>1. /\ stage[Session] = "decided" /\ stage' = [stage EXCEPT ![Session] = "closed"]
      /\ purse' = [u \in Players |-> purse[u] + due[Session][u]]
      /\ pot' = [pot EXCEPT ![Session] = [u \in Players |-> 0]]
      /\ due' = due /\ by' = by /\ charged' = charged
    BY DEF Store!PayOut, Store!Nothing
<1>2. /\ purse \in [Players -> Nat] /\ charged \in [Players -> Nat]
      /\ due[Session] \in [Players -> Nat]
    BY DEF MoneyTypes
<1>3. /\ stage'[Session] = "closed" /\ pot'[Session] = [u \in Players |-> 0]
      /\ purse' \in [Players -> Nat]
      /\ \A u \in Players : purse'[u] = purse[u] + due[Session][u]
    BY <1>1, <1>2 DEF MoneyTypes
<1>4. MoneyTypes'
    BY <1>1, <1>3 DEF MoneyTypes
<1>5. Sum(purse') = Sum(Initial) - Sum(charged) + Sum(due[Session])
  <2>1. Sum(purse) = Sum(Initial) - Sum(charged)
      BY <1>1, InitialAssumption, <1>2 DEF MoneyInv, Sum, Players
  <2>2. Sum(purse') = Sum(purse) + Sum(due[Session])
      BY <1>2, <1>3 DEF Sum, Players
  <2>3. QED
      BY <2>1, <2>2
<1>6. MoneyInv'
  <2>1. /\ by # "nobody" /\ charged[Challenger] \in {0, Bet}
        /\ by \in {"view", "recovery"} => due[Session] = charged
        /\ by = "result" => SplitIsAllOrEven /\ Sum(due[Session]) = 2 * Bet
      BY <1>1 DEF MoneyInv
  <2>2. QED
      BY <1>1, <1>3, <1>5, <2>1 DEF MoneyInv, SplitIsAllOrEven, Sum
<1>7. QED
    BY <1>1, <1>2, <1>3, <1>4, <1>6 DEF StoreStep

\* The second transaction of finish.
LEMMA ApplyIsStep ==
    ASSUME MoneyTypes, MoneyInv, Apply
    PROVE StoreStep /\ stage'[Session] = "closed" /\ by' = by /\ due' = due
<1>1. CASE Store!PayOut(Session) /\ UNCHANGED <<by, charged>>
    BY <1>1, PayOutIsStep
<1>2. CASE stage[Session] = "closed" /\ UNCHANGED <<store, by, charged>>
    BY <1>2, NoCallIsStep DEF NoCall
<1>3. QED
    BY <1>1, <1>2 DEF Apply

\* What a step of the store leaves true of the stakes and of the decision.
LEMMA StoreKeeps ==
    ASSUME MoneyTypes, MoneyInv, StoreStep
    PROVE /\ charged[Challenger] = Bet => charged'[Challenger] = Bet
          /\ charged[Opponent] >= Bet => charged'[Opponent] >= Bet
          /\ by # "nobody" => by' = by /\ stage[Session] # "open"
          /\ stage[Session] # "open" => stage'[Session] # "open" /\ by' = by /\ by # "nobody"
<1>1. charged \in [Players -> Nat] /\ charged' \in [Players -> Nat]
    BY DEF StoreStep, MoneyTypes
<1>2. Challenger \in Players /\ Opponent \in Players
    BY DEF Players
<1>3. charged'[Challenger] >= charged[Challenger] /\ charged'[Opponent] >= charged[Opponent]
    BY <1>2 DEF StoreStep
<1>4. charged[Challenger] = Bet => charged'[Challenger] = Bet
    BY <1>1, <1>2, <1>3 DEF StoreStep, MoneyInv
<1>5. charged[Opponent] >= Bet => charged'[Opponent] >= Bet
    BY <1>1, <1>2, <1>3
<1>6. QED
    BY <1>4, <1>5 DEF StoreStep, MoneyInv

(***************************************************************************)
(* The steps that leave the match and the last message alone.              *)
(***************************************************************************)
LEMMA ShownStays ==
    ASSUME ShownIsPaid, StoreStep, shown' = shown
    PROVE ShownIsPaid'
  BY DEF ShownIsPaid, StoreStep

\* A step that leaves the match alone leaves its invariants alone.
LEMMA MatchStays ==
    ASSUME ScoresInv, PicksInv, HandsLastLongEnough, match' = match
    PROVE ScoresInv' /\ PicksInv' /\ HandsLastLongEnough'
  BY DEF ScoresInv, PicksInv, HandsLastLongEnough, Other

\* A step of the store beside a match and a message that stay.
LEMMA ViewStep ==
    ASSUME DInv, StoreStep, match' = match, shown' = shown, TypeOK', ViewsInv'
    PROVE DInv'
  BY ShownStays, MatchStays DEF DInv, StoreStep

\* The first debit: there is no invitation before it.
LEMMA ChallengeKeeps ==
    ASSUME DInv, Challenge
    PROVE DInv'
<1>1. MoneyTypes /\ MoneyInv /\ Challenger \in Players
    BY DEF DInv, TypeOK, Players
<1>2. StoreStep /\ stage' = stage /\ by' = by /\ charged' = [charged EXCEPT ![Challenger] = @ + Bet]
    BY <1>1, DebitIsStep DEF Challenge
<1>3. charged'[Challenger] = Bet
    BY <1>1, <1>2 DEF Challenge, MoneyTypes
<1>4. TypeOK'
    BY <1>2 DEF StoreStep, DInv, TypeOK, Challenge
<1>5. ViewsInv'
    BY <1>1, <1>2, <1>3, StoreKeeps DEF DInv, ViewsInv, Challenge
<1>6. QED
    BY <1>2, <1>4, <1>5, ViewStep DEF Challenge

\* The second debit closes the invitation, or its reply is lost.
LEMMA AcceptKeeps ==
    ASSUME DInv, Accept
    PROVE DInv'
<1>1. MoneyTypes /\ MoneyInv /\ Opponent \in Players
    BY DEF DInv, TypeOK, Players
<1>2. /\ StoreStep /\ stage' = stage /\ by' = by /\ by = "nobody"
      /\ charged' = [charged EXCEPT ![Opponent] = @ + Bet]
    BY <1>1, DebitIsStep DEF Accept
<1>3. charged'[Opponent] >= Bet
    BY <1>1, <1>2 DEF MoneyTypes
<1>4. TypeOK'
    BY <1>2 DEF StoreStep, DInv, TypeOK, Accept, InviteClick
<1>5. match.state = "none"
    BY DEF DInv, ViewsInv, TypeOK, Match, Accept, InviteClick
<1>6. ViewsInv'
    BY <1>1, <1>2, <1>3, <1>5, StoreKeeps DEF DInv, ViewsInv, Accept, InviteClick
<1>7. QED
    BY <1>2, <1>4, <1>6, ViewStep DEF Accept

\* The steps of the views that do not call the store.
LEMMA QuietKeeps ==
    ASSUME DInv, Decline \/ InviteTimeout \/ RetryPending \/ Restart \/ UNCHANGED vars
    PROVE DInv'
<1>1. MoneyTypes /\ MoneyInv
    BY DEF DInv, TypeOK
<1>2. NoCall /\ match' = match /\ shown' = shown /\ invite' = invite
    BY DEF Decline, InviteTimeout, RetryPending, Restart, view, vars, NoCall
<1>3. StoreStep /\ stage' = stage /\ by' = by /\ charged' = charged
    BY <1>1, <1>2, NoCallIsStep
<1>4. /\ at' \in {at, "idle", "cancel", "settle", "refund"}
      /\ at' # at /\ at' # "idle" => alive /\ at = "idle"
      /\ at' # at /\ at' = "cancel" => invite = "open"
      /\ at' # at /\ at' = "settle" => match.state = "on" /\ match.pending = "payout"
      /\ at' # at /\ at' = "refund" => match.state = "on" /\ match.pending = "refund"
  <2>1. match.pending \in {"none", "payout", "refund"}
      BY DEF DInv, TypeOK, Match
  <2>2. CASE Decline \/ InviteTimeout
      BY <2>2 DEF Decline, InviteTimeout, InviteClick
  <2>3. CASE RetryPending
      BY <2>1, <2>3 DEF RetryPending, MatchHandler
  <2>4. CASE Restart \/ UNCHANGED vars
      BY <2>4 DEF Restart, vars
  <2>5. QED
      BY <2>2, <2>3, <2>4
<1>5. {inviteTimer', playTimer', alive'} \subseteq BOOLEAN
    BY DEF DInv, TypeOK, Decline, InviteTimeout, RetryPending, Restart, vars, view
<1>6. TypeOK'
    BY <1>2, <1>3, <1>4, <1>5 DEF StoreStep, DInv, TypeOK
<1>7. ViewsInv'
    BY <1>2, <1>3, <1>4 DEF DInv, ViewsInv
<1>8. QED
    BY <1>2, <1>3, <1>6, <1>7, ViewStep

\* The credits of a decided match: all of the pot to one player, or half of it to each.
LEMMA SplitIsExact ==
    ASSUME DInv, match.pending = "payout"
    PROVE LET s == Split(match.scores)
          IN  /\ s \in [Players -> Nat]
              /\ s[Challenger] \in {0, Bet, 2 * Bet}
              /\ Sum(s) = 2 * Bet
<1> DEFINE c == match.scores[Challenger]
           o == match.scores[Opponent]
           first == IF c + o <= 0 THEN Bet ELSE (2 * Bet * c) \div (c + o)
<1>1. match.first \in Players
    BY DEF DInv, TypeOK, Match
<1>2. <<c, o>> \in {<<1, 1>>, <<3, 3>>, <<4, 0>>, <<0, 4>>}
    BY <1>1 DEF DInv, ScoresInv, Other, Players
<1>3. first \in {0, Bet, 2 * Bet}
  <2>1. CASE c = 1 /\ o = 1
    <3>1. first = (2 * Bet * 1) \div 2
        BY <2>1
    <3>2. QED
        BY <3>1
  <2>2. CASE c = 3 /\ o = 3
    <3>1. first = (2 * Bet * 3) \div 6
        BY <2>2
    <3>2. QED
        BY <3>1
  <2>3. CASE c = 4 /\ o = 0
    <3>1. first = (2 * Bet * 4) \div 4
        BY <2>3
    <3>2. QED
        BY <3>1
  <2>4. CASE c = 0 /\ o = 4
    <3>1. first = (2 * Bet * 0) \div 4
        BY <2>4
    <3>2. QED
        BY <3>1
  <2>5. QED
      BY <1>2, <2>1, <2>2, <2>3, <2>4
<1>4. Split(match.scores) = [p \in Players |-> IF p = Challenger THEN first ELSE 2 * Bet - first]
    BY DEF Split
<1> HIDE DEF first
<1>5. QED
    BY <1>3, <1>4 DEF Sum, Players

\* A refund gives natural numbers.
LEMMA PotIsOutcome ==
    ASSUME DInv
    PROVE pot[Session] \in [Players -> Nat]
  BY DEF DInv, TypeOK, MoneyTypes

\* The first transaction of finish, for a refund or a result.
LEMMA PrepareKeeps ==
    ASSUME DInv, CancelPrepare \/ SettlePrepare \/ RefundPrepare
    PROVE DInv'
<1>1. MoneyTypes /\ MoneyInv
    BY DEF DInv, TypeOK
<1>2. CASE CancelPrepare \/ RefundPrepare
  <2>1. StoreStep /\ stage'[Session] # "open" /\ by' \in {by, "view"}
      BY <1>1, <1>2, PotIsOutcome, PrepareIsStep DEF CancelPrepare, RefundPrepare
  <2>2. /\ view' = view
        /\ \/ at = "cancel" /\ at' = "cancel2"
           \/ at = "refund" /\ at' = "refund2"
      BY <1>2 DEF CancelPrepare, RefundPrepare
  <2>3. match.state = "none" \/ match.pending = "refund"
      BY <2>2 DEF DInv, ViewsInv, TypeOK, Match
  <2>4. TypeOK'
      BY <2>1, <2>2 DEF StoreStep, DInv, TypeOK, view
  <2>5. ViewsInv'
      BY <1>1, <2>1, <2>2, <2>3, StoreKeeps DEF DInv, ViewsInv, view
  <2>6. QED
      BY <2>1, <2>2, <2>4, <2>5, ViewStep DEF view
<1>3. CASE SettlePrepare
  <2>1. match.pending = "payout" /\ view' = view /\ at = "settle" /\ at' = "settle2"
      BY <1>3 DEF DInv, ViewsInv, SettlePrepare
  <2>2. StoreStep /\ stage'[Session] # "open" /\ by' \in {by, "result"}
      BY <1>1, <1>3, <2>1, SplitIsExact, PrepareIsStep DEF SettlePrepare
  <2>3. TypeOK'
      BY <2>1, <2>2 DEF StoreStep, DInv, TypeOK, view
  <2>4. ViewsInv'
      BY <1>1, <2>1, <2>2, StoreKeeps DEF DInv, ViewsInv, view
  <2>5. QED
      BY <2>1, <2>2, <2>3, <2>4, ViewStep DEF view
<1>4. QED
    BY <1>2, <1>3

\* The recovery task decides and pays beside any view.
LEMMA RecoveryKeeps ==
    ASSUME DInv, RecoverDecide \/ RecoverPay
    PROVE DInv'
<1>1. MoneyTypes /\ MoneyInv
    BY DEF DInv, TypeOK
<1>2. StoreStep /\ by' \in {by, "recovery"}
    BY <1>1, PotIsOutcome, DecideIsStep, PayOutIsStep DEF RecoverDecide, RecoverPay
<1>3. view' = view /\ at' = at
    BY DEF RecoverDecide, RecoverPay
<1>4. TypeOK'
    BY <1>2, <1>3 DEF StoreStep, DInv, TypeOK, view
<1>5. ViewsInv'
    BY <1>1, <1>2, <1>3, StoreKeeps DEF DInv, ViewsInv, view
<1>6. QED
    BY <1>2, <1>3, <1>4, <1>5, ViewStep DEF view

\* An await that raises leaves the views alone, whatever was committed.
LEMMA RaiseKeeps ==
    ASSUME DInv, AwaitRaises
    PROVE DInv'
<1>1. MoneyTypes /\ MoneyInv
    BY DEF DInv, TypeOK
<1>2. /\ view' = view /\ at' = "idle" /\ at # "accepted"
    BY DEF AwaitRaises
<1>3. match.pending \in {"none", "payout", "refund"} /\ match.state \in {"none", "on"}
    BY DEF DInv, TypeOK, Match
<1>4. /\ StoreStep
      /\ \/ by' = by
         \/ by' = "view" /\ (match.state = "none" \/ match.pending = "refund")
         \/ by' = "result" /\ match.pending = "payout"
  <2>1. CASE NoCall
      BY <1>1, <2>1, NoCallIsStep
  <2>2. CASE at \in {"cancel", "refund"} /\ Prepare(pot[Session], "view")
    <3>1. match.state = "none" \/ match.pending = "refund"
        BY <1>3, <2>2 DEF DInv, ViewsInv
    <3>2. QED
        BY <1>1, <2>2, <3>1, PotIsOutcome, PrepareIsStep
  <2>3. CASE at = "settle" /\ Prepare(Split(match.scores), "result")
    <3>1. match.pending = "payout"
        BY <2>3 DEF DInv, ViewsInv
    <3>2. QED
        BY <1>1, <2>3, <3>1, SplitIsExact, PrepareIsStep
  <2>4. CASE Apply
      BY <1>1, <2>4, ApplyIsStep
  <2>5. QED
      BY <2>1, <2>2, <2>3, <2>4 DEF AwaitRaises
<1>5. TypeOK'
    BY <1>2, <1>4 DEF StoreStep, DInv, TypeOK, view
<1>6. ViewsInv'
    BY <1>1, <1>2, <1>4, StoreKeeps DEF DInv, ViewsInv, view
<1>7. QED
    BY <1>2, <1>4, <1>5, <1>6, ViewStep DEF view

(***************************************************************************)
(* The steps that play and close the match.                                *)
(***************************************************************************)
\* A match that was decided or settled keeps its scores; its hands no longer matter.
LEMMA MatchShown ==
    ASSUME DInv, ShowMatch
    PROVE DInv'
<1>1. MoneyTypes /\ MoneyInv /\ NoCall /\ at = "accepted" /\ at' = "idle"
    BY DEF DInv, TypeOK, ShowMatch
<1>2. StoreStep /\ stage' = stage /\ by' = by /\ charged' = charged
    BY <1>1, NoCallIsStep
<1>3. CASE UNCHANGED <<match, playTimer>>
  <2>1. TypeOK'
      BY <1>1, <1>2, <1>3 DEF StoreStep, DInv, TypeOK, ShowMatch
  <2>2. ViewsInv'
      BY <1>1, <1>2, <1>3 DEF DInv, ViewsInv, ShowMatch
  <2>3. QED
      BY <1>2, <1>3, <2>1, <2>2, ViewStep DEF ShowMatch
<1>4. CASE (\E p \in Players : match' = [NoMatch EXCEPT !.state = "on", !.first = p])
           /\ playTimer' = TRUE
  <2>1. PICK p \in Players : match' = [NoMatch EXCEPT !.state = "on", !.first = p]
      BY <1>4
  <2>2. /\ match'.state = "on" /\ match'.first = p /\ match'.game = 1 /\ match'.round = 1
        /\ match'.hands = [q \in Players |-> FullHand]
        /\ match'.scores = [q \in Players |-> 0]
        /\ match'.picks = [q \in Players |-> "none"]
        /\ match'.pending = "none" /\ match'.settled = FALSE
        /\ match' \in Match
    <3>1. FullHand \in [special : 0 .. 1, citizen : 0 .. Citizens]
        BY DEF FullHand
    <3>2. 1 \in 1 .. Citizens + 1
        OBVIOUS
    <3>3. NoMatch \in Match
      <4> HIDE DEF FullHand
      <4>1. QED
          BY <3>1, <3>2 DEF NoMatch, Match, Players
    <3>4. QED
        BY <2>1, <3>3 DEF NoMatch, Match
  <2>3. TypeOK'
      BY <1>1, <1>2, <1>4, <2>2 DEF StoreStep, DInv, TypeOK, ShowMatch
  <2>4. ScoresInv'
      BY <2>2 DEF ScoresInv, Other, Players
  <2>5. HandsLastLongEnough' /\ PicksInv'
      BY <2>2 DEF HandsLastLongEnough, PicksInv, FullHand
  <2>6. ViewsInv'
      BY <1>1, <1>2, <2>2 DEF DInv, ViewsInv, ShowMatch
  <2>7. ShownIsPaid'
      BY <1>2, ShownStays DEF DInv, ShowMatch
  <2>8. QED
      BY <1>2, <2>3, <2>4, <2>5, <2>6, <2>7 DEF DInv, StoreStep
<1>5. QED
    BY <1>3, <1>4 DEF ShowMatch

\* A pick is of a card in the hand.
LEMMA PickKeeps ==
    ASSUME DInv, NEW p \in Players, NEW card \in {"special", "citizen"}, RecordPick(p, card)
    PROVE DInv'
<1>1. MoneyTypes /\ MoneyInv /\ NoCall /\ at = "idle" /\ at' = "edit" /\ match.state = "on"
      /\ match.pending = "none" /\ match \in Match
    BY DEF DInv, TypeOK, RecordPick, MatchHandler
<1>2. StoreStep /\ stage' = stage /\ by' = by /\ charged' = charged
    BY <1>1, NoCallIsStep
<1>3. match' = [match EXCEPT !.picks[p] = card]
    BY DEF RecordPick
<1>4. /\ match'.state = match.state /\ match'.first = match.first /\ match'.game = match.game
      /\ match'.round = match.round /\ match'.hands = match.hands
      /\ match'.scores = match.scores /\ match'.pending = match.pending
      /\ match' \in Match
    BY <1>1, <1>3 DEF Match
<1>5. TypeOK'
    BY <1>1, <1>2, <1>4 DEF StoreStep, DInv, TypeOK, RecordPick
<1>6. ScoresInv' /\ HandsLastLongEnough'
    BY <1>4 DEF DInv, ScoresInv, Other, HandsLastLongEnough
<1>7. PicksInv'
  <2>1. \A q \in Players : match'.picks[q] = IF q = p THEN card ELSE match.picks[q]
      BY <1>1, <1>3 DEF Match
  <2>2. match.hands[p][card] > 0
      BY DEF RecordPick
  <2>3. QED
      BY <1>4, <2>1, <2>2 DEF DInv, PicksInv
<1>8. ViewsInv'
    BY <1>1, <1>2, <1>4 DEF DInv, ViewsInv, RecordPick
<1>9. ShownIsPaid'
    BY <1>2, ShownStays DEF DInv, RecordPick
<1>10. QED
    BY <1>2, <1>5, <1>6, <1>7, <1>8, <1>9 DEF DInv, StoreStep

\* A timeout keeps a result that is pending, and brings a refund otherwise.
LEMMA TimeoutKeeps ==
    ASSUME DInv, HandleTimeout
    PROVE DInv'
<1>1. MoneyTypes /\ MoneyInv /\ NoCall /\ at = "idle" /\ match.state = "on" /\ match \in Match
    BY DEF DInv, TypeOK, HandleTimeout, MatchHandler
<1>2. StoreStep /\ stage' = stage /\ by' = by /\ charged' = charged
    BY <1>1, NoCallIsStep
<1>3. match' = [match EXCEPT !.pending = TimeoutOutcome] /\ TimeoutOutcome \in {"payout", "refund"}
      /\ (TimeoutOutcome = "payout" <=> match.pending = "payout")
      /\ playTimer' = FALSE /\ at' = IF match'.pending = "payout" THEN "settle" ELSE "refund"
    BY DEF HandleTimeout, TimeoutOutcome
<1>4. /\ match'.state = match.state /\ match'.first = match.first /\ match'.game = match.game
      /\ match'.scores = match.scores
      /\ match'.pending \in {"payout", "refund"}
      /\ (match'.pending = "payout" <=> match.pending = "payout")
      /\ match' \in Match
    BY <1>1, <1>3 DEF Match
<1>5. at' \in {"settle", "refund"} /\ (at' = "settle" <=> match'.pending = "payout")
    BY <1>3, <1>4
<1>6. TypeOK'
    BY <1>2, <1>3, <1>4, <1>5 DEF StoreStep, DInv, TypeOK, HandleTimeout
<1>7. ScoresInv'
    BY <1>4 DEF DInv, ScoresInv, Other
<1>8. HandsLastLongEnough' /\ PicksInv'
    BY <1>4 DEF HandsLastLongEnough, PicksInv
<1>9. ViewsInv'
    BY <1>1, <1>2, <1>4, <1>5 DEF DInv, ViewsInv, HandleTimeout
<1>10. ShownIsPaid'
    BY <1>2, ShownStays DEF DInv, HandleTimeout
<1>11. QED
    BY <1>2, <1>6, <1>7, <1>8, <1>9, <1>10 DEF DInv, StoreStep

\* The second transaction of finish: the message follows the payment.
LEMMA ApplyKeeps ==
    ASSUME DInv, SettleApply \/ RefundApply
    PROVE DInv'
<1>1. MoneyTypes /\ MoneyInv /\ match \in Match /\ Apply /\ match.state = "on" /\ at' = "idle"
    BY DEF DInv, ViewsInv, TypeOK, SettleApply, RefundApply
<1>2. StoreStep /\ stage'[Session] = "closed" /\ by' = by /\ due' = due
      /\ stage[Session] # "open" /\ charged' = charged
  <2>1. StoreStep /\ stage'[Session] = "closed" /\ by' = by /\ due' = due
      BY <1>1, ApplyIsStep
  <2>2. stage[Session] # "open"
      BY DEF DInv, ViewsInv, SettleApply, RefundApply
  <2>3. QED
      BY <2>1, <2>2 DEF StoreStep
<1>3. match' = [match EXCEPT !.settled = TRUE]
    BY DEF SettleApply, RefundApply
<1>4. /\ match'.state = match.state /\ match'.first = match.first /\ match'.game = match.game
      /\ match'.round = match.round /\ match'.hands = match.hands
      /\ match'.scores = match.scores /\ match'.picks = match.picks
      /\ match'.pending = match.pending
      /\ match' \in Match
    BY <1>1, <1>3 DEF Match
<1>5. TypeOK'
  <2>1. shown'.kind \in {"none", "cancelled", "final", "interrupted", "refund"}
      BY DEF SettleApply, RefundApply, Receipt
  <2>2. QED
      BY <1>1, <1>2, <1>4, <2>1 DEF StoreStep, DInv, TypeOK, SettleApply, RefundApply
<1>6. ScoresInv' /\ PicksInv' /\ HandsLastLongEnough'
    BY <1>4 DEF DInv, ScoresInv, PicksInv, Other, HandsLastLongEnough
<1>7. ViewsInv'
    BY <1>1, <1>2, <1>4 DEF DInv, ViewsInv, SettleApply, RefundApply
<1>8. ShownIsPaid'
  <2>1. CASE SettleApply
    <3>1. /\ shown'.got = due'[Session] /\ shown'.kind \in {"interrupted", "final"}
          /\ shown'.kind = "final" => by # "recovery"
        BY <1>2, <2>1 DEF SettleApply, Receipt
    <3>2. by = "result" \/ by = "recovery"
      <4>1. match.pending = "payout"
          BY <2>1 DEF DInv, ViewsInv, SettleApply
      <4>2. by \in {"view", "result", "recovery"}
          BY <1>2 DEF DInv, TypeOK, MoneyTypes, MoneyInv
      <4>3. QED
          BY <1>1, <4>1, <4>2 DEF DInv, ViewsInv
    <3>3. QED
        BY <1>2, <3>1, <3>2 DEF ShownIsPaid
  <2>2. CASE RefundApply
    <3>1. shown'.got = [p \in Players |-> Bet] /\ shown'.kind = "refund"
        BY <2>2 DEF RefundApply
    <3>2. match.pending = "refund" /\ charged[Opponent] >= Bet /\ charged[Challenger] = Bet
        BY <1>1, <2>2 DEF DInv, ViewsInv, RefundApply
    <3>3. by \in {"view", "recovery"} /\ due[Session] = charged
      <4>1. by \in {"view", "result", "recovery"}
          BY <1>2 DEF DInv, TypeOK, MoneyTypes, MoneyInv
      <4>2. by # "result"
          BY <3>2 DEF DInv, ViewsInv
      <4>3. QED
          BY <4>1, <4>2 DEF DInv, MoneyInv
    <3>4. charged[Opponent] <= Bet => \A p \in Players : charged[p] = Bet
        BY <3>2 DEF DInv, TypeOK, MoneyTypes, Players
    <3>5. QED
        BY <1>2, <3>1, <3>3, <3>4 DEF ShownIsPaid
  <2>3. QED
      BY <2>1, <2>2
<1>9. QED
    BY <1>2, <1>5, <1>6, <1>7, <1>8 DEF DInv, StoreStep

\* The second transaction of a declined invitation.
LEMMA CancelKeeps ==
    ASSUME DInv, CancelApply
    PROVE DInv'
<1>1. MoneyTypes /\ MoneyInv /\ Apply /\ at = "cancel2" /\ at' = "idle" /\ match' = match
      /\ invite = "open" /\ invite' = "over" /\ stage[Session] # "open"
    BY DEF DInv, ViewsInv, TypeOK, CancelApply
<1>2. StoreStep /\ stage'[Session] = "closed" /\ by' = by /\ due' = due
    BY <1>1, ApplyIsStep
<1>3. charged' = charged /\ match.state = "none" /\ charged[Challenger] = Bet
    BY <1>1, <1>2 DEF DInv, ViewsInv, TypeOK, Match, StoreStep
<1>4. TypeOK'
    BY <1>1, <1>2 DEF StoreStep, DInv, TypeOK, CancelApply
<1>5. ViewsInv'
    BY <1>1, <1>2, <1>3 DEF DInv, ViewsInv, CancelApply
<1>6. ShownIsPaid'
  <2>1. shown' = [kind |-> "cancelled", got |-> [p \in {Challenger} |-> Bet]]
      BY DEF CancelApply
  <2>2. by \in {"view", "recovery"} /\ due[Session] = charged
    <3>1. by \in {"view", "result", "recovery"}
        BY <1>1 DEF DInv, TypeOK, MoneyTypes, MoneyInv
    <3>2. by # "result"
        BY <1>3 DEF DInv, ViewsInv
    <3>3. QED
        BY <3>1, <3>2 DEF DInv, MoneyInv
  <2>3. QED
      BY <1>2, <1>3, <2>1, <2>2 DEF ShownIsPaid
<1>7. QED
    BY <1>1, <1>2, <1>4, <1>5, <1>6, MatchStays DEF DInv, StoreStep

\* The two players.
LEMMA OthersOther ==
    /\ Other(Challenger) = Opponent /\ Other(Opponent) = Challenger
    /\ \A p \in Players : Other(p) \in Players /\ Other(p) # p /\ Other(Other(p)) = p
    /\ \A p, q \in Players : q = p \/ q = Other(p)
  BY DEF Other, Players

\* The fields that a round changes keep their types.
LEMMA MatchFields ==
    ASSUME NEW m \in Match, NEW r \in 1 .. Citizens + 1, NEW g \in 1 .. 2,
           NEW c \in [Players -> {"none", "special", "citizen"}],
           NEW h \in [Players -> [special : 0 .. 1, citizen : 0 .. Citizens]]
    PROVE /\ [m EXCEPT !.picks = c, !.round = r] \in Match
          /\ [m EXCEPT !.picks = c, !.game = g, !.round = r, !.hands = h] \in Match
<1> DEFINE H == [Players -> [special : 0 .. 1, citizen : 0 .. Citizens]]
           P == [Players -> {"none", "special", "citizen"}]
           R == 1 .. Citizens + 1
           G == 1 .. 2
           S == [Players -> {0, 1, 3, 4}]
<1>1. Match = [state : {"none", "on"}, first : Players, game : G, round : R, hands : H,
               scores : S, picks : P, pending : {"none", "payout", "refund"},
               settled : BOOLEAN]
    BY DEF Match
<1>2. r \in R /\ g \in G /\ c \in P /\ h \in H
    OBVIOUS
<1> HIDE DEF H, P, R, G, S
<1>3. QED
    BY <1>1, <1>2

\* A round that is played takes a card from each hand, and decides the game or not.
LEMMA AfterRoundKeeps ==
    ASSUME DInv, match.state = "on", match.pending = "none", BothPicked,
           match' = AfterRound
    PROVE /\ match' \in Match /\ match'.state = "on" /\ match'.pending \in {"none", "payout"}
          /\ ScoresInv' /\ PicksInv' /\ HandsLastLongEnough'
<1> DEFINE e == Emperor
           s == Other(e)
           result == Round(match.picks[e], match.picks[s])
           points(p) == CASE result = "emperor" /\ p = e -> 1
                          [] result = "slave" /\ p = s   -> 3
                          [] OTHER                       -> 0
           hands == [p \in Players |->
                       [match.hands[p] EXCEPT ![match.picks[p]] = @ - 1]]
           scores == [p \in Players |-> match.scores[p] + points(p)]
           played == [match EXCEPT !.hands = hands, !.scores = scores]
<1>1. /\ match \in Match
      /\ match.first \in Players /\ match.game \in {1, 2} /\ match.round \in 1 .. Citizens + 1
    BY DEF DInv, TypeOK, Match
<1>2. e = IF match.game = 1 THEN match.first ELSE Other(match.first)
    BY DEF Emperor
<1>3. e \in Players /\ s \in Players /\ e # s
    BY <1>1, <1>2, OthersOther
<1>4. \A p \in Players : /\ match.picks[p] \in {"special", "citizen"}
                         /\ match.hands[p] \in [special : 0 .. 1, citizen : 0 .. Citizens]
                         /\ match.hands[p][match.picks[p]] > 0
                         /\ match.hands[p].special = 1
                         /\ match.hands[p].citizen = Citizens + 1 - match.round
    BY <1>1 DEF Match, BothPicked, DInv, PicksInv, HandsLastLongEnough
<1>5. /\ result \in {"draw", "emperor", "slave"}
      /\ result = "draw" => \A p \in Players : match.picks[p] = "citizen"
    BY <1>3, <1>4, OthersOther DEF Round
<1>6. \A p \in Players :
          /\ hands[p] \in [special : 0 .. 1, citizen : 0 .. Citizens]
          /\ result = "draw" => /\ hands[p].special = 1
                                /\ hands[p].citizen = Citizens - match.round
                                /\ match.round <= Citizens
  <2> SUFFICES ASSUME NEW p \in Players
               PROVE /\ hands[p] \in [special : 0 .. 1, citizen : 0 .. Citizens]
                     /\ result = "draw" => /\ hands[p].special = 1
                                           /\ hands[p].citizen = Citizens - match.round
                                           /\ match.round <= Citizens
      OBVIOUS
  <2> HIDE DEF result
  <2>1. CASE match.picks[p] = "special"
    <3>1. hands[p] = [match.hands[p] EXCEPT !.special = @ - 1]
        BY <2>1
    <3>2. hands[p] \in [special : 0 .. 1, citizen : 0 .. Citizens]
        BY <1>4, <3>1
    <3>3. QED
        BY <1>5, <2>1, <3>2
  <2>2. CASE match.picks[p] = "citizen"
    <3>1. hands[p] = [match.hands[p] EXCEPT !.citizen = @ - 1]
        BY <2>2
    <3>2. match.hands[p].citizen > 0
        BY <1>4, <2>2
    <3> HIDE DEF hands
    <3>3. /\ hands[p] \in [special : 0 .. 1, citizen : 0 .. Citizens]
          /\ hands[p].special = 1 /\ hands[p].citizen = Citizens + 1 - match.round - 1
        BY <1>1, <1>4, <3>1, <3>2
    <3>4. QED
        BY <1>1, <1>4, <3>2, <3>3
  <2>3. QED
      BY <1>4, <2>1, <2>2
<1>7. match.scores \in [Players -> {0, 1, 3, 4}]
    BY <1>1 DEF Match
<1>8. /\ result = "draw" => points(e) = 0 /\ points(s) = 0
      /\ result = "emperor" => points(e) = 1 /\ points(s) = 0
      /\ result = "slave" => points(e) = 0 /\ points(s) = 3
    BY <1>3
<1>9. AfterRound =
        CASE result = "draw" ->
                [played EXCEPT !.picks = NoMatch.picks, !.round = @ + 1]
          [] result # "draw" /\ match.game = 1 ->
                [played EXCEPT !.picks = NoMatch.picks, !.game = 2, !.round = 1,
                               !.hands = NoMatch.hands]
          [] OTHER -> [played EXCEPT !.pending = "payout"]
    BY DEF AfterRound
<1>10. hands \in [Players -> [special : 0 .. 1, citizen : 0 .. Citizens]]
    BY <1>6
<1>11. scores[e] = match.scores[e] + points(e) /\ scores[s] = match.scores[s] + points(s)
    BY <1>3
<1>12. played \in [state : {"on"}, first : Players, game : {match.game},
                   round : {match.round}, hands : {hands}, scores : {scores},
                   picks : {match.picks}, pending : {"none"}, settled : BOOLEAN]
       /\ played.first = match.first
    BY <1>1 DEF Match
<1>13. scores = [p \in Players |-> scores[p]]
    OBVIOUS
<1>14. NoMatch.picks = [p \in Players |-> "none"] /\ NoMatch.hands = [p \in Players |-> FullHand]
    BY DEF NoMatch
<1>15. FullHand \in [special : 0 .. 1, citizen : 0 .. Citizens]
       /\ FullHand.special = 1 /\ FullHand.citizen = Citizens
    BY DEF FullHand
<1>16. CASE result = "draw"
  <2>1. match' = [played EXCEPT !.picks = NoMatch.picks, !.round = @ + 1]
      BY <1>9, <1>16
  <2>2. points(e) = 0 /\ points(s) = 0
      BY <1>8, <1>16
  <2>3. match.round + 1 \in 1 .. Citizens + 1
    <3> HIDE DEF hands, result, e
    <3>1. match.round <= Citizens
        BY <1>3, <1>6, <1>16
    <3>2. QED
        BY <1>1, <3>1
  <2>4. \A p \in Players : hands[p].special = 1 /\ hands[p].citizen = Citizens - match.round
      BY <1>6, <1>16
  <2> HIDE DEF played, hands, scores, points, result, e, s
  <2>5. /\ match'.state = "on" /\ match'.pending = "none" /\ match'.first = match.first
        /\ match'.game = match.game /\ match'.round = match.round + 1
        /\ match'.hands = hands /\ match'.scores = scores
        /\ match'.picks = [p \in Players |-> "none"]
      BY <1>12, <1>14, <2>1
  <2>6. scores = match.scores
    <3>1. scores[e] = match.scores[e] /\ scores[s] = match.scores[s]
        BY <1>3, <1>7, <1>11, <2>2
    <3>2. \A p \in Players : p = e \/ p = s
        BY <1>3, OthersOther DEF s
    <3>3. QED
        BY <1>7, <1>13, <3>1, <3>2
  <2>7. match' \in Match
    <3>1. NoMatch.picks \in [Players -> {"none", "special", "citizen"}]
        BY <1>14
    <3>2. played \in Match
        BY <1>1, <1>7, <1>10, <1>12, <2>6 DEF Match
    <3>3. played.round = match.round
        BY <1>12
    <3>4. match' = [played EXCEPT !.picks = NoMatch.picks, !.round = match.round + 1]
        BY <2>1, <3>3
    <3>5. [played EXCEPT !.picks = NoMatch.picks, !.round = match.round + 1] \in Match
      <4> DEFINE c == NoMatch.picks
                 r == match.round + 1
      <4>1. c \in [Players -> {"none", "special", "citizen"}] /\ r \in 1 .. Citizens + 1
          BY <2>3, <3>1
      <4>2. 1 \in 1 .. 2
          OBVIOUS
      <4> HIDE DEF c, r
      <4>3. [played EXCEPT !.picks = c, !.round = r] \in Match
          BY ONLY <1>10, <3>2, <4>1, <4>2, MatchFields, CitizensAssumption
      <4>4. QED
          BY <4>3 DEF c, r
    <3>6. QED
        BY <3>4, <3>5
  <2>8. ScoresInv'
      BY <2>5, <2>6 DEF DInv, ScoresInv, Other
  <2>9. PicksInv' /\ HandsLastLongEnough'
      BY <1>1, <2>4, <2>5 DEF PicksInv, HandsLastLongEnough
  <2>10. QED
      BY <2>5, <2>7, <2>8, <2>9
<1>17. CASE result # "draw" /\ match.game = 1
  <2>1. match' = [played EXCEPT !.picks = NoMatch.picks, !.game = 2, !.round = 1,
                                !.hands = NoMatch.hands]
      BY <1>9, <1>17
  <2>2. match.scores[e] = 0 /\ match.scores[s] = 0
      BY <1>2, <1>17 DEF DInv, ScoresInv
  <2>3. <<scores[e], scores[s]>> \in {<<1, 0>>, <<0, 3>>}
    <3> HIDE DEF scores, points, result, e, s
    <3>1. QED
        BY <1>5, <1>8, <1>11, <1>17, <2>2
  <2>4. e = match.first /\ s = Other(match.first)
      BY <1>2, <1>17
  <2>5. scores \in [Players -> {0, 1, 3, 4}]
      BY <1>3, <2>3, <1>13, OthersOther
  <2> HIDE DEF played, hands, scores, points, result, e, s
  <2>6. /\ match'.state = "on" /\ match'.pending = "none" /\ match'.first = match.first
        /\ match'.game = 2 /\ match'.round = 1
        /\ match'.hands = [p \in Players |-> FullHand] /\ match'.scores = scores
        /\ match'.picks = [p \in Players |-> "none"]
      BY <1>12, <1>14, <2>1
  <2>7. match' \in Match
    <3>1. 1 \in 1 .. Citizens + 1
        OBVIOUS
    <3>2. /\ NoMatch.picks \in [Players -> {"none", "special", "citizen"}]
          /\ NoMatch.hands \in [Players -> [special : 0 .. 1, citizen : 0 .. Citizens]]
        BY <1>14, <1>15
    <3>3. played \in Match
        BY <1>1, <1>10, <1>12, <2>5 DEF Match
    <3>4. [played EXCEPT !.picks = NoMatch.picks, !.game = 2, !.round = 1,
                         !.hands = NoMatch.hands] \in Match
      <4>1. 2 \in 1 .. 2
          OBVIOUS
      <4> HIDE DEF Match
      <4> DEFINE m == played
                 c == NoMatch.picks
                 h == NoMatch.hands
      <4>2. m \in Match /\ c \in [Players -> {"none", "special", "citizen"}]
            /\ h \in [Players -> [special : 0 .. 1, citizen : 0 .. Citizens]]
          BY <3>2, <3>3
      <4> HIDE DEF m, c, h
      <4>3. [m EXCEPT !.picks = c, !.game = 2, !.round = 1, !.hands = h] \in Match
          BY ONLY <3>1, <4>1, <4>2, MatchFields, CitizensAssumption
      <4>4. QED
          BY <4>3 DEF m, c, h
    <3>5. QED
        BY <2>1, <3>4
  <2>8. ScoresInv'
      BY <2>3, <2>4, <2>6 DEF ScoresInv, Other
  <2>9. PicksInv' /\ HandsLastLongEnough'
      BY <1>15, <2>6 DEF PicksInv, HandsLastLongEnough
  <2>10. QED
      BY <2>6, <2>7, <2>8, <2>9
<1>18. CASE result # "draw" /\ match.game = 2
  <2>1. match' = [played EXCEPT !.pending = "payout"]
      BY <1>9, <1>18
  <2>2. e = Other(match.first) /\ s = match.first
      BY <1>1, <1>2, <1>18, OthersOther
  <2>3. <<match.scores[s], match.scores[e]>> \in {<<1, 0>>, <<0, 3>>}
      BY <1>18, <2>2 DEF DInv, ScoresInv
  <2>4. <<scores[s], scores[e]>> \in {<<1, 1>>, <<3, 3>>, <<4, 0>>, <<0, 4>>}
    <3>1. CASE result = "emperor"
        BY <1>8, <1>11, <2>3, <3>1
    <3>2. CASE result = "slave"
        BY <1>8, <1>11, <2>3, <3>2
    <3>3. QED
        BY <1>5, <1>18, <3>1, <3>2
  <2>5. scores \in [Players -> {0, 1, 3, 4}]
      BY <1>3, <2>4, <1>13, OthersOther
  <2> HIDE DEF played, hands, scores, points, result, e, s
  <2>6. /\ match'.state = "on" /\ match'.pending = "payout" /\ match'.first = match.first
        /\ match'.scores = scores
      BY <1>12, <2>1
  <2>7. match' \in Match
      BY <1>1, <1>10, <1>12, <2>1, <2>5 DEF Match
  <2>8. ScoresInv'
      BY <2>2, <2>4, <2>6 DEF ScoresInv, Other
  <2>9. PicksInv' /\ HandsLastLongEnough'
      BY <2>6 DEF PicksInv, HandsLastLongEnough
  <2>10. QED
      BY <2>6, <2>7, <2>8, <2>9
<1>19. QED
    BY <1>1, <1>16, <1>17, <1>18

\* The edit returns, and the round is played if both have picked.
LEMMA PickShownKeeps ==
    ASSUME DInv, PickShown
    PROVE DInv'
<1>1. MoneyTypes /\ MoneyInv /\ NoCall /\ match.state = "on" /\ match.pending = "none"
      /\ at = "edit"
    BY DEF DInv, TypeOK, ViewsInv, PickShown
<1>2. StoreStep /\ stage' = stage /\ by' = by /\ charged' = charged
    BY <1>1, NoCallIsStep
<1>3. by # "result" /\ by # "view"
    BY <1>1 DEF DInv, ViewsInv
<1>4. CASE BothPicked /\ match' = AfterRound
           /\ at' = IF match'.pending = "payout" THEN "settle" ELSE "idle"
  <2>1. /\ match' \in Match /\ match'.state = "on" /\ match'.pending \in {"none", "payout"}
        /\ ScoresInv' /\ PicksInv' /\ HandsLastLongEnough'
      BY <1>1, <1>4, AfterRoundKeeps
  <2>2. at' \in {"idle", "settle"} /\ (at' = "settle" => match'.pending = "payout")
      BY <1>4
  <2>3. TypeOK'
      BY <1>2, <2>1, <2>2 DEF StoreStep, DInv, TypeOK, PickShown
  <2>4. ViewsInv'
      BY <1>1, <1>2, <1>3, <2>1, <1>4 DEF DInv, ViewsInv, PickShown
  <2>5. ShownIsPaid'
      BY <1>2, ShownStays DEF DInv, PickShown
  <2>6. QED
      BY <1>2, <2>1, <2>3, <2>4, <2>5 DEF DInv, StoreStep
<1>5. CASE at' = "idle" /\ UNCHANGED match
  <2>1. TypeOK'
      BY <1>2, <1>5 DEF StoreStep, DInv, TypeOK, PickShown
  <2>2. ViewsInv'
      BY <1>1, <1>2, <1>5 DEF DInv, ViewsInv, PickShown
  <2>3. QED
      BY <1>2, <1>5, <2>1, <2>2, ViewStep DEF PickShown
<1>6. QED
    BY <1>4, <1>5 DEF PickShown

(***************************************************************************)
(* The invariant, and what follows from it.                                *)
(***************************************************************************)
LEMMA DuelInit == Init => DInv
<1> SUFFICES ASSUME Init PROVE DInv
    OBVIOUS
<1>1. /\ purse = Initial /\ pot = [s \in {Session} |-> [p \in Players |-> 0]]
      /\ stage = [s \in {Session} |-> "open"]
      /\ due = [s \in {Session} |-> [p \in Players |-> 0]]
    BY DEF Init, Store!PInit, Store!Nothing
<1>2. TypeOK
  <2>1. MoneyTypes
      BY <1>1, InitialAssumption DEF Init, MoneyTypes
  <2>2. match \in Match
    <3>1. 1 \in 1 .. Citizens + 1 /\ FullHand \in [special : 0 .. 1, citizen : 0 .. Citizens]
        BY DEF FullHand
    <3> HIDE DEF FullHand
    <3>2. QED
        BY <3>1 DEF Init, NoMatch, Match, Players
  <2>3. QED
      BY <2>1, <2>2 DEF Init, TypeOK, NotShown
<1>3. MoneyInv
    BY <1>1, InitialAssumption DEF Init, MoneyInv, SplitIsAllOrEven, Sum, Players
<1>4. ScoresInv /\ PicksInv /\ HandsLastLongEnough
    BY DEF Init, NoMatch, ScoresInv, PicksInv, HandsLastLongEnough, Other, Players
<1>5. ViewsInv /\ ShownIsPaid
    BY DEF Init, NoMatch, NotShown, ViewsInv, ShownIsPaid
<1>6. QED
    BY <1>2, <1>3, <1>4, <1>5 DEF DInv

\* The induction step.
LEMMA DuelNext == DInv /\ [Next]_vars => DInv'
<1> SUFFICES ASSUME DInv, [Next]_vars PROVE DInv'
    OBVIOUS
<1>1. CASE Challenge
    BY <1>1, ChallengeKeeps
<1>2. CASE Accept
    BY <1>2, AcceptKeeps
<1>3. CASE ShowMatch
    BY <1>3, MatchShown
<1>4. CASE Decline \/ InviteTimeout \/ RetryPending \/ Restart \/ UNCHANGED vars
    BY <1>4, QuietKeeps
<1>5. CASE CancelPrepare \/ SettlePrepare \/ RefundPrepare
    BY <1>5, PrepareKeeps
<1>6. CASE CancelApply
    BY <1>6, CancelKeeps
<1>7. CASE \E p \in Players, card \in {"special", "citizen"} : RecordPick(p, card)
    BY <1>7, PickKeeps
<1>8. CASE PickShown
    BY <1>8, PickShownKeeps
<1>9. CASE SettleApply \/ RefundApply
    BY <1>9, ApplyKeeps
<1>10. CASE HandleTimeout
    BY <1>10, TimeoutKeeps
<1>11. CASE AwaitRaises
    BY <1>11, RaiseKeeps
<1>12. CASE RecoverDecide \/ RecoverPay
    BY <1>12, RecoveryKeeps
<1>13. QED
    BY <1>1, <1>2, <1>3, <1>4, <1>5, <1>6, <1>7, <1>8, <1>9, <1>10, <1>11, <1>12
    DEF Next

\* Every reachable state of a duel satisfies the inductive invariant.
THEOREM DuelInvariant == Spec => []DInv
<1>1. QED
    BY DuelInit, DuelNext, PTL DEF Spec

\* The variables keep their types: no balance goes below zero, no hand below
\* no cards, and the scores are 0, 1, 3 or 4.
THEOREM DuelTypes == Spec => []TypeOK
<1>1. DInv => TypeOK
    BY DEF DInv
<1>2. QED
    BY <1>1, DuelInvariant, PTL

\* No coin is made or lost by a duel, wherever a handler was cut off, but for
\* the stake of a second acceptance (_settle_match, _refund_both, decline).
THEOREM DuelCoinsAccountedFor == Spec => []CoinsAccountedFor
<1>1. DInv => CoinsAccountedFor
  <2> SUFFICES ASSUME DInv PROVE CoinsAccountedFor
      OBVIOUS
  <2> DEFINE closed == IF stage[Session] = "closed" THEN Sum(due[Session]) ELSE 0
             third == IF by = "result" THEN Sum(charged) - 2 * Bet ELSE 0
  <2>1. /\ purse \in [Players -> Nat] /\ charged \in [Players -> Nat]
        /\ due[Session] \in [Players -> Nat] /\ stage[Session] \in {"open", "decided", "closed"}
        /\ by \in {"nobody", "view", "result", "recovery"}
      BY DEF DInv, TypeOK, MoneyTypes
  <2>2. /\ Sum(purse) \in Int /\ Sum(charged) \in Int /\ Sum(due[Session]) \in Int
        /\ Sum(Initial) \in Int
      BY <2>1, InitialAssumption DEF Sum, Players
  <2>3. Sum(purse) = Sum(Initial) - Sum(charged) + closed
      BY DEF DInv, MoneyInv, Sum
  <2>4. Sum(pot[Session]) = IF stage[Session] = "closed" THEN 0 ELSE Sum(charged)
    <3>1. pot[Session] = IF stage[Session] = "closed" THEN [p \in Players |-> 0] ELSE charged
        BY DEF DInv, MoneyInv
    <3>2. QED
        BY <3>1 DEF Sum, Players
  <2>5. CASE stage[Session] = "open"
    <3>1. by # "result" /\ third = 0 /\ closed = 0 /\ Held = Sum(charged)
        BY <2>4, <2>5 DEF DInv, MoneyInv, Held
    <3> HIDE DEF third, closed
    <3>2. Sum(purse) + Held + third = Sum(Initial)
        BY <2>2, <2>3, <3>1
    <3>3. QED
        BY <3>2 DEF CoinsAccountedFor, third
  <2>6. CASE stage[Session] # "open"
    <3>1. third = Sum(charged) - Sum(due[Session])
      <4>1. CASE by = "result"
        <5>1. Sum(due[Session]) = 2 * Bet
            BY <4>1 DEF DInv, MoneyInv
        <5>2. QED
            BY <4>1, <5>1
      <4>2. CASE by \in {"view", "recovery"}
        <5>1. due[Session] = charged
            BY <4>2 DEF DInv, MoneyInv
        <5>2. third = 0
            BY <4>2
        <5>3. QED
            BY <2>2, <5>1, <5>2
      <4>3. QED
          BY <2>1, <2>6, <4>1, <4>2 DEF DInv, MoneyInv
    <3>2. closed + Held = Sum(due[Session])
        BY <2>1, <2>2, <2>4, <2>6 DEF Held
    <3>3. Held \in Int /\ closed \in Int
        BY <2>2, <2>4 DEF Held
    <3> HIDE DEF third, closed
    <3>4. Sum(purse) + Held + third = Sum(Initial)
        BY <2>2, <2>3, <3>1, <3>2, <3>3
    <3>5. QED
        BY <3>4 DEF CoinsAccountedFor, third
  <2>7. QED
      BY <2>5, <2>6
<1>2. QED
    BY <1>1, DuelInvariant, PTL

\* The last message about the money says what the store paid.
THEOREM DuelShownIsPaid == Spec => []ShownIsPaid
<1>1. DInv => ShownIsPaid
    BY DEF DInv
<1>2. QED
    BY <1>1, DuelInvariant, PTL

\* A result gives one player the pot, or both the half of it: the division of
\* the pot by the points is exact for every bet.
THEOREM DuelSplitIsAllOrEven == Spec => []SplitIsAllOrEven
<1>1. DInv => SplitIsAllOrEven
    BY DEF DInv, MoneyInv, SplitIsAllOrEven
<1>2. QED
    BY <1>1, DuelInvariant, PTL

\* No view refunds a duel whose second game is decided.
THEOREM DuelTimeoutKeepsResult == Spec => []TimeoutKeepsResult
<1>1. DInv => TimeoutKeepsResult
  <2> SUFFICES ASSUME DInv, by = "view" PROVE ~BothGamesDecided
      BY DEF TimeoutKeepsResult
  <2>1. match \in Match
      BY DEF DInv, TypeOK
  <2>2. match.pending # "payout"
      BY <2>1 DEF DInv, ViewsInv, Match
  <2>3. match.first \in Players
      BY <2>1 DEF Match
  <2>4. Sum(match.scores) \in {0, 1, 3}
      BY <2>2, <2>3 DEF DInv, ScoresInv, Sum, Other, Players
  <2>5. QED
      BY <2>4 DEF BothGamesDecided
<1>2. QED
    BY <1>1, DuelInvariant, PTL

\* A pot is shared out only after two games, however their rounds were cut off.
THEOREM DuelResultNeedsBothGames == Spec => []ResultNeedsBothGames
<1>1. DInv => ResultNeedsBothGames
  <2> SUFFICES ASSUME DInv, by = "result" PROVE BothGamesDecided
      BY DEF ResultNeedsBothGames
  <2>1. match \in Match /\ match.first \in Players
      BY DEF DInv, TypeOK, Match
  <2>2. match.pending = "payout"
      BY DEF DInv, ViewsInv
  <2>3. Sum(match.scores) \in {2, 4, 6}
      BY <2>1, <2>2 DEF DInv, ScoresInv, Sum, Other, Players
  <2>4. QED
      BY <2>3 DEF BothGamesDecided
<1>2. QED
    BY <1>1, DuelInvariant, PTL

\* Nobody runs out of cards before the game is decided, for any number of
\* citizens.
THEOREM DuelHandsLastLongEnough == Spec => []HandsLastLongEnough
<1>1. DInv => HandsLastLongEnough
    BY DEF DInv
<1>2. QED
    BY <1>1, DuelInvariant, PTL

(***************************************************************************)
(* The promise of the store.                                               *)
(***************************************************************************)
\* What the store may do while the duel goes on.
Promised == Store!PNext \/ UNCHANGED store

\* A call of a handler, or none, is a step of the promise.
LEMMA CallsArePromised ==
    ASSUME MoneyTypes, NEW p \in Players, NEW outcome \in Splits \union {pot[Session]},
           NEW reason,
           Debit(p) \/ Prepare(outcome, reason) \/ Apply \/ NoCall
    PROVE  Promised
<1>1. CASE Debit(p)
  <2>1. Bet \in {Bet} /\ Store!PutIn(Session, p, Bet)
      BY <1>1 DEF Debit
  <2>2. QED
      BY <2>1, Zenon DEF Promised, Store!PNext
<1>2. CASE Prepare(outcome, reason)
    BY <1>2, Zenon DEF Prepare, Promised, Store!PNext, store
<1>3. CASE Apply
    BY <1>3, Zenon DEF Apply, Promised, Store!PNext, store
<1>4. CASE NoCall
    BY <1>4 DEF NoCall, Promised
<1>5. QED
    BY <1>1, <1>2, <1>3, <1>4

\* The shares of a result are one of the outcomes the duel may ask for.
LEMMA SharesAreAnOutcome ==
    ASSUME DInv, match.pending = "payout"
    PROVE  Split(match.scores) \in Splits
<1>1. PICK s : s = Split(match.scores)
    OBVIOUS
<1>2. s[Challenger] \in {0, Bet, 2 * Bet}
    BY <1>1, SplitIsExact
<1>3. s[Challenger] \in 0 .. 2 * Bet
    BY <1>2
<1>4. s = [p \in Players |-> IF p = Challenger THEN s[Challenger] ELSE 2 * Bet - s[Challenger]]
    BY <1>1 DEF Split, Players
<1>5. QED
    BY <1>1, <1>3, <1>4 DEF Splits

\* Every step of the duel, of the recovery task and of a restart is a step of
\* the store's promise, or leaves it alone: no handler takes more than the
\* player has, decides twice, or asks for shares that are not a split of the
\* two stakes (finish_pending, _settle_match, _refund_both).
THEOREM DuelKeepsPromise == Spec => Store!PSpec
<1>1. Init => Store!PInit
    BY DEF Init
<1>2. ASSUME DInv, [Next]_vars
      PROVE  Promised
  <2>1. MoneyTypes
      BY <1>2 DEF DInv, TypeOK
  <2>2. CASE UNCHANGED vars
      BY <2>2 DEF vars, Promised
  <2>3. CASE NoCall \/ Apply \/ Debit(Challenger) \/ Debit(Opponent)
             \/ (\E reason : Prepare(pot[Session], reason))
      BY <2>1, <2>3, CallsArePromised DEF Players
  <2>4. CASE match.pending = "payout" /\ Prepare(Split(match.scores), "result")
      BY <1>2, <2>1, <2>4, CallsArePromised, SharesAreAnOutcome DEF Players
  <2>5. CASE RecoverDecide \/ RecoverPay
      BY <2>5, Zenon DEF RecoverDecide, RecoverPay, Promised, Store!PNext
  <2>6. CASE AwaitRaises
    <3>1. at = "settle" => match.pending = "payout"
        BY <1>2 DEF DInv, ViewsInv
    <3>2. QED
        BY <2>3, <2>4, <2>6, <3>1, Zenon DEF AwaitRaises
  <2>7. CASE SettlePrepare
    <3>1. at = "settle" => match.pending = "payout"
        BY <1>2 DEF DInv, ViewsInv
    <3>2. QED
        BY <2>4, <2>7, <3>1, Zenon DEF SettlePrepare
  <2>8. CASE Challenge \/ Accept \/ ShowMatch \/ Decline \/ InviteTimeout
             \/ CancelPrepare \/ CancelApply
      BY <2>3, <2>8, Zenon DEF Challenge, Accept, ShowMatch, Decline, InviteTimeout,
                           CancelPrepare, CancelApply
  <2>9. CASE \/ \E p \in Players, card \in {"special", "citizen"} : RecordPick(p, card)
             \/ PickShown \/ SettleApply \/ RefundPrepare \/ RefundApply
             \/ RetryPending \/ HandleTimeout \/ Restart
      BY <2>3, <2>9, Zenon DEF RecordPick, PickShown, SettleApply, RefundPrepare, RefundApply,
                           RetryPending, HandleTimeout, Restart
  <2>10. QED
      BY <1>2, <2>2, <2>5, <2>6, <2>7, <2>8, <2>9, Zenon DEF Next
<1>3. ASSUME DInv, [Next]_vars
      PROVE  [Store!PNext]_(Store!pvars)
    BY <1>2, <1>3 DEF Promised, store, Store!pvars
<1>4. QED
    BY <1>1, <1>3, DuelInvariant, PTL DEF Spec, Store!PSpec
=============================================================================
