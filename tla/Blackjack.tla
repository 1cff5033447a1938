------------------------------- MODULE Blackjack -------------------------------
(***************************************************************************)
(* Blackjack (bot_modules/commands/blackjack.py): the views that start a   *)
(* game, the game and its settlement, on top of the promise of the escrow  *)
(* store (WagerPromise, which EscrowStore implements).                     *)
(*                                                                         *)
(* The callbacks of a game run under _action_lock, one at a time; only     *)
(* check_auto_bj, which settles a natural, runs without it.  "at" is where *)
(* each of the two is.  A button of a natural is refused while             *)
(* _auto_settling, but not before a pending settlement was looked for.     *)
(* Editing the message is the end of a click: _edit swallows every error,  *)
(* so the message may keep the buttons it had ("shown"), and Discord lets  *)
(* the player press whatever the message shows.  A checkpoint that finds   *)
(* the session closed is one of these errors.                              *)
(*                                                                         *)
(* The recovery task may decide an open session at any time.  The deck has *)
(* 24 cards of a rank and a game takes at most 15: any rank may be drawn.  *)
(***************************************************************************)
EXTENDS Integers, Sequences

LOCAL INSTANCE SequencesExt

CONSTANTS
    Player, Partner,    \* Partner gets a share of what players lose
    SharePercent,       \* CASINO_RECOVERY_SHARE_RATE
    Stakes,             \* what the first view may stake: [bet, pair, three]
    MaxBet,             \* bound: no rematch for more
    Most,               \* cards of a hand that win as they are; five in the code
    Ranks,              \* bound: the ranks that are dealt, 1 is the ace
    Initial,
    Sids

Users == {Player, Partner}

ASSUME UsersAssumption == Player # Partner
ASSUME PercentAssumption == SharePercent \in 0 .. 100
ASSUME MostAssumption == Most \in Nat /\ Most > 2
ASSUME RanksAssumption == Ranks \subseteq 1 .. 13
ASSUME InitialAssumption == Initial \in [Users -> Nat]
ASSUME StakesAssumption == Stakes \subseteq [bet : Nat \ {0}, pair : Nat, three : Nat]
ASSUME BoundsAssumption == MaxBet \in Nat /\ Sids \subseteq Nat \ {0}

VARIABLES
    purse, pot, stage, due,     \* the store; see WagerPromise
    by,         \* who decided a session
    charged,    \* log rows: what was debited for a session
    offer,      \* the stakes that the view before the game may place
    game,       \* BlackjackGame
    shown,      \* the buttons that can be pressed in its message
    timer,      \* its view's timeout is running
    told,       \* the last message about the money
    exp,        \* how often a session gave experience
    at,         \* where the two that may run a game's code are
    alive

\* A handler under _action_lock, and check_auto_bj.
Runners == {"click", "auto"}

\* The side bets pay at most 50 times the stake, the hands 2.5 times.
Payouts == [Users -> Nat]

Store == INSTANCE WagerPromise WITH Stakes <- Nat \ {0}

store == <<purse, pot, stage, due>>
view == <<offer, game, shown, timer, told, exp, alive>>
vars == <<store, by, charged, view, at>>

(***************************************************************************)
(* The rules.                                                              *)
(***************************************************************************)
\* calculate_score takes ten off for aces while the hand is above 21: at
\* most one ace is left at eleven.
Score(hand) ==
    LET hard == FoldSeq(LAMBDA r, n : n + (IF r > 10 THEN 10 ELSE r), 0, hand)
    IN  IF 1 \in ToSet(hand) /\ hard + 10 <= 21 THEN hard + 10 ELSE hard

Natural(hand) == Len(hand) = 2 /\ Score(hand) = 21
FullHand(hand) == Len(hand) = Most /\ Score(hand) <= 21
SameValue(hand) == Score(<<hand[1]>>) = Score(<<hand[2]>>)

\* What check_sidebets may add: a multiple of each stake, or its loss.  The
\* suits are left to chance.
Straights == {{n, n + 1, ((n + 1) % 13) + 1} : n \in 1 .. 12}

SideProfits(hand, up, stake) ==
    LET pair == IF hand[1] = hand[2] THEN {30, 5} ELSE {-1}
        three == IF {up} = ToSet(hand) THEN {50, 25}
                 ELSE IF {up} \union ToSet(hand) \in Straights THEN {25, 10} ELSE {5, -1}
    IN  {p * stake.pair + t * stake.three : p \in pair, t \in three}

\* resolve_dealer, for one hand that was not decided before.
Profit(hand, dealer, bet) ==
    LET p == Score(hand)
        d == Score(dealer)
        better(rule(_), times) ==
            IF rule(dealer) THEN IF rule(hand) THEN 0 ELSE -bet ELSE (times * bet) \div 2
    IN  IF FullHand(hand) \/ FullHand(dealer) THEN better(FullHand, 5)
        ELSE IF Natural(hand) \/ Natural(dealer) THEN better(Natural, 3)
        ELSE IF d > 21 \/ p > d THEN bet
        ELSE IF p < d THEN -bet ELSE 0

Undecided == 1000     \* hand_results: None

HandProfit(g, i) ==
    IF g.results[i] # Undecided THEN g.results[i] ELSE Profit(g.hands[i], g.dealer, g.bets[i])

Both(g, f(_)) == IF Len(g.hands) = 1 THEN f(1) ELSE f(1) + f(2)

Outcome(g) ==
    [profit |-> g.side + Both(g, LAMBDA i : HandProfit(g, i)),
     earns |-> \E i \in DOMAIN g.hands : HandProfit(g, i) >= 0]

NoOutcome == [profit |-> 0, earns |-> FALSE]

(***************************************************************************)
(* The game.                                                               *)
(***************************************************************************)
Cost(stake) == stake.bet + stake.pair + stake.three

NoGame ==
    [sid |-> 0, stake |-> [bet |-> 0, pair |-> 0, three |-> 0], deducted |-> 0,
     hands |-> <<>>, bets |-> <<>>, results |-> <<>>, cur |-> 1, dealer |-> <<>>,
     side |-> 0, natural |-> FALSE, pending |-> NoOutcome, state |-> "none"]

\* natural: check_auto_bj settles it.  state: "play", "dealer" (resolve_dealer
\* runs), "ended" (_pending_settlement), "over".
NewGame(s, stake, hand, up, side) ==
    [NoGame EXCEPT !.sid = s, !.stake = stake, !.deducted = Cost(stake),
                   !.hands = <<hand>>, !.bets = <<stake.bet>>, !.results = <<Undecided>>,
                   !.dealer = <<up>>, !.side = side, !.natural = Natural(hand),
                   !.state = IF Natural(hand) THEN "dealer" ELSE "play"]

Hand(g) == g.hands[g.cur]

\* advance_hand: a hand that starts with 21 is passed.
Advance(g) ==
    LET next == [g EXCEPT !.cur = @ + 1]
    IN  IF g.cur = Len(g.hands) THEN [g EXCEPT !.state = "dealer"]
        ELSE IF Natural(Hand(next)) THEN [next EXCEPT !.state = "dealer"] ELSE next

\* update_buttons
Buttons(g) ==
    {"stand"}
    \union {b \in {"double"} : Len(Hand(g)) = 2}
    \union {b \in {"hit"} : Score(Hand(g)) <= 21}
    \union {b \in {"surrender"} : Len(Hand(g)) <= 2 /\ Len(g.hands) = 1}
    \union {b \in {"split"} : Len(Hand(g)) = 2 /\ Len(g.hands) = 1 /\ SameValue(Hand(g))}

NotTold == [kind |-> "none", net |-> 0]

Init ==
    /\ Store!PInit
    /\ by = [s \in Sids |-> "nobody"]
    /\ charged = [s \in Sids |-> 0]
    /\ offer = Stakes
    /\ game = NoGame
    /\ shown = {} /\ timer = FALSE
    /\ told = NotTold
    /\ exp = [s \in Sids |-> 0]
    /\ at = [w \in Runners |-> "idle"] /\ alive = TRUE

(***************************************************************************)
(* The store, as the game uses it.  The player's debits come one after     *)
(* another, so the balance a debit read before it waited is not above the  *)
(* one it finds.                                                           *)
(***************************************************************************)
Debit(s, n) ==
    /\ Store!PutIn(s, Player, n)
    /\ purse[Player] >= n
    /\ charged' = [charged EXCEPT ![s] = @ + n]
    /\ UNCHANGED by

NoCall == UNCHANGED <<store, by, charged>>

\* prepare refuses a negative credit, so the session stays as it is.
Prepare(s, credits, who) ==
    \/ /\ \A u \in Users : credits[u] >= 0
       /\ Store!Decide(s, credits)
       /\ by' = [by EXCEPT ![s] = who]
       /\ UNCHANGED charged
    \/ stage[s] # "open" /\ NoCall

Apply(s) ==
    \/ Store!PayOut(s) /\ UNCHANGED <<by, charged>>
    \/ stage[s] = "closed" /\ NoCall

(***************************************************************************)
(* SetupView.start, and the buttons of NewGameView and ConfirmAllInView.   *)
(***************************************************************************)
\* A start view works once, but a debit whose reply is lost leaves it open.
\* The view may be pressed from the moment its message is sent, which is when
\* check_auto_bj starts; that it disabled the buttons may fail to show.
\* Bound: a game starts when nothing of the last one runs.
Start(stake) ==
    /\ alive /\ \A w \in Runners : at[w] = "idle"
    /\ stake \in offer
    /\ \E s \in Sids :
        /\ charged[s] = 0 /\ \A t \in Sids : t < s => charged[t] > 0
        /\ Debit(s, Cost(stake))
        /\ \/ /\ offer' = {}
              /\ \E r1, r2, up \in Ranks : \E side \in SideProfits(<<r1, r2>>, up, stake) :
                     game' = NewGame(s, stake, <<r1, r2>>, up, side)
              /\ shown' \in {Buttons(game')} \union (IF game'.natural THEN {{}} ELSE {})
              /\ at' = [at EXCEPT !["auto"] = IF game'.natural THEN "dealer" ELSE "idle"]
              /\ timer' = TRUE /\ told' = NotTold
           \/ offer' \in {{}, offer} /\ UNCHANGED <<game, shown, timer, told, at>>
    /\ UNCHANGED <<exp, alive>>

\* The same stakes again, twice the bet, or everything without side bets.
Rematch(last) ==
    {stake \in {last, [last EXCEPT !.bet = 2 * @],
                [bet |-> purse[Player], pair |-> 0, three |-> 0]} : stake.bet \in 1 .. MaxBet}

(***************************************************************************)
(* The clicks of BlackjackGame.                                            *)
(***************************************************************************)
\* Mutant: a click does not look at a settlement that is to be retried.
MayPlayMutant(button) ==
    /\ alive /\ at["click"] = "idle"
    /\ timer /\ button \in shown /\ game.state \in {"play", "ended"}

MayPlay(button) ==
    /\ alive /\ at["click"] = "idle"
    /\ timer /\ button \in shown /\ game.state = "play"

\* The end of a click: the message shows the new buttons, or fails to; after
\* the last hand it goes on with resolve_dealer.
Shows(g) ==
    /\ game' = g
    /\ at' = [at EXCEPT !["click"] = IF g.state = "play" THEN "idle" ELSE "dealer"]
    /\ \/ /\ stage[g.sid] = "open"
          /\ shown' = IF g.state = "play" THEN Buttons(g) ELSE {}
       \/ UNCHANGED shown
    /\ UNCHANGED <<offer, timer, told, exp, alive>>

Drawn(g, card) == [g EXCEPT !.hands[g.cur] = Append(@, card)]

Busted(g) == Score(Hand(g)) > 21

Lost(g) == [g EXCEPT !.results[g.cur] = -g.bets[g.cur]]

\* Mutant: a full hand may still draw.
HitMutant ==
    /\ MayPlay("hit")
    /\ \E card \in Ranks :
        LET g == Drawn(game, card)
        IN  Shows(IF Busted(g) THEN Advance(Lost(g)) ELSE g)
    /\ NoCall

Hit ==
    /\ MayPlay("hit")
    /\ \E card \in Ranks :
        LET g == Drawn(game, card)
        IN  Shows(IF Busted(g) THEN Advance(Lost(g))
                  ELSE IF Len(Hand(g)) = Most THEN Advance(g) ELSE g)
    /\ NoCall

Stand == MayPlay("stand") /\ Shows(Advance(game)) /\ NoCall

Surrender ==
    /\ MayPlay("surrender")
    /\ Shows(Advance([game EXCEPT !.results[game.cur] = -(game.bets[game.cur] \div 2)]))
    /\ NoCall

\* Mutant: a refused debit is not noticed.
DoubleDownMutant ==
    /\ MayPlay("double")
    /\ LET extra == game.bets[game.cur] IN
        /\ Debit(game.sid, extra) \/ NoCall
        /\ \E card \in Ranks :
            LET paid == [game EXCEPT !.deducted = @ + extra, !.bets[game.cur] = @ + extra]
                g == Drawn(paid, card)
            IN  Shows(Advance(IF Busted(g) THEN Lost(g) ELSE g))

DoubleDown ==
    /\ MayPlay("double")
    /\ LET extra == game.bets[game.cur] IN
        /\ Debit(game.sid, extra)
        /\ \/ \E card \in Ranks :
                LET paid == [game EXCEPT !.deducted = @ + extra, !.bets[game.cur] = @ + extra]
                    g == Drawn(paid, card)
                IN  Shows(Advance(IF Busted(g) THEN Lost(g) ELSE g))
           \/ UNCHANGED <<view, at>>     \* the reply is lost

\* A message that was not edited may offer it again, after it was done.
Split ==
    /\ MayPlay("split")
    /\ Debit(game.sid, game.stake.bet)
    /\ \/ \E r1, r2 \in Ranks :
            LET bet == game.stake.bet
                g == [game EXCEPT !.deducted = @ + bet, !.bets = <<bet, bet>>,
                                  !.results = <<Undecided, Undecided>>,
                                  !.hands = <<<<game.hands[1][1], r1>>, <<game.hands[1][2], r2>>>>]
            IN  Shows(IF Score(Hand(g)) = 21 THEN Advance(g) ELSE g)
       \/ UNCHANGED <<view, at>>

\* on_timeout stands on every hand, or tries to settle once more.
OnTimeout ==
    /\ alive /\ at["click"] = "idle" /\ timer
    /\ game.state \in {"play", "dealer", "ended"}
    /\ timer' = FALSE
    /\ IF game.state = "ended"
       THEN at' = [at EXCEPT !["click"] = "settle"] /\ UNCHANGED game
       ELSE /\ game' = [game EXCEPT !.cur = Len(game.hands), !.state = "dealer"]
            /\ at' = [at EXCEPT !["click"] = "dealer"]
    /\ NoCall
    /\ UNCHANGED <<offer, shown, told, exp, alive>>

\* interaction_check: whatever is pressed, it tries to settle once more, even
\* while check_auto_bj does.
RetryClick ==
    /\ alive /\ at["click"] = "idle" /\ timer
    /\ game.state = "ended" /\ shown # {}
    /\ at' = [at EXCEPT !["click"] = "settle"]
    /\ NoCall /\ UNCHANGED view

(***************************************************************************)
(* resolve_dealer and end.                                                 *)
(***************************************************************************)
\* The hole card is drawn when it is turned over: nobody knows it before.
DealerDraws(g) ==
    \/ Len(g.dealer) = 1
    \/ /\ \E i \in DOMAIN g.results : g.results[i] = Undecided
       /\ Score(g.dealer) < 17 /\ Len(g.dealer) < Most

\* The first to come to the end keeps its result as the pending one.
ResolveDealer(w) ==
    /\ alive /\ at[w] = "dealer"
    /\ \/ /\ game.state = "dealer" /\ DealerDraws(game)
          /\ \E card \in Ranks : game' = [game EXCEPT !.dealer = Append(@, card)]
          /\ UNCHANGED at
       \/ /\ game.state = "dealer" /\ ~DealerDraws(game)
          /\ game' = [game EXCEPT !.pending = Outcome(game), !.state = "ended"]
          /\ at' = [at EXCEPT ![w] = "settle"]
       \/ /\ game.state \in {"ended", "over"}
          /\ at' = [at EXCEPT ![w] = IF game.state = "ended" THEN "settle" ELSE "idle"]
          /\ UNCHANGED game
    /\ NoCall
    /\ UNCHANGED <<offer, shown, timer, told, exp, alive>>

Credits(g) ==
    LET net == g.pending.profit
    IN  [u \in Users |-> IF u = Player THEN g.deducted + net
                         ELSE IF net < 0 THEN (-net * SharePercent) \div 100 ELSE 0]

EndPrepare(w) ==
    /\ at[w] = "settle"
    /\ Prepare(game.sid, Credits(game), "result")
    /\ at' = [at EXCEPT ![w] = "pay"]
    /\ UNCHANGED view

\* The view is stopped; what it still holds is for the last message.
EndApply(w) ==
    /\ at[w] = "pay"
    /\ Apply(game.sid)
    /\ game' = [NoGame EXCEPT !.sid = game.sid, !.stake = game.stake, !.state = "over",
                              !.deducted = game.deducted, !.natural = game.natural,
                              !.pending = game.pending]
    /\ timer' = FALSE
    /\ at' = [at EXCEPT ![w] = "final"]
    /\ UNCHANGED <<offer, shown, told, exp, alive>>

\* Mutant: the receipt is not asked whether the result was paid.
PaidMutant(s) == TRUE

\* receipt["results"] names the player.
Paid(s) == by[s] = "result"

\* The experience, unless the player is blacklisted, and the last message;
\* either may raise.
EndShow(w) ==
    /\ at[w] = "final"
    /\ at' = [at EXCEPT ![w] = "idle"]
    /\ \E given \in {0, 1} :
        /\ given = 1 => Paid(game.sid) /\ game.pending.earns
        /\ exp' = [exp EXCEPT ![game.sid] = @ + given]
    /\ \/ /\ told' = IF Paid(game.sid) THEN [kind |-> "final", net |-> game.pending.profit]
                     ELSE [kind |-> "interrupted", net |-> 0]
          /\ offer' = Rematch(game.stake)
          /\ shown' = {}
       \/ UNCHANGED <<told, offer, shown>>
    /\ NoCall
    /\ UNCHANGED <<game, timer, alive>>

\* A transaction of finish fails, or only its reply is lost.
AwaitRaises(w) ==
    /\ at[w] \in {"settle", "pay"}
    /\ at' = [at EXCEPT ![w] = "idle"]
    /\ \/ NoCall
       \/ at[w] = "settle" /\ Prepare(game.sid, Credits(game), "result")
       \/ at[w] = "pay" /\ Apply(game.sid)
    /\ UNCHANGED view

(***************************************************************************)
(* The recovery task, and a restart, which loses every view.               *)
(***************************************************************************)
RecoverDecide(s) ==
    /\ charged[s] > 0
    /\ Store!Decide(s, pot[s])
    /\ by' = [by EXCEPT ![s] = "recovery"]
    /\ UNCHANGED <<charged, view, at>>

RecoverPay(s) ==
    /\ Store!PayOut(s)
    /\ UNCHANGED <<by, charged, view, at>>

Restart ==
    /\ alive /\ alive' = FALSE
    /\ at' = [w \in Runners |-> "idle"]
    /\ game' = NoGame /\ offer' = {} /\ shown' = {} /\ timer' = FALSE
    /\ NoCall
    /\ UNCHANGED <<told, exp>>

Next ==
    \/ \E stake \in offer : Start(stake)
    \/ Hit \/ Stand \/ Surrender \/ DoubleDown \/ Split
    \/ OnTimeout \/ RetryClick
    \/ \E w \in Runners :
        ResolveDealer(w) \/ EndPrepare(w) \/ EndApply(w) \/ EndShow(w) \/ AwaitRaises(w)
    \/ \E s \in Sids : RecoverDecide(s) \/ RecoverPay(s)
    \/ Restart

Spec == Init /\ [][Next]_vars

-----------------------------------------------------------------------------
\* The types of the money, the game and its message.
TypeOK ==
    /\ purse \in [Users -> Nat]
    /\ pot \in [Sids -> [Users -> Nat]]
    /\ stage \in [Sids -> {"open", "decided", "closed"}]
    /\ due \in [Sids -> [Users -> Nat]]
    /\ by \in [Sids -> {"nobody", "result", "recovery"}]
    /\ {charged, exp} \subseteq [Sids -> Nat]
    /\ DOMAIN game.hands = DOMAIN game.bets /\ DOMAIN game.hands = DOMAIN game.results
    /\ game.state \in {"play", "dealer", "ended"} =>
                              /\ game.cur \in DOMAIN game.hands
                              /\ \A i \in DOMAIN game.hands : Len(game.hands[i]) \in 2 .. Most
                              /\ Len(game.dealer) \in 1 .. Most
    /\ game.state \in {"none", "play", "dealer", "ended", "over"}
    /\ shown \subseteq {"hit", "stand", "double", "split", "surrender"}
    /\ {timer, alive} \subseteq BOOLEAN
    /\ at \in [Runners -> {"idle", "dealer", "settle", "pay", "final"}]

OnTable(g) == Both(g, LAMBDA i : g.bets[i]) + g.stake.pair + g.stake.three

\* No hand plays for coins that were not charged, however a debit failed and
\* whatever an old message still offered (double_down, split); so the worst
\* result is never a negative credit, which prepare would refuse for ever.
StakesCoverTheHands ==
    game.state \in {"play", "dealer", "ended"} =>
        /\ stage[game.sid] = "open" => pot[game.sid][Player] >= game.deducted
        /\ game.deducted >= OnTable(game)

\* What the last message says was won or lost is what the player has more or
\* less than before the game, be it a result or a refund (end,
\* _build_embed_async).  The exception is a lost reply to an extra stake: a
\* result pays what the view knows of, and the rest is gone.
ToldIsPaid ==
    told.kind # "none" /\ game.state # "none" =>
        LET s == game.sid
            unknown == IF Paid(s) THEN charged[s] - game.deducted ELSE 0
        IN  /\ stage[s] = "closed"
            /\ due[s][Player] - charged[s] = told.net - unknown

\* A game gives experience only if its result was paid and not every hand
\* lost, and once unless it is a natural: the retries of end and the recovery
\* task add none.
ExpIsEarned ==
    \A s \in Sids : exp[s] > 0 =>
        /\ by[s] = "result"
        /\ game.sid = s => game.pending.earns /\ (game.natural \/ exp[s] = 1)

\* What the refusal of interaction_check promises, that nothing is settled
\* beside a natural's own settlement: no game gives experience twice.
ExpIsEarnedOnce == \A s \in Sids : exp[s] <= 1

\* Once the dealer's cards are seen, no click plays on or changes the result,
\* although the settlement may fail and old buttons be pressed
\* (interaction_check, end).
NoMoveAfterReveal ==
    [][game.state = "ended" /\ game' # game /\ alive' =>
        game'.state = "over" /\ game'.pending = game.pending]_vars

-----------------------------------------------------------------------------
(* The inductive invariant (BlackjackProofs).                              *)

\* What was charged for an open session is in its pot; a refund is what was
\* charged, and what was not charged was not decided.
Accounts ==
    /\ stage \in [Sids -> {"open", "decided", "closed"}]
    /\ by \in [Sids -> {"nobody", "result", "recovery"}]
    /\ charged \in [Sids -> Nat]
    /\ {pot, due} \subseteq [Sids -> [Users -> Int]]
    /\ \A s \in Sids :
        /\ stage[s] = "open" <=> by[s] = "nobody"
        /\ stage[s] = "open" => pot[s][Player] = charged[s]
        /\ by[s] = "recovery" => due[s][Player] = charged[s]
        /\ charged[s] = 0 => by[s] = "nobody"

GameFields ==
    {"sid", "stake", "deducted", "hands", "bets", "results", "cur", "dealer", "side",
     "natural", "pending", "state"}

GameType(g) ==
    /\ DOMAIN g = GameFields
    /\ g.stake \in [bet : Nat, pair : Nat, three : Nat]
    /\ g.deducted \in Nat
    /\ g.pending \in [profit : Int, earns : BOOLEAN]
    /\ g.state \in {"none", "play", "dealer", "ended", "over"}

\* One hand or two, each with a bet and a result, and all that is bet was
\* deducted; a hand plays for the first bet at least.
Covered(g) ==
    /\ g.hands \in Seq(Seq(Ranks)) /\ g.bets \in Seq(Nat) /\ g.results \in Seq(Int)
    /\ Len(g.hands) \in {1, 2} /\ Len(g.bets) = Len(g.hands) /\ Len(g.results) = Len(g.hands)
    /\ g.cur \in 1 .. Len(g.hands)
    /\ g.side \in Int
    /\ \A i \in 1 .. Len(g.hands) : Len(g.hands[i]) >= 2 /\ g.bets[i] >= g.stake.bet
    /\ g.deducted >= OnTable(g)

Running == game.state \in {"play", "dealer", "ended"}

\* While a game runs nothing else is offered, told or earned.
GameIsCovered ==
    /\ offer \subseteq [bet : Nat \ {0}, pair : Nat, three : Nat]
    /\ GameType(game)
    /\ game.state = "none" => game.sid \notin Sids
    /\ game.state # "none" =>
          game.sid \in Sids /\ charged[game.sid] > 0 /\ charged[game.sid] >= game.deducted
    /\ Running =>
          Covered(game) /\ offer = {} /\ told.kind = "none" /\ exp[game.sid] = 0

\* end settles a game that is ended, or was by the other runner, and what it
\* pays is the pending result.
ResultIsKept ==
    /\ at \in [Runners -> {"idle", "dealer", "settle", "pay", "final"}]
    /\ \A w \in Runners :
        /\ at[w] = "dealer" => game.state \in {"dealer", "ended", "over"}
        /\ at[w] \in {"settle", "pay"} => game.state \in {"ended", "over"}
        /\ at[w] = "pay" => stage[game.sid] # "open"
        /\ at[w] = "final" => game.state = "over"
    /\ game.state = "over" => stage[game.sid] = "closed"
    /\ game.state \in {"play", "dealer"} => by[game.sid] # "result"
    /\ game.state \in {"ended", "over"} /\ by[game.sid] = "result" =>
          due[game.sid][Player] = game.deducted + game.pending.profit

\* Only check_auto_bj runs beside a click, and it ends no other game.
OneRunner ==
    game.state # "none" /\ ~game.natural =>
        /\ at["auto"] = "idle"
        /\ game.state = "over" => at["click"] \in {"idle", "final"}
        /\ at["click"] = "final" => exp[game.sid] = 0

BInv ==
    /\ Accounts /\ GameIsCovered /\ ResultIsKept /\ OneRunner
    /\ exp \in [Sids -> Nat] /\ ExpIsEarned /\ ToldIsPaid

\* The cards of a game: no hand grows above the cards that win as they are,
\* and one that may still draw has fewer.
Fits(g) ==
    /\ g.dealer \in Seq(Ranks) /\ Len(g.dealer) \in 1 .. Most
    /\ \A i \in 1 .. Len(g.hands) : Len(g.hands[i]) \in 2 .. Most
    /\ g.state = "play" => \A i \in g.cur .. Len(g.hands) : Len(g.hands[i]) < Most

CardsFit ==
    IF Running THEN Fits(game)
    ELSE game.hands = <<>> /\ game.bets = <<>> /\ game.results = <<>>

\* Nobody owes, in a purse, a pot or a credit.
NobodyOwes ==
    /\ purse \in [Users -> Nat]
    /\ {pot, due} \subseteq [Sids -> [Users -> Nat]]

ViewType ==
    /\ shown \subseteq {"hit", "stand", "double", "split", "surrender"}
    /\ {timer, alive} \subseteq BOOLEAN
================================================================================
