---------------------------- MODULE BlackjackProofs ----------------------------
(***************************************************************************)
(* What TLAPS proves of Blackjack, for every player, stake, rank and       *)
(* number of sessions: BInv is inductive, and from it the hands are        *)
(* covered, the last message is true and experience comes from results.    *)
(***************************************************************************)
EXTENDS Blackjack, TLAPS, SequenceTheorems

USE UsersAssumption, PercentAssumption, BoundsAssumption

(***************************************************************************)
(* The rules: whatever is dealt, a profit is a whole number.               *)
(***************************************************************************)
\* resolve_dealer decides a hand with a whole number of coins.
LEMMA ProfitIsWhole ==
    ASSUME NEW hand, NEW dealer, NEW bet \in Nat
    PROVE Profit(hand, dealer, bet) \in Int
  BY DEF Profit

\* check_sidebets adds a whole number of coins.
LEMMA SideIsWhole ==
    ASSUME NEW hand, NEW up, NEW stake \in [bet : Nat, pair : Nat, three : Nat],
           NEW side \in SideProfits(hand, up, stake)
    PROVE side \in Int
<1>1. PICK p \in Int, t \in Int : side = p * stake.pair + t * stake.three
    BY DEF SideProfits
<1>2. p * stake.pair \in Int /\ t * stake.three \in Int
    OBVIOUS
<1>3. QED
    BY <1>1, <1>2

\* The outcome of a covered game is a whole number and a Boolean.
LEMMA OutcomeType ==
    ASSUME NEW g, Covered(g)
    PROVE Outcome(g) \in [profit : Int, earns : BOOLEAN]
<1>1. \A i \in 1 .. Len(g.hands) : HandProfit(g, i) \in Int
  <2> SUFFICES ASSUME NEW i \in 1 .. Len(g.hands) PROVE HandProfit(g, i) \in Int
      OBVIOUS
  <2> DEFINE bets == g.bets
             results == g.results
  <2>0. /\ bets \in Seq(Nat) /\ i \in 1 .. Len(bets)
        /\ results \in Seq(Int) /\ i \in 1 .. Len(results)
      BY DEF Covered
  <2>1. g.bets[i] \in Nat /\ g.results[i] \in Int
    <3> HIDE DEF bets, results
    <3>1. bets[i] \in Nat /\ results[i] \in Int
        BY <2>0
    <3>2. QED
        BY <3>1 DEF bets, results
  <2>2. Profit(g.hands[i], g.dealer, g.bets[i]) \in Int
      BY <2>1, ProfitIsWhole
  <2>3. QED
      BY <2>1, <2>2 DEF HandProfit
<1>2. Len(g.hands) \in {1, 2} /\ g.side \in Int
    BY DEF Covered
<1>3. HandProfit(g, 1) \in Int /\ (Len(g.hands) # 1 => HandProfit(g, 2) \in Int)
    BY <1>1, <1>2
<1>4. g.side + (IF Len(g.hands) = 1 THEN HandProfit(g, 1)
                ELSE HandProfit(g, 1) + HandProfit(g, 2)) \in Int
    BY <1>2, <1>3
<1>5. QED
    BY <1>4 DEF Outcome, Both

(***************************************************************************)
(* The hands: what a click does to a covered game leaves it covered.       *)
(***************************************************************************)
\* The bets of the hands and the side bets.
LEMMA TableIs ==
    ASSUME NEW g
    PROVE OnTable(g) = (IF Len(g.hands) = 1 THEN g.bets[1] ELSE g.bets[1] + g.bets[2])
                       + g.stake.pair + g.stake.three
  BY DEF OnTable, Both

\* Cards, results and the turn do not move the money on the table.
LEMMA SameTable ==
    ASSUME NEW g, NEW h, Covered(g),
           h.hands \in Seq(Seq(Ranks)), Len(h.hands) = Len(g.hands),
           \A i \in 1 .. Len(h.hands) : Len(h.hands[i]) >= 2,
           h.bets = g.bets, h.results \in Seq(Int), Len(h.results) = Len(g.hands),
           h.cur \in 1 .. Len(g.hands), h.side = g.side, h.stake = g.stake,
           h.deducted = g.deducted
    PROVE Covered(h)
<1>1. OnTable(h) = OnTable(g)
    BY TableIs
<1>2. h.deducted >= OnTable(h)
    BY <1>1 DEF Covered
<1>3. QED
    BY <1>2 DEF Covered

\* advance_hand: the next hand, or the dealer.
LEMMA AdvanceKeeps ==
    ASSUME NEW g, GameType(g), Covered(g), g.state = "play"
    PROVE LET h == Advance(g) IN
          /\ GameType(h) /\ Covered(h) /\ h.state \in {"play", "dealer"}
          /\ h.sid = g.sid /\ h.deducted = g.deducted
<1> DEFINE h == Advance(g)
           next == [g EXCEPT !.cur = @ + 1]
<1>1. CASE g.cur = Len(g.hands)
  <2>1. h = [g EXCEPT !.state = "dealer"]
      BY <1>1 DEF Advance
  <2>2. /\ GameType(h) /\ h.state = "dealer" /\ h.sid = g.sid /\ h.deducted = g.deducted
        /\ h.hands = g.hands /\ h.bets = g.bets /\ h.results = g.results
        /\ h.cur = g.cur /\ h.side = g.side /\ h.stake = g.stake
      BY <2>1 DEF GameType, GameFields
  <2> HIDE DEF h
  <2>3. Covered(h)
      BY <2>2, SameTable DEF Covered
  <2>4. QED
      BY <2>2, <2>3 DEF h
<1>2. CASE g.cur # Len(g.hands)
  <2>1. h = [next EXCEPT !.state = "dealer"] \/ h = next
      BY <1>2 DEF Advance
  <2>2. /\ GameType(next) /\ next.state = "play" /\ next.sid = g.sid
        /\ next.deducted = g.deducted /\ next.hands = g.hands /\ next.bets = g.bets
        /\ next.results = g.results /\ next.cur = g.cur + 1 /\ next.side = g.side
        /\ next.stake = g.stake
      BY DEF GameType, GameFields
  <2> HIDE DEF next
  <2>3. /\ GameType(h) /\ h.state \in {"play", "dealer"} /\ h.sid = g.sid
        /\ h.deducted = g.deducted /\ h.hands = g.hands /\ h.bets = g.bets
        /\ h.results = g.results /\ h.cur = g.cur + 1 /\ h.side = g.side
        /\ h.stake = g.stake
    <3>1. CASE h = next
        BY <2>2, <3>1
    <3>2. CASE h = [next EXCEPT !.state = "dealer"]
        BY <2>2, <3>2 DEF GameType, GameFields
    <3>3. QED
        BY <2>1, <3>1, <3>2
  <2> HIDE DEF h
  <2>4. h.cur \in 1 .. Len(g.hands)
    <3>1. g.cur \in 1 .. Len(g.hands) /\ Len(g.hands) \in {1, 2}
        BY DEF Covered
    <3>2. QED
        BY <1>2, <2>3, <3>1
  <2>5. Covered(h)
      BY <2>3, <2>4, SameTable DEF Covered
  <2>6. QED
      BY <2>3, <2>5 DEF h
<1>3. QED
    BY <1>1, <1>2

\* A hand draws a card.
LEMMA DrawnKeeps ==
    ASSUME NEW g, GameType(g), Covered(g), NEW card \in Ranks
    PROVE LET h == Drawn(g, card) IN
          /\ GameType(h) /\ Covered(h) /\ h.state = g.state
          /\ h.sid = g.sid /\ h.deducted = g.deducted
<1> DEFINE h == Drawn(g, card)
           hands == g.hands
           hand == Append(hands[g.cur], card)
           new == [hands EXCEPT ![g.cur] = hand]
<1>1. /\ hands \in Seq(Seq(Ranks)) /\ g.cur \in 1 .. Len(hands)
      /\ \A i \in 1 .. Len(hands) : Len(hands[i]) >= 2
    BY DEF Covered
<1>2. h = [g EXCEPT !.hands = new]
    BY DEF Drawn
<1>3. /\ GameType(h) /\ h.state = g.state /\ h.sid = g.sid /\ h.deducted = g.deducted
      /\ h.hands = new /\ h.bets = g.bets /\ h.results = g.results
      /\ h.cur = g.cur /\ h.side = g.side /\ h.stake = g.stake
  <2> HIDE DEF new
  <2> QED
      BY <1>2 DEF GameType, GameFields
<1> HIDE DEF h
<1>4. hand \in Seq(Ranks) /\ Len(hand) >= 2
  <2> HIDE DEF hands
  <2>1. hands[g.cur] \in Seq(Ranks) /\ Len(hands[g.cur]) >= 2
      BY <1>1
  <2>2. QED
      BY <2>1, AppendProperties
<1>5. new \in Seq(Seq(Ranks)) /\ Len(new) = Len(hands)
      /\ \A i \in 1 .. Len(new) : Len(new[i]) >= 2
  <2> HIDE DEF hand, hands
  <2>1. new \in Seq(Seq(Ranks)) /\ Len(new) = Len(hands)
        /\ \A i \in 1 .. Len(hands) : new[i] = IF i = g.cur THEN hand ELSE hands[i]
      BY <1>1, <1>4, ExceptSeq
  <2>2. QED
      BY <1>1, <1>4, <2>1
<1>6. Covered(h)
  <2> HIDE DEF new
  <2> QED
      BY <1>3, <1>5, SameTable DEF Covered
<1>7. QED
    BY <1>3, <1>6 DEF h

\* A hand gets a result before the dealer plays.
LEMMA DecidedKeeps ==
    ASSUME NEW g, GameType(g), Covered(g), NEW n \in Int
    PROVE LET h == [g EXCEPT !.results[g.cur] = n] IN
          /\ GameType(h) /\ Covered(h) /\ h.state = g.state
          /\ h.sid = g.sid /\ h.deducted = g.deducted
<1> DEFINE h == [g EXCEPT !.results[g.cur] = n]
           results == g.results
           new == [results EXCEPT ![g.cur] = n]
<1>1. /\ results \in Seq(Int) /\ g.cur \in 1 .. Len(results)
      /\ Len(results) = Len(g.hands)
    BY DEF Covered
<1>2. h = [g EXCEPT !.results = new]
    OBVIOUS
<1>3. /\ GameType(h) /\ h.state = g.state /\ h.sid = g.sid /\ h.deducted = g.deducted
      /\ h.hands = g.hands /\ h.bets = g.bets /\ h.results = new
      /\ h.cur = g.cur /\ h.side = g.side /\ h.stake = g.stake
  <2> HIDE DEF new, h
  <2> QED
      BY <1>2 DEF GameType, GameFields
<1> HIDE DEF h
<1>4. new \in Seq(Int) /\ Len(new) = Len(results)
  <2> HIDE DEF results
  <2> QED
      BY <1>1, ExceptSeq
<1>5. Covered(h)
  <2> HIDE DEF new
  <2> QED
      BY <1>1, <1>3, <1>4, SameTable DEF Covered
<1>6. QED
    BY <1>3, <1>5 DEF h

\* The first hand is covered by what was debited for it.
LEMMA NewGameIsCovered ==
    ASSUME NEW s, NEW stake \in [bet : Nat, pair : Nat, three : Nat],
           NEW r1 \in Ranks, NEW r2 \in Ranks, NEW up, NEW side \in Int
    PROVE LET h == NewGame(s, stake, <<r1, r2>>, up, side) IN
          /\ GameType(h) /\ Covered(h) /\ h.state \in {"play", "dealer"}
          /\ h.sid = s /\ h.deducted = Cost(stake) /\ (h.natural => h.state = "dealer")
<1> DEFINE h == NewGame(s, stake, <<r1, r2>>, up, side)
<1>1. /\ GameType(h) /\ h.state \in {"play", "dealer"} /\ h.sid = s
      /\ h.deducted = Cost(stake) /\ h.hands = <<<<r1, r2>>>> /\ h.bets = <<stake.bet>>
      /\ h.results = <<Undecided>> /\ h.cur = 1 /\ h.side = side /\ h.stake = stake
      /\ h.natural => h.state = "dealer"
  <2> DEFINE natural == Natural(<<r1, r2>>)
             state == IF natural THEN "dealer" ELSE "play"
  <2>1. state \in {"play", "dealer"} /\ (natural => state = "dealer")
      OBVIOUS
  <2> HIDE DEF natural, state
  <2>2. h = [NoGame EXCEPT !.sid = s, !.stake = stake, !.deducted = Cost(stake),
                   !.hands = <<<<r1, r2>>>>, !.bets = <<stake.bet>>,
                   !.results = <<Undecided>>, !.dealer = <<up>>, !.side = side,
                   !.natural = natural, !.state = state]
      BY DEF NewGame, natural, state
  <2>0. DOMAIN NoGame = GameFields /\ NoGame.cur = 1 /\ NoGame.pending = NoOutcome
      BY DEF NoGame, GameFields
  <2>3. Cost(stake) \in Nat
      BY DEF Cost
  <2>4. NoOutcome \in [profit : Int, earns : BOOLEAN]
      BY DEF NoOutcome
  <2> HIDE DEF h
  <2>5. QED
      BY <2>0, <2>1, <2>2, <2>3, <2>4 DEF GameType, GameFields
<1> HIDE DEF h
<1>2. /\ h.hands \in Seq(Seq(Ranks)) /\ Len(h.hands) = 1 /\ Len(h.hands[1]) = 2
    BY <1>1
<1>3. /\ h.bets \in Seq(Nat) /\ Len(h.bets) = 1 /\ h.bets[1] = stake.bet
      /\ h.results \in Seq(Int) /\ Len(h.results) = 1
    BY <1>1 DEF Undecided
<1>4. h.deducted >= OnTable(h)
  <2>1. OnTable(h) = h.bets[1] + h.stake.pair + h.stake.three
      BY <1>2, TableIs
  <2>2. OnTable(h) = stake.bet + stake.pair + stake.three
      BY <1>1, <1>3, <2>1
  <2>3. h.deducted = stake.bet + stake.pair + stake.three
      BY <1>1 DEF Cost
  <2>4. stake.bet \in Nat /\ stake.pair \in Nat /\ stake.three \in Nat
      OBVIOUS
  <2>5. QED
      BY <2>2, <2>3, <2>4
<1>5. h.bets[1] >= h.stake.bet
    BY <1>1, <1>3
<1>6. Covered(h)
  <2>1. \A i \in 1 .. Len(h.hands) : Len(h.hands[i]) >= 2 /\ h.bets[i] >= h.stake.bet
    <3> SUFFICES ASSUME NEW i \in 1 .. Len(h.hands)
                 PROVE Len(h.hands[i]) >= 2 /\ h.bets[i] >= h.stake.bet
        OBVIOUS
    <3>1. i = 1
        BY <1>2
    <3>2. Len(h.hands[1]) >= 2
        BY <1>2
    <3>3. QED
        BY <1>5, <3>1, <3>2
  <2>2. h.cur \in 1 .. Len(h.hands) /\ h.side \in Int
      BY <1>1, <1>2
  <2>3. QED
      BY <1>2, <1>3, <1>4, <2>1, <2>2 DEF Covered
<1>7. QED
    BY <1>1, <1>6 DEF h

\* The hand doubles its bet, which was debited.
LEMMA DoubledKeeps ==
    ASSUME NEW g, GameType(g), Covered(g)
    PROVE LET extra == g.bets[g.cur]
              h == [g EXCEPT !.deducted = @ + extra, !.bets[g.cur] = @ + extra] IN
          /\ extra \in Nat
          /\ GameType(h) /\ Covered(h) /\ h.state = g.state
          /\ h.sid = g.sid /\ h.deducted = g.deducted + extra
<1> DEFINE bets == g.bets
           extra == bets[g.cur]
           new == [bets EXCEPT ![g.cur] = extra + extra]
           h == [g EXCEPT !.deducted = @ + extra, !.bets = new]
<1>1. /\ bets \in Seq(Nat) /\ g.cur \in 1 .. Len(bets) /\ Len(bets) = Len(g.hands)
      /\ Len(bets) \in {1, 2} /\ \A i \in 1 .. Len(bets) : bets[i] >= g.stake.bet
    BY DEF Covered
<1>2. extra \in Nat
  <2> HIDE DEF bets
  <2> QED
      BY <1>1
<1>3. [g EXCEPT !.deducted = @ + extra, !.bets[g.cur] = @ + extra] = h
    BY DEF GameType, GameFields
<1>4. /\ GameType(h) /\ h.state = g.state /\ h.sid = g.sid
      /\ h.deducted = g.deducted + extra /\ h.hands = g.hands /\ h.bets = new
      /\ h.results = g.results /\ h.cur = g.cur /\ h.side = g.side /\ h.stake = g.stake
  <2> HIDE DEF new, extra
  <2> QED
      BY <1>2 DEF GameType, GameFields
<1> HIDE DEF h
<1>5. /\ new \in Seq(Nat) /\ Len(new) = Len(bets)
      /\ \A i \in 1 .. Len(bets) : new[i] = IF i = g.cur THEN extra + extra ELSE bets[i]
  <2> HIDE DEF bets, extra
  <2>1. extra + extra \in Nat
      BY <1>2
  <2>2. QED
      BY <1>1, <2>1, ExceptSeq
<1>6. h.deducted >= OnTable(h)
  <2> DEFINE side == g.stake.pair + g.stake.three
             table(b) == IF Len(bets) = 1 THEN b[1] ELSE b[1] + b[2]
  <2>1. OnTable(g) = table(bets) + side /\ OnTable(h) = table(new) + side
    <3>1. OnTable(g) = table(bets) + g.stake.pair + g.stake.three
        BY <1>1, TableIs
    <3>2. OnTable(h) = table(new) + g.stake.pair + g.stake.three
        BY <1>1, <1>4, TableIs
    <3>3. table(bets) \in Nat /\ table(new) \in Nat
      <4> HIDE DEF bets, new
      <4> QED
          BY <1>1, <1>5
    <3>4. g.stake.pair \in Nat /\ g.stake.three \in Nat
        BY DEF GameType
    <3> HIDE DEF table
    <3>5. QED
        BY <3>1, <3>2, <3>3, <3>4
  <2>2. table(new) = table(bets) + extra
    <3> DEFINE b1 == bets[1]
               b2 == bets[2]
    <3>1. CASE Len(bets) = 1
      <4>1. g.cur = 1 /\ extra = bets[1] /\ new[1] = extra + extra
          BY <1>1, <1>5, <3>1
      <4>2. QED
          BY <3>1, <4>1
    <3>2. CASE Len(bets) = 2
      <4>1. CASE g.cur = 1
        <5>1. /\ extra = bets[1] /\ new[1] = extra + extra /\ new[2] = bets[2]
              /\ bets[2] \in Nat
          <6>1. extra = bets[1]
              BY <4>1
          <6> HIDE DEF bets, new, extra
          <6>2. 1 \in 1 .. Len(bets) /\ 2 \in 1 .. Len(bets)
              BY <3>2
          <6>3. QED
              BY <1>1, <1>5, <4>1, <6>1, <6>2
        <5> HIDE DEF bets, new
        <5>2. QED
            BY <1>2, <3>2, <5>1
      <4>2. CASE g.cur = 2
        <5>1. /\ extra = bets[2] /\ new[2] = extra + extra /\ new[1] = bets[1]
              /\ bets[1] \in Nat
          <6> HIDE DEF bets, new
          <6> QED
              BY <1>1, <1>5, <3>2, <4>2
        <5> HIDE DEF bets, new
        <5>2. QED
            BY <1>2, <3>2, <5>1
      <4>3. QED
          BY <1>1, <3>2, <4>1, <4>2
    <3>3. QED
        BY <1>1, <3>1, <3>2
  <2>3. table(bets) \in Nat /\ side \in Nat /\ g.deducted \in Nat
        /\ g.deducted >= OnTable(g)
    <3>1. table(bets) \in Nat
      <4> HIDE DEF bets
      <4> QED
          BY <1>1
    <3>2. g.stake.pair \in Nat /\ g.stake.three \in Nat /\ g.deducted \in Nat
        BY DEF GameType
    <3>3. g.deducted >= OnTable(g)
        BY DEF Covered
    <3> HIDE DEF table
    <3>4. QED
        BY <3>1, <3>2, <3>3
  <2> HIDE DEF table, side, extra
  <2>4. QED
      BY <1>2, <1>4, <2>1, <2>2, <2>3
<1>7. /\ h.hands \in Seq(Seq(Ranks)) /\ h.results \in Seq(Int)
      /\ Len(h.hands) \in {1, 2} /\ Len(h.results) = Len(h.hands)
      /\ h.cur \in 1 .. Len(h.hands) /\ h.side \in Int
      /\ \A i \in 1 .. Len(h.hands) : Len(h.hands[i]) >= 2
    BY <1>4 DEF Covered
<1>8. \A i \in 1 .. Len(h.hands) : h.bets[i] >= h.stake.bet
  <2>1. g.stake.bet \in Nat
      BY DEF GameType
  <2>2. \A i \in 1 .. Len(bets) : new[i] >= g.stake.bet
    <3> HIDE DEF bets, new, extra
    <3>1. \A i \in 1 .. Len(bets) : bets[i] \in Nat
        BY <1>1
    <3>2. extra >= g.stake.bet
        BY <1>1 DEF extra
    <3>3. extra + extra >= g.stake.bet
        BY <1>2, <2>1, <3>2
    <3>4. QED
        BY <1>1, <1>5, <3>3
  <2> HIDE DEF new, bets
  <2>3. QED
      BY <1>1, <1>4, <2>2
<1>9. Covered(h)
  <2> HIDE DEF new, bets
  <2> QED
      BY <1>1, <1>4, <1>5, <1>6, <1>7, <1>8 DEF Covered
<1>10. QED
    BY <1>2, <1>3, <1>4, <1>9

\* A pair becomes two hands.
TwoHands(g, r1, r2) ==
    [g EXCEPT !.deducted = @ + g.stake.bet, !.bets = <<g.stake.bet, g.stake.bet>>,
              !.results = <<Undecided, Undecided>>,
              !.hands = <<<<g.hands[1][1], r1>>, <<g.hands[1][2], r2>>>>]

\* A second bet was debited for them.
LEMMA SplitKeeps ==
    ASSUME NEW g, GameType(g), Covered(g), NEW r1 \in Ranks, NEW r2 \in Ranks
    PROVE LET h == TwoHands(g, r1, r2) IN
          /\ g.stake.bet \in Nat
          /\ GameType(h) /\ Covered(h) /\ h.state = g.state
          /\ h.sid = g.sid /\ h.deducted = g.deducted + g.stake.bet
<1> DEFINE bet == g.stake.bet
           hand1 == <<g.hands[1][1], r1>>
           hand2 == <<g.hands[1][2], r2>>
           h == [g EXCEPT !.deducted = @ + bet, !.bets = <<bet, bet>>,
                          !.results = <<Undecided, Undecided>>, !.hands = <<hand1, hand2>>]
<1>0. h = TwoHands(g, r1, r2)
    BY DEF TwoHands
<1>1. bet \in Nat
    BY DEF GameType
<1>2. /\ GameType(h) /\ h.state = g.state /\ h.sid = g.sid
      /\ h.deducted = g.deducted + bet /\ h.hands = <<hand1, hand2>>
      /\ h.bets = <<bet, bet>> /\ h.results = <<Undecided, Undecided>>
      /\ h.cur = g.cur /\ h.side = g.side /\ h.stake = g.stake
  <2> HIDE DEF bet, hand1, hand2
  <2> QED
      BY <1>1 DEF GameType, GameFields
<1> HIDE DEF h
<1>3. hand1 \in Seq(Ranks) /\ Len(hand1) = 2 /\ hand2 \in Seq(Ranks) /\ Len(hand2) = 2
  <2> DEFINE first == g.hands[1]
  <2>1. first \in Seq(Ranks) /\ Len(first) >= 2
    <3> DEFINE hands == g.hands
    <3>1. hands \in Seq(Seq(Ranks)) /\ 1 \in 1 .. Len(hands)
          /\ \A i \in 1 .. Len(hands) : Len(hands[i]) >= 2
        BY DEF Covered
    <3> HIDE DEF hands
    <3>2. hands[1] \in Seq(Ranks) /\ Len(hands[1]) >= 2
        BY <3>1
    <3>3. QED
        BY <3>2 DEF hands
  <2> HIDE DEF first
  <2>2. Len(first) \in Nat /\ first[1] \in Ranks /\ first[2] \in Ranks
      BY <2>1
  <2>3. QED
      BY <2>2 DEF first
<1>4. h.deducted >= OnTable(h)
  <2>1. /\ Len(g.hands) \in {1, 2} /\ g.deducted \in Nat /\ g.deducted >= OnTable(g)
        /\ g.stake.pair \in Nat /\ g.stake.three \in Nat
      BY DEF Covered, GameType
  <2>2. /\ g.bets[1] >= bet /\ g.bets[1] \in Nat
        /\ Len(g.hands) = 2 => g.bets[2] \in Nat
    <3> DEFINE bets == g.bets
    <3>1. bets \in Seq(Nat) /\ Len(bets) = Len(g.hands)
          /\ \A i \in 1 .. Len(bets) : bets[i] >= bet
        BY DEF Covered
    <3> HIDE DEF bets, bet
    <3>2. /\ bets[1] >= bet /\ bets[1] \in Nat
          /\ Len(g.hands) = 2 => bets[2] \in Nat
        BY <2>1, <3>1
    <3>3. QED
        BY <3>2 DEF bets
  <2>3. OnTable(g) >= bet + g.stake.pair + g.stake.three
    <3>1. OnTable(g) = (IF Len(g.hands) = 1 THEN g.bets[1] ELSE g.bets[1] + g.bets[2])
                       + g.stake.pair + g.stake.three
        BY TableIs
    <3> HIDE DEF bet
    <3>2. QED
        BY <1>1, <2>1, <2>2, <3>1
  <2>4. OnTable(h) = bet + bet + g.stake.pair + g.stake.three
    <3>1. Len(h.hands) = 2 /\ h.bets[1] = bet /\ h.bets[2] = bet
      <4> HIDE DEF bet, hand1, hand2
      <4> QED
          BY <1>2
    <3>2. OnTable(h) = h.bets[1] + h.bets[2] + h.stake.pair + h.stake.three
      <4>1. Len(h.hands) # 1
          BY <3>1
      <4>2. QED
          BY <4>1, TableIs
    <3>3. h.stake = g.stake
        BY <1>2
    <3> HIDE DEF bet
    <3>4. QED
        BY <3>1, <3>2, <3>3
  <2>5. OnTable(g) \in Int
      BY <2>1, <2>2, TableIs
  <2> HIDE DEF bet
  <2>6. QED
      BY <1>1, <1>2, <2>1, <2>3, <2>4, <2>5
<1>5. /\ h.hands \in Seq(Seq(Ranks)) /\ Len(h.hands) = 2
      /\ \A i \in 1 .. Len(h.hands) : Len(h.hands[i]) >= 2
  <2>1. h.hands = <<hand1, hand2>>
      BY <1>2
  <2> HIDE DEF hand1, hand2
  <2>2. \A i \in 1 .. 2 : Len(<<hand1, hand2>>[i]) >= 2
      BY <1>3
  <2>3. QED
      BY <1>3, <2>1, <2>2
<1>6. /\ h.bets \in Seq(Nat) /\ Len(h.bets) = 2
      /\ \A i \in 1 .. 2 : h.bets[i] >= h.stake.bet
      /\ h.results \in Seq(Int) /\ Len(h.results) = 2
  <2>1. h.stake.bet = bet
      BY <1>2
  <2> HIDE DEF bet
  <2>2. QED
      BY <1>1, <1>2, <2>1 DEF Undecided
<1>7. h.cur \in 1 .. 2 /\ h.side \in Int
    BY <1>2 DEF Covered
<1>8. Covered(h)
    BY <1>4, <1>5, <1>6, <1>7 DEF Covered
<1>9. QED
    BY <1>0, <1>1, <1>2, <1>8

(***************************************************************************)
(* The store.                                                              *)
(***************************************************************************)
\* What a step does to the sessions: nothing that was decided changes, and
\* only a game that is ended is decided by its result.
StoreStep ==
    /\ Accounts'
    /\ \A s \in Sids :
        /\ charged'[s] >= charged[s]
        /\ charged'[s] # charged[s] => by[s] = "nobody"
        /\ by[s] # "nobody" => by'[s] = by[s] /\ due'[s] = due[s]
        /\ stage[s] = "closed" => stage'[s] = "closed"
        /\ by'[s] = "result" =>
              \/ by[s] = "result"
              \/ /\ game.state = "ended" /\ s = game.sid
                 /\ due'[s][Player] = game.deducted + game.pending.profit

\* A step that leaves the sessions alone.
LEMMA NoCallIsStep ==
    ASSUME Accounts, NoCall
    PROVE StoreStep
<1>1. /\ stage' = stage /\ by' = by /\ charged' = charged /\ pot' = pot /\ due' = due
    BY DEF NoCall, store
<1>2. Accounts'
    BY <1>1 DEF Accounts
<1>3. \A s \in Sids : charged[s] \in Nat
    BY DEF Accounts
<1>4. QED
    BY <1>1, <1>2, <1>3 DEF StoreStep

\* A debit is for an open session.
LEMMA DebitIsStep ==
    ASSUME Accounts, NEW s \in Sids, NEW n \in Nat, Debit(s, n)
    PROVE /\ StoreStep
          /\ by[s] = "nobody" /\ by' = by /\ charged' = [charged EXCEPT ![s] = @ + n]
<1>1. /\ stage[s] = "open" /\ stage' = stage /\ due' = due /\ by' = by
      /\ pot' = [pot EXCEPT ![s][Player] = @ + n]
      /\ charged' = [charged EXCEPT ![s] = @ + n]
    BY DEF Debit, Store!PutIn
<1>2. /\ charged \in [Sids -> Nat] /\ pot \in [Sids -> [Users -> Int]]
      /\ due \in [Sids -> [Users -> Int]]
      /\ \A t \in Sids :
          /\ stage[t] = "open" <=> by[t] = "nobody"
          /\ stage[t] = "open" => pot[t][Player] = charged[t]
          /\ by[t] = "recovery" => due[t][Player] = charged[t]
          /\ charged[t] = 0 => by[t] = "nobody"
    BY DEF Accounts
<1>3. Player \in Users
    BY DEF Users
<1>4. /\ charged' \in [Sids -> Nat]
      /\ \A t \in Sids : charged'[t] = IF t = s THEN charged[t] + n ELSE charged[t]
    BY <1>1, <1>2
<1>5. /\ pot' \in [Sids -> [Users -> Int]]
      /\ \A t \in Sids : pot'[t][Player] = IF t = s THEN pot[t][Player] + n ELSE pot[t][Player]
    BY <1>1, <1>2, <1>3
<1>6. \A t \in Sids :
          /\ stage'[t] = "open" <=> by'[t] = "nobody"
          /\ stage'[t] = "open" => pot'[t][Player] = charged'[t]
          /\ by'[t] = "recovery" => due'[t][Player] = charged'[t]
          /\ charged'[t] = 0 => by'[t] = "nobody"
    BY <1>1, <1>2, <1>4, <1>5
<1>7. Accounts'
    BY <1>1, <1>2, <1>4, <1>5, <1>6 DEF Accounts
<1>8. QED
    BY <1>1, <1>2, <1>4, <1>7 DEF StoreStep

\* An open session is decided, by its result or by a refund of its pot.
LEMMA DecideIsStep ==
    ASSUME Accounts, NEW s \in Sids, charged[s] > 0,
           NEW credits \in [Users -> Int], NEW who \in {"result", "recovery"},
           Store!Decide(s, credits), by' = [by EXCEPT ![s] = who], UNCHANGED charged,
           who = "recovery" => credits = pot[s],
           who = "result" => /\ game.state = "ended" /\ s = game.sid
                             /\ credits[Player] = game.deducted + game.pending.profit
    PROVE StoreStep /\ stage'[s] # "open"
<1>1. /\ stage[s] = "open" /\ stage' = [stage EXCEPT ![s] = "decided"]
      /\ due' = [due EXCEPT ![s] = credits] /\ pot' = pot /\ charged' = charged
    BY DEF Store!Decide
<1>2. /\ charged \in [Sids -> Nat] /\ due \in [Sids -> [Users -> Int]]
      /\ pot \in [Sids -> [Users -> Int]]
      /\ stage \in [Sids -> {"open", "decided", "closed"}]
      /\ by \in [Sids -> {"nobody", "result", "recovery"}]
      /\ \A t \in Sids :
          /\ stage[t] = "open" <=> by[t] = "nobody"
          /\ stage[t] = "open" => pot[t][Player] = charged[t]
          /\ by[t] = "recovery" => due[t][Player] = charged[t]
          /\ charged[t] = 0 => by[t] = "nobody"
    BY DEF Accounts
<1>3. /\ stage'[s] = "decided" /\ by'[s] = who /\ due'[s] = credits
      /\ \A t \in Sids \ {s} : stage'[t] = stage[t] /\ by'[t] = by[t] /\ due'[t] = due[t]
      /\ stage' \in [Sids -> {"open", "decided", "closed"}]
      /\ by' \in [Sids -> {"nobody", "result", "recovery"}]
      /\ due' \in [Sids -> [Users -> Int]]
    BY <1>1, <1>2
<1>4. \A t \in Sids :
          /\ stage'[t] = "open" <=> by'[t] = "nobody"
          /\ stage'[t] = "open" => pot'[t][Player] = charged'[t]
          /\ by'[t] = "recovery" => due'[t][Player] = charged'[t]
          /\ charged'[t] = 0 => by'[t] = "nobody"
  <2> SUFFICES ASSUME NEW t \in Sids
               PROVE /\ stage'[t] = "open" <=> by'[t] = "nobody"
                     /\ stage'[t] = "open" => pot'[t][Player] = charged'[t]
                     /\ by'[t] = "recovery" => due'[t][Player] = charged'[t]
                     /\ charged'[t] = 0 => by'[t] = "nobody"
      OBVIOUS
  <2>1. CASE t = s
      BY <1>1, <1>2, <1>3, <2>1
  <2>2. CASE t # s
      BY <1>1, <1>2, <1>3, <2>2
  <2>3. QED
      BY <2>1, <2>2
<1>5. Accounts'
    BY <1>1, <1>2, <1>3, <1>4 DEF Accounts
<1>6. ASSUME NEW t \in Sids
      PROVE /\ charged'[t] >= charged[t]
            /\ charged'[t] # charged[t] => by[t] = "nobody"
            /\ by[t] # "nobody" => by'[t] = by[t] /\ due'[t] = due[t]
            /\ stage[t] = "closed" => stage'[t] = "closed"
            /\ by'[t] = "result" =>
                  \/ by[t] = "result"
                  \/ /\ game.state = "ended" /\ t = game.sid
                     /\ due'[t][Player] = game.deducted + game.pending.profit
  <2>1. CASE t = s
      BY <1>1, <1>2, <1>3, <2>1
  <2>2. CASE t # s
      BY <1>1, <1>2, <1>3, <2>2
  <2>3. QED
      BY <2>1, <2>2
<1>7. QED
    BY <1>3, <1>5, <1>6 DEF StoreStep

\* A decided session is paid.
LEMMA PayOutIsStep ==
    ASSUME Accounts, NEW s \in Sids, Store!PayOut(s), UNCHANGED <<by, charged>>
    PROVE StoreStep /\ stage'[s] = "closed"
<1>1. /\ stage[s] = "decided" /\ stage' = [stage EXCEPT ![s] = "closed"]
      /\ due' = due /\ by' = by /\ charged' = charged
      /\ pot' = [pot EXCEPT ![s] = [u \in Users |-> 0]]
    BY DEF Store!PayOut, Store!Nothing
<1>2. /\ charged \in [Sids -> Nat] /\ due \in [Sids -> [Users -> Int]]
      /\ pot \in [Sids -> [Users -> Int]]
      /\ stage \in [Sids -> {"open", "decided", "closed"}]
      /\ by \in [Sids -> {"nobody", "result", "recovery"}]
      /\ \A t \in Sids :
          /\ stage[t] = "open" <=> by[t] = "nobody"
          /\ stage[t] = "open" => pot[t][Player] = charged[t]
          /\ by[t] = "recovery" => due[t][Player] = charged[t]
          /\ charged[t] = 0 => by[t] = "nobody"
    BY DEF Accounts
<1>3. /\ pot' \in [Sids -> [Users -> Int]]
      /\ \A t \in Sids \ {s} : pot'[t] = pot[t] /\ stage'[t] = stage[t]
      /\ stage'[s] = "closed"
      /\ stage' \in [Sids -> {"open", "decided", "closed"}]
    BY <1>1, <1>2
<1>4. \A t \in Sids :
          /\ stage'[t] = "open" <=> by'[t] = "nobody"
          /\ stage'[t] = "open" => pot'[t][Player] = charged'[t]
          /\ by'[t] = "recovery" => due'[t][Player] = charged'[t]
          /\ charged'[t] = 0 => by'[t] = "nobody"
  <2> SUFFICES ASSUME NEW t \in Sids
               PROVE /\ stage'[t] = "open" <=> by'[t] = "nobody"
                     /\ stage'[t] = "open" => pot'[t][Player] = charged'[t]
                     /\ by'[t] = "recovery" => due'[t][Player] = charged'[t]
                     /\ charged'[t] = 0 => by'[t] = "nobody"
      OBVIOUS
  <2>1. CASE t = s
      BY <1>1, <1>2, <1>3, <2>1
  <2>2. CASE t # s
      BY <1>1, <1>2, <1>3, <2>2
  <2>3. QED
      BY <2>1, <2>2
<1>5. Accounts'
    BY <1>1, <1>2, <1>3, <1>4 DEF Accounts
<1>6. \A t \in Sids :
          /\ charged[t] \in Nat
          /\ charged'[t] = charged[t] /\ by'[t] = by[t] /\ due'[t] = due[t]
          /\ stage[t] = "closed" => stage'[t] = "closed"
    BY <1>1, <1>2, <1>3
<1>7. QED
    BY <1>3, <1>5, <1>6 DEF StoreStep

\* The first transaction of end.
LEMMA PrepareIsStep ==
    ASSUME BInv, game.state \in {"ended", "over"},
           Prepare(game.sid, Credits(game), "result")
    PROVE StoreStep /\ stage'[game.sid] # "open"
<1>1. /\ Accounts /\ game.sid \in Sids /\ charged[game.sid] > 0
      /\ game.deducted \in Nat /\ game.pending.profit \in Int
      /\ game.state = "over" => stage[game.sid] = "closed"
    BY DEF BInv, GameIsCovered, GameType, ResultIsKept
<1>2. CASE stage[game.sid] # "open" /\ NoCall
  <2>1. stage' = stage
      BY <1>2 DEF NoCall, store
  <2>2. QED
      BY <1>1, <1>2, <2>1, NoCallIsStep
<1>3. CASE /\ Store!Decide(game.sid, Credits(game))
           /\ by' = [by EXCEPT ![game.sid] = "result"]
           /\ UNCHANGED charged
  <2>1. SharePercent \in Int
      OBVIOUS
  <2>2. /\ Credits(game) \in [Users -> Int]
        /\ Credits(game)[Player] = game.deducted + game.pending.profit
    <3> DEFINE net == game.pending.profit
               all == game.deducted + net
               share == IF net < 0 THEN (-net * SharePercent) \div 100 ELSE 0
    <3>1. all \in Int
        BY <1>1
    <3>2. share \in Int
        BY <1>1, <2>1
    <3>3. Credits(game) = [u \in Users |-> IF u = Player THEN all ELSE share]
        BY DEF Credits
    <3> HIDE DEF all, share
    <3>4. Credits(game) \in [Users -> Int] /\ Credits(game)[Player] = all
        BY <3>1, <3>2, <3>3 DEF Users
    <3>5. QED
        BY <3>4 DEF all
  <2>3. game.state = "ended"
      BY <1>1, <1>3 DEF Store!Decide
  <2>4. QED
      BY <1>1, <1>3, <2>2, <2>3, DecideIsStep
<1>4. QED
    BY <1>2, <1>3 DEF Prepare

\* The second transaction of end.
LEMMA ApplyIsStep ==
    ASSUME BInv, game.state \in {"ended", "over"}, Apply(game.sid)
    PROVE StoreStep /\ stage'[game.sid] = "closed"
<1>1. Accounts /\ game.sid \in Sids
    BY DEF BInv, GameIsCovered
<1>2. CASE stage[game.sid] = "closed" /\ NoCall
  <2>1. stage' = stage
      BY <1>2 DEF NoCall, store
  <2>2. QED
      BY <1>1, <1>2, <2>1, NoCallIsStep
<1>3. CASE Store!PayOut(game.sid) /\ UNCHANGED <<by, charged>>
    BY <1>1, <1>3, PayOutIsStep
<1>4. QED
    BY <1>2, <1>3 DEF Apply

(***************************************************************************)
(* The views.                                                              *)
(***************************************************************************)
\* Nothing that was decided, told or earned is lost by what the store does.
LEMMA SettledStays ==
    ASSUME BInv, StoreStep
    PROVE \A s \in Sids :
            /\ charged[s] \in Nat /\ charged'[s] \in Nat /\ charged'[s] >= charged[s]
            /\ stage[s] # "open" =>
                  /\ stage'[s] # "open" /\ by'[s] = by[s] /\ due'[s] = due[s]
                  /\ charged'[s] = charged[s]
            /\ stage[s] = "closed" => stage'[s] = "closed"
            /\ exp[s] > 0 => by'[s] = "result"
            /\ charged[s] = 0 => exp[s] = 0
<1> SUFFICES ASSUME NEW s \in Sids
             PROVE /\ charged[s] \in Nat /\ charged'[s] \in Nat /\ charged'[s] >= charged[s]
                   /\ stage[s] # "open" =>
                         /\ stage'[s] # "open" /\ by'[s] = by[s] /\ due'[s] = due[s]
                         /\ charged'[s] = charged[s]
                   /\ stage[s] = "closed" => stage'[s] = "closed"
                   /\ exp[s] > 0 => by'[s] = "result"
                   /\ charged[s] = 0 => exp[s] = 0
    OBVIOUS
<1>1. /\ charged[s] \in Nat /\ exp[s] \in Nat
      /\ stage[s] = "open" <=> by[s] = "nobody"
      /\ charged[s] = 0 => by[s] = "nobody"
      /\ exp[s] > 0 => by[s] = "result"
    BY DEF BInv, Accounts, ExpIsEarned
<1>2. charged'[s] \in Nat /\ (stage'[s] = "open" <=> by'[s] = "nobody")
    BY DEF StoreStep, Accounts
<1>3. /\ charged'[s] >= charged[s] /\ (charged'[s] # charged[s] => by[s] = "nobody")
      /\ by[s] # "nobody" => by'[s] = by[s] /\ due'[s] = due[s]
      /\ stage[s] = "closed" => stage'[s] = "closed"
    BY DEF StoreStep
<1>4. QED
    BY <1>1, <1>2, <1>3

\* The money told of a game stays true while the game does not change.
LEMMA ToldStays ==
    ASSUME BInv, StoreStep, game' = game, told' = told
    PROVE ToldIsPaid'
<1> SUFFICES ASSUME told.kind # "none", game.state # "none"
             PROVE LET s == game.sid
                       unknown == IF by'[s] = "result" THEN charged'[s] - game.deducted ELSE 0
                   IN  /\ stage'[s] = "closed"
                       /\ due'[s][Player] - charged'[s] = told.net - unknown
    BY DEF ToldIsPaid, Paid
<1> DEFINE s == game.sid
<1>1. s \in Sids
    BY DEF BInv, GameIsCovered
<1>2. /\ stage[s] = "closed"
      /\ due[s][Player] - charged[s] =
            told.net - (IF by[s] = "result" THEN charged[s] - game.deducted ELSE 0)
    BY DEF BInv, ToldIsPaid, Paid
<1>3. /\ stage'[s] = "closed" /\ by'[s] = by[s] /\ due'[s] = due[s]
      /\ charged'[s] = charged[s]
    BY <1>1, <1>2, SettledStays
<1>4. QED
    BY <1>2, <1>3

\* The game, its message and the experience stay, a runner goes on or stops;
\* end is entered for a game that is ended, and check_auto_bj by no step.
RunnersGoOn ==
    /\ at' \in [Runners -> {"idle", "dealer", "settle", "pay", "final"}]
    /\ at["auto"] = "idle" => at'["auto"] = "idle"
    /\ \A w \in Runners :
        \/ at'[w] \in {at[w], "idle"}
        \/ at'[w] = "settle" /\ game.state = "ended"
        \/ at'[w] = "pay" /\ at[w] = "settle" /\ stage'[game.sid] # "open"

LEMMA ViewStays ==
    ASSUME BInv, StoreStep, game' = game, told' = told, exp' = exp, offer' \subseteq offer,
           RunnersGoOn
    PROVE BInv'
<1>1. ToldIsPaid'
    BY ToldStays
<1>2. GameIsCovered /\ ResultIsKept /\ exp \in [Sids -> Nat] /\ ExpIsEarned
    BY DEF BInv
<1>3. ExpIsEarned' /\ exp' \in [Sids -> Nat]
    BY <1>2, SettledStays DEF ExpIsEarned
<1>4. GameIsCovered'
  <2>1. game.state # "none" =>
          /\ charged'[game.sid] > 0 /\ charged'[game.sid] >= game.deducted
    <3>1. game.deducted \in Int
        BY <1>2 DEF GameIsCovered, GameType
    <3>2. game.state # "none" =>
            /\ game.sid \in Sids /\ charged[game.sid] > 0
            /\ charged[game.sid] >= game.deducted
        BY <1>2 DEF GameIsCovered
    <3> SUFFICES ASSUME game.state # "none"
                 PROVE charged'[game.sid] > 0 /\ charged'[game.sid] >= game.deducted
        OBVIOUS
    <3>3. /\ charged[game.sid] \in Nat /\ charged'[game.sid] \in Nat
          /\ charged'[game.sid] >= charged[game.sid]
        BY <3>2, SettledStays
    <3>4. QED
        BY <3>1, <3>2, <3>3
  <2>2. QED
      BY <1>2, <2>1 DEF GameIsCovered, Running
<1>5. ResultIsKept'
  <2>1. game.state # "none" => game.sid \in Sids
      BY <1>2 DEF GameIsCovered
  <2>2. /\ game.state = "over" => stage'[game.sid] = "closed"
        /\ game.state # "none" /\ stage[game.sid] # "open" => stage'[game.sid] # "open"
      BY <1>2, <2>1, SettledStays DEF ResultIsKept
  <2>0. ASSUME NEW w \in Runners
        PROVE /\ at'[w] = "dealer" => game.state \in {"dealer", "ended", "over"}
              /\ at'[w] \in {"settle", "pay"} => game.state \in {"ended", "over"}
              /\ at'[w] = "pay" => stage'[game.sid] # "open"
              /\ at'[w] = "final" => game.state = "over"
    <3>1. /\ at[w] = "dealer" => game.state \in {"dealer", "ended", "over"}
          /\ at[w] \in {"settle", "pay"} => game.state \in {"ended", "over"}
          /\ at[w] = "pay" => stage[game.sid] # "open"
          /\ at[w] = "final" => game.state = "over"
        BY <1>2 DEF ResultIsKept
    <3>2. \/ at'[w] \in {at[w], "idle"}
          \/ at'[w] = "settle" /\ game.state = "ended"
          \/ at'[w] = "pay" /\ at[w] = "settle" /\ stage'[game.sid] # "open"
        BY DEF RunnersGoOn
    <3>3. QED
        BY <2>2, <3>1, <3>2
  <2>3. game.state \in {"play", "dealer"} => by'[game.sid] # "result"
      BY <1>2, <2>1 DEF ResultIsKept, StoreStep
  <2>4. game.state \in {"ended", "over"} /\ by'[game.sid] = "result" =>
          due'[game.sid][Player] = game.deducted + game.pending.profit
    <3>1. CASE by[game.sid] = "result"
        BY <1>2, <2>1, <3>1 DEF ResultIsKept, StoreStep
    <3>2. CASE by[game.sid] # "result"
        BY <2>1, <3>2 DEF StoreStep
    <3>3. QED
        BY <3>1, <3>2
  <2>5. at' \in [Runners -> {"idle", "dealer", "settle", "pay", "final"}]
      BY DEF RunnersGoOn
  <2>6. QED
      BY <2>0, <2>2, <2>3, <2>4, <2>5 DEF ResultIsKept
<1>6. Accounts'
    BY DEF StoreStep
<1>7. OneRunner'
  <2> SUFFICES ASSUME game.state # "none", ~game.natural
               PROVE /\ at'["auto"] = "idle"
                     /\ game.state = "over" => at'["click"] \in {"idle", "final"}
                     /\ at'["click"] = "final" => exp[game.sid] = 0
      BY DEF OneRunner
  <2>1. /\ at["auto"] = "idle"
        /\ game.state = "over" => at["click"] \in {"idle", "final"}
        /\ at["click"] = "final" => exp[game.sid] = 0
      BY DEF BInv, OneRunner
  <2>2. \/ at'["click"] \in {at["click"], "idle"}
        \/ at'["click"] = "settle" /\ game.state = "ended"
        \/ at'["click"] = "pay" /\ at["click"] = "settle"
      BY DEF RunnersGoOn, Runners
  <2>3. at'["auto"] = "idle"
      BY <2>1 DEF RunnersGoOn
  <2>4. QED
      BY <2>1, <2>2, <2>3
<1>8. QED
    BY <1>1, <1>3, <1>4, <1>5, <1>6, <1>7 DEF BInv

\* No runner moves.
LEMMA RunnersStay == ASSUME BInv, at' = at PROVE RunnersGoOn
<1>1. at \in [Runners -> {"idle", "dealer", "settle", "pay", "final"}]
    BY DEF BInv, ResultIsKept
<1>2. QED
    BY <1>1 DEF RunnersGoOn

\* One runner moves.
LEMMA RunnerMoves ==
    ASSUME BInv, NEW w \in Runners, NEW step \in {"idle", "settle", "pay"},
           at' = [at EXCEPT ![w] = step],
           step # "idle" => w = "click" \/ at[w] # "idle",
           step = "settle" => game.state = "ended",
           step = "pay" => at[w] = "settle" /\ stage'[game.sid] # "open"
    PROVE RunnersGoOn
<1>1. at \in [Runners -> {"idle", "dealer", "settle", "pay", "final"}]
    BY DEF BInv, ResultIsKept
<1>2. /\ at' \in [Runners -> {"idle", "dealer", "settle", "pay", "final"}]
      /\ at'[w] = step /\ \A v \in Runners \ {w} : at'[v] = at[v]
    BY <1>1
<1>3. at["auto"] = "idle" => at'["auto"] = "idle"
    BY <1>2 DEF Runners
<1>4. QED
    BY <1>2, <1>3 DEF RunnersGoOn

\* While a game is played a runner is in resolve_dealer at most, and
\* check_auto_bj only for a natural.
DealerRuns ==
    /\ at' \in [Runners -> {"idle", "dealer"}]
    /\ \A w \in Runners : at'[w] = "dealer" => game'.state = "dealer"
    /\ at'["auto"] = "idle" \/ game'.natural

\* A game that is played goes on, covered by what was charged.
LEMMA GameGoesOn ==
    ASSUME BInv, StoreStep, game.state \in {"play", "dealer"},
           GameType(game'), Covered(game'), game'.state \in {"play", "dealer"},
           game'.sid = game.sid, charged'[game.sid] >= game'.deducted,
           offer' = offer, told' = told, exp' = exp, DealerRuns
    PROVE BInv'
<1>1. /\ game.sid \in Sids /\ charged[game.sid] > 0 /\ offer = {} /\ told.kind = "none"
      /\ exp[game.sid] = 0 /\ exp \in [Sids -> Nat] /\ ExpIsEarned
      /\ by[game.sid] # "result"
    BY DEF BInv, GameIsCovered, ResultIsKept, Running
<1>2. ToldIsPaid'
    BY <1>1 DEF ToldIsPaid
<1>3. ExpIsEarned' /\ exp' \in [Sids -> Nat]
    BY <1>1, SettledStays DEF ExpIsEarned
<1>4. charged'[game.sid] > 0 /\ by'[game.sid] # "result"
  <2>1. /\ charged[game.sid] \in Nat /\ charged'[game.sid] \in Nat
        /\ charged'[game.sid] >= charged[game.sid]
      BY <1>1, SettledStays
  <2>2. charged'[game.sid] > 0
      BY <1>1, <2>1
  <2>3. by'[game.sid] # "result"
      BY <1>1 DEF StoreStep
  <2>4. QED
      BY <2>2, <2>3
<1>5. GameIsCovered'
    BY <1>1, <1>4 DEF GameIsCovered, Running
<1>6. ResultIsKept' /\ OneRunner'
  <2>1. /\ at' \in [Runners -> {"idle", "dealer"}]
        /\ \A w \in Runners : at'[w] \in {"idle", "dealer"}
        /\ \A w \in Runners : at'[w] = "dealer" => game'.state = "dealer"
        /\ at'["click"] \in {"idle", "dealer"}
        /\ at'["auto"] = "idle" \/ game'.natural
      BY DEF DealerRuns, Runners
  <2>2. ResultIsKept'
      BY <1>4, <2>1 DEF ResultIsKept
  <2>3. OneRunner'
      BY <2>1 DEF OneRunner
  <2>4. QED
      BY <2>2, <2>3
<1>7. Accounts'
    BY DEF StoreStep
<1>8. QED
    BY <1>2, <1>3, <1>5, <1>6, <1>7 DEF BInv

(***************************************************************************)
(* The clicks.                                                             *)
(***************************************************************************)
\* What a hand bets, it may lose.
LEMMA CurrentBet ==
    ASSUME NEW g, Covered(g)
    PROVE g.bets[g.cur] \in Nat
<1> DEFINE bets == g.bets
<1>1. bets \in Seq(Nat) /\ g.cur \in 1 .. Len(bets)
    BY DEF Covered
<1> HIDE DEF bets
<1>2. bets[g.cur] \in Nat
    BY <1>1
<1>3. QED
    BY <1>2 DEF bets

\* A hand above 21 is lost.
LEMMA LostKeeps ==
    ASSUME NEW g, GameType(g), Covered(g)
    PROVE LET h == Lost(g) IN
          /\ GameType(h) /\ Covered(h) /\ h.state = g.state
          /\ h.sid = g.sid /\ h.deducted = g.deducted
<1>1. -g.bets[g.cur] \in Int
    BY CurrentBet
<1>2. QED
    BY <1>1, DecidedKeeps DEF Lost

\* What a click may assume of the game.
LEMMA PlayedGame ==
    ASSUME BInv, game.state \in {"play", "dealer", "ended"}
    PROVE /\ Accounts /\ GameType(game) /\ Covered(game) /\ game.sid \in Sids
          /\ charged[game.sid] \in Nat /\ charged[game.sid] >= game.deducted
          /\ game.deducted \in Nat
  BY DEF BInv, Accounts, GameIsCovered, GameType, Running

\* The end of a click.
LEMMA ShowsKeeps ==
    ASSUME BInv, game.state = "play", StoreStep,
           NEW g, GameType(g), Covered(g), g.state \in {"play", "dealer"}, g.sid = game.sid,
           charged'[game.sid] >= g.deducted, Shows(g)
    PROVE BInv'
<1>1. /\ game' = g /\ offer' = offer /\ told' = told /\ exp' = exp
      /\ at' = [at EXCEPT !["click"] = IF g.state = "play" THEN "idle" ELSE "dealer"]
    BY DEF Shows
<1>2. at \in [Runners -> {"idle", "dealer", "settle", "pay", "final"}] /\ at["auto"] = "idle"
    BY DEF BInv, ResultIsKept, Runners
<1>3. DealerRuns
  <2>1. /\ at'["auto"] = "idle" /\ at'["click"] \in {"idle", "dealer"}
        /\ at'["click"] = "dealer" => g.state = "dealer"
        /\ at' \in [Runners -> {"idle", "dealer", "settle", "pay", "final"}]
      BY <1>1, <1>2 DEF Runners
  <2>2. QED
      BY <1>1, <2>1 DEF DealerRuns, Runners
<1>4. QED
    BY <1>1, <1>3, GameGoesOn

\* The same, for a click that is not charged.
LEMMA FreeClickKeeps ==
    ASSUME BInv, game.state = "play", NoCall,
           NEW g, GameType(g), Covered(g), g.state \in {"play", "dealer"}, g.sid = game.sid,
           g.deducted = game.deducted, Shows(g)
    PROVE BInv'
<1>1. Accounts /\ charged[game.sid] >= game.deducted
    BY PlayedGame
<1>2. StoreStep /\ charged' = charged
    BY <1>1, NoCallIsStep DEF NoCall
<1>3. QED
    BY <1>1, <1>2, ShowsKeeps

\* A card more, and the hand may be over.
LEMMA HitKeeps == ASSUME BInv, Hit PROVE BInv'
<1>1. game.state = "play" /\ NoCall
    BY DEF Hit, MayPlay
<1>2. GameType(game) /\ Covered(game)
    BY <1>1, PlayedGame
<1>3. PICK card \in Ranks :
        LET g == Drawn(game, card)
        IN  Shows(IF Busted(g) THEN Advance(Lost(g))
                  ELSE IF Len(Hand(g)) = Most THEN Advance(g) ELSE g)
    BY DEF Hit
<1> DEFINE g == Drawn(game, card)
<1>4. /\ GameType(g) /\ Covered(g) /\ g.state = "play"
      /\ g.sid = game.sid /\ g.deducted = game.deducted
    BY <1>1, <1>2, DrawnKeeps
<1>5. Shows(Advance(Lost(g))) \/ Shows(Advance(g)) \/ Shows(g)
    BY <1>3
<1> HIDE DEF g
<1>6. CASE Shows(Advance(Lost(g)))
  <2> DEFINE h == Lost(g)
  <2>1. /\ GameType(h) /\ Covered(h) /\ h.state = "play"
        /\ h.sid = game.sid /\ h.deducted = game.deducted
      BY <1>4, LostKeeps
  <2> HIDE DEF h
  <2>2. QED
      BY <1>1, <1>6, <2>1, AdvanceKeeps, FreeClickKeeps DEF h
<1>7. CASE Shows(Advance(g))
    BY <1>1, <1>4, <1>7, AdvanceKeeps, FreeClickKeeps
<1>8. CASE Shows(g)
    BY <1>1, <1>4, <1>8, FreeClickKeeps
<1>9. QED
    BY <1>5, <1>6, <1>7, <1>8

\* The next hand, or the dealer.
LEMMA StandKeeps == ASSUME BInv, Stand PROVE BInv'
<1>1. game.state = "play" /\ NoCall /\ Shows(Advance(game))
    BY DEF Stand, MayPlay
<1>2. GameType(game) /\ Covered(game)
    BY <1>1, PlayedGame
<1>3. QED
    BY <1>1, <1>2, AdvanceKeeps, FreeClickKeeps

\* Half the bet is lost, and the hand is over.
LEMMA SurrenderKeeps == ASSUME BInv, Surrender PROVE BInv'
<1> DEFINE n == -(game.bets[game.cur] \div 2)
           h == [game EXCEPT !.results[game.cur] = n]
<1>1. game.state = "play" /\ NoCall /\ Shows(Advance(h))
    BY DEF Surrender, MayPlay
<1>2. GameType(game) /\ Covered(game)
    BY <1>1, PlayedGame
<1>3. n \in Int
  <2>1. game.bets[game.cur] \in Nat
      BY <1>2, CurrentBet
  <2>2. QED
      BY <2>1
<1>4. /\ GameType(h) /\ Covered(h) /\ h.state = "play"
      /\ h.sid = game.sid /\ h.deducted = game.deducted
  <2> HIDE DEF n
  <2> QED
      BY <1>1, <1>2, <1>3, DecidedKeeps
<1> HIDE DEF h
<1>5. QED
    BY <1>1, <1>4, AdvanceKeeps, FreeClickKeeps

\* A debit that commits with its reply lost leaves the view alone.
LEMMA LostReplyKeeps ==
    ASSUME BInv, StoreStep, UNCHANGED <<view, at>>
    PROVE BInv'
<1>1. game' = game /\ told' = told /\ exp' = exp /\ offer' = offer
    BY DEF view
<1>2. QED
    BY <1>1, RunnersStay, ViewStays

\* The bet is charged again before its card is drawn.
LEMMA DoubleDownKeeps == ASSUME BInv, DoubleDown PROVE BInv'
<1> DEFINE extra == game.bets[game.cur]
           paid == [game EXCEPT !.deducted = @ + extra, !.bets[game.cur] = @ + extra]
<1>1. game.state = "play" /\ Debit(game.sid, extra)
    BY DEF DoubleDown, MayPlay
<1>2. /\ Accounts /\ GameType(game) /\ Covered(game) /\ game.sid \in Sids
      /\ charged[game.sid] \in Nat /\ charged[game.sid] >= game.deducted
      /\ game.deducted \in Nat
    BY <1>1, PlayedGame
<1>3. /\ extra \in Nat /\ GameType(paid) /\ Covered(paid) /\ paid.state = "play"
      /\ paid.sid = game.sid /\ paid.deducted = game.deducted + extra
    BY <1>1, <1>2, DoubledKeeps
<1>4. StoreStep /\ charged' = [charged EXCEPT ![game.sid] = @ + extra]
    BY <1>1, <1>2, <1>3, DebitIsStep
<1>5. charged'[game.sid] >= paid.deducted
  <2> HIDE DEF extra, paid
  <2>1. charged'[game.sid] = charged[game.sid] + extra
      BY <1>2, <1>4 DEF Accounts
  <2>2. QED
      BY <1>2, <1>3, <2>1
<1>6. CASE \E card \in Ranks :
             LET g == Drawn(paid, card)
             IN  Shows(Advance(IF Busted(g) THEN Lost(g) ELSE g))
  <2> HIDE DEF paid
  <2>1. PICK card \in Ranks :
          LET g == Drawn(paid, card) IN Shows(Advance(IF Busted(g) THEN Lost(g) ELSE g))
      BY <1>6
  <2> DEFINE g == Drawn(paid, card)
             h == IF Busted(g) THEN Lost(g) ELSE g
  <2>2. /\ GameType(g) /\ Covered(g) /\ g.state = "play"
        /\ g.sid = game.sid /\ g.deducted = paid.deducted
      BY <1>3, DrawnKeeps
  <2>3. Shows(Advance(h))
      BY <2>1
  <2> HIDE DEF g
  <2>4. /\ GameType(h) /\ Covered(h) /\ h.state = "play"
        /\ h.sid = game.sid /\ h.deducted = paid.deducted
      BY <2>2, LostKeeps
  <2> HIDE DEF h
  <2>5. /\ GameType(Advance(h)) /\ Covered(Advance(h)) /\ Advance(h).state \in {"play", "dealer"}
        /\ Advance(h).sid = game.sid /\ Advance(h).deducted = paid.deducted
      BY <2>4, AdvanceKeeps
  <2>6. QED
      BY <1>1, <1>4, <1>5, <2>3, <2>5, ShowsKeeps
<1>7. CASE UNCHANGED <<view, at>>
    BY <1>1, <1>4, <1>7, LostReplyKeeps
<1>8. QED
    BY <1>6, <1>7 DEF DoubleDown

\* The second hand is charged before it is dealt.
LEMMA SplitClickKeeps == ASSUME BInv, Split PROVE BInv'
<1> DEFINE bet == game.stake.bet
<1>1. game.state = "play" /\ Debit(game.sid, bet)
    BY DEF Split, MayPlay
<1>2. /\ Accounts /\ GameType(game) /\ Covered(game) /\ game.sid \in Sids
      /\ charged[game.sid] \in Nat /\ charged[game.sid] >= game.deducted
      /\ game.deducted \in Nat
    BY <1>1, PlayedGame
<1>3. bet \in Nat
    BY <1>2 DEF GameType
<1>4. StoreStep /\ charged' = [charged EXCEPT ![game.sid] = @ + bet]
    BY <1>1, <1>2, <1>3, DebitIsStep
<1>5. charged'[game.sid] >= game.deducted + bet
  <2> HIDE DEF bet
  <2>1. charged'[game.sid] = charged[game.sid] + bet
      BY <1>2, <1>4 DEF Accounts
  <2>2. QED
      BY <1>2, <1>3, <2>1
<1>6. ASSUME NEW r1 \in Ranks, NEW r2 \in Ranks,
             LET h == TwoHands(game, r1, r2)
             IN  Shows(IF Score(Hand(h)) = 21 THEN Advance(h) ELSE h)
      PROVE BInv'
  <2> DEFINE g == TwoHands(game, r1, r2)
  <2>1. /\ GameType(g) /\ Covered(g) /\ g.state = "play"
        /\ g.sid = game.sid /\ g.deducted = game.deducted + bet
      BY <1>1, <1>2, SplitKeeps
  <2>2. Shows(Advance(g)) \/ Shows(g)
      BY <1>6
  <2> HIDE DEF g
  <2>3. CASE Shows(g)
      BY <1>1, <1>4, <1>5, <2>1, <2>3, ShowsKeeps
  <2>4. CASE Shows(Advance(g))
    <3>1. /\ GameType(Advance(g)) /\ Covered(Advance(g))
          /\ Advance(g).state \in {"play", "dealer"}
          /\ Advance(g).sid = game.sid /\ Advance(g).deducted = game.deducted + bet
        BY <2>1, AdvanceKeeps
    <3>2. QED
        BY <1>1, <1>4, <1>5, <2>4, <3>1, ShowsKeeps
  <2>5. QED
      BY <2>2, <2>3, <2>4
<1>7. CASE UNCHANGED <<view, at>>
    BY <1>1, <1>4, <1>7, LostReplyKeeps
<1>8. QED
  <2>1. \/ UNCHANGED <<view, at>>
        \/ \E r1, r2 \in Ranks :
              LET h == TwoHands(game, r1, r2)
              IN  Shows(IF Score(Hand(h)) = 21 THEN Advance(h) ELSE h)
      BY DEF Split, TwoHands
  <2>2. QED
      BY <1>6, <1>7, <2>1

(***************************************************************************)
(* The start, the dealer and the settlement.                               *)
(***************************************************************************)
LEMMA StartKeeps == ASSUME BInv, NEW stake \in offer, Start(stake) PROVE BInv'
<1> DEFINE cost == Cost(stake)
<1>1. /\ Accounts /\ GameIsCovered /\ ResultIsKept
      /\ exp \in [Sids -> Nat] /\ ExpIsEarned
    BY DEF BInv
<1>2. stake \in [bet : Nat \ {0}, pair : Nat, three : Nat]
    BY <1>1 DEF GameIsCovered
<1>3. stake.bet \in Nat \ {0} /\ stake.pair \in Nat /\ stake.three \in Nat
    BY <1>2
<1>4. cost \in Nat /\ cost > 0
    BY <1>3 DEF Cost
<1>5. PICK s \in Sids :
        /\ charged[s] = 0
        /\ Debit(s, cost)
        /\ \/ /\ offer' = {}
              /\ \E r1, r2, up \in Ranks : \E side \in SideProfits(<<r1, r2>>, up, stake) :
                     game' = NewGame(s, stake, <<r1, r2>>, up, side)
              /\ at' = [at EXCEPT !["auto"] = IF game'.natural THEN "dealer" ELSE "idle"]
              /\ told' = NotTold
           \/ offer' \in {{}, offer} /\ UNCHANGED <<game, told, at>>
    BY DEF Start
<1>6. exp' = exp /\ at["click"] = "idle"
    BY DEF Start, Runners
<1> HIDE DEF cost
<1>7. /\ StoreStep /\ by[s] = "nobody" /\ by' = by
      /\ charged' = [charged EXCEPT ![s] = @ + cost]
    BY <1>1, <1>4, <1>5, DebitIsStep
<1>8. CASE offer' \in {{}, offer} /\ UNCHANGED <<game, told, at>>
    BY <1>6, <1>7, <1>8, RunnersStay, ViewStays
<1>9. CASE /\ offer' = {}
           /\ \E r1, r2, up \in Ranks : \E side \in SideProfits(<<r1, r2>>, up, stake) :
                  game' = NewGame(s, stake, <<r1, r2>>, up, side)
           /\ at' = [at EXCEPT !["auto"] = IF game'.natural THEN "dealer" ELSE "idle"]
           /\ told' = NotTold
  <2>0. PICK r1 \in Ranks, r2 \in Ranks, up \in Ranks :
            \E side \in SideProfits(<<r1, r2>>, up, stake) :
                game' = NewGame(s, stake, <<r1, r2>>, up, side)
      BY <1>9
  <2>1. PICK side \in SideProfits(<<r1, r2>>, up, stake) :
            game' = NewGame(s, stake, <<r1, r2>>, up, side)
      BY <2>0
  <2>2. stake \in [bet : Nat, pair : Nat, three : Nat]
      BY <1>2
  <2>3. side \in Int
      BY <2>2, SideIsWhole
  <2>4. /\ GameType(game') /\ Covered(game') /\ game'.state \in {"play", "dealer"}
        /\ game'.sid = s /\ game'.deducted = cost
        /\ game'.natural => game'.state = "dealer"
      BY <2>1, <2>2, <2>3, NewGameIsCovered DEF cost
  <2>5. charged'[s] > 0 /\ charged'[s] >= cost
    <3>1. charged'[s] = 0 + cost
        BY <1>1, <1>5, <1>7 DEF Accounts
    <3>2. QED
        BY <1>4, <3>1
  <2>6. exp[s] = 0
      BY <1>5, <1>7, SettledStays
  <2>7. ExpIsEarned' /\ exp' \in [Sids -> Nat]
    <3>1. \A t \in Sids : exp[t] > 0 => by'[t] = "result" /\ t # s
        BY <1>7, <2>6, SettledStays
    <3>2. QED
        BY <1>1, <1>6, <2>4, <3>1 DEF ExpIsEarned
  <2>8. told'.kind = "none"
      BY <1>9 DEF NotTold
  <2>9. GameIsCovered'
      BY <1>6, <1>9, <2>4, <2>5, <2>6, <2>8 DEF GameIsCovered, Running
  <2>10. ResultIsKept' /\ OneRunner'
    <3>1. /\ at \in [Runners -> {"idle", "dealer", "settle", "pay", "final"}]
          /\ at' = [at EXCEPT !["auto"] = IF game'.natural THEN "dealer" ELSE "idle"]
        BY <1>1, <1>9 DEF ResultIsKept
    <3>2. /\ at' \in [Runners -> {"idle", "dealer", "settle", "pay", "final"}]
          /\ at'["click"] = "idle"
          /\ at'["auto"] = IF game'.natural THEN "dealer" ELSE "idle"
        BY <1>6, <3>1 DEF Runners
    <3>3. OneRunner'
        BY <3>2 DEF OneRunner
    <3>4. \A w \in Runners :
            at'[w] \in {"idle", "dealer"} /\ (at'[w] = "dealer" => game'.state = "dealer")
        BY <2>4, <3>2 DEF Runners
    <3>5. ResultIsKept'
        BY <1>6, <1>7, <2>4, <3>2, <3>4 DEF ResultIsKept
    <3>6. QED
        BY <3>3, <3>5
  <2>11. ToldIsPaid'
      BY <2>8 DEF ToldIsPaid
  <2>12. Accounts'
      BY <1>7 DEF StoreStep
  <2>13. QED
      BY <2>7, <2>9, <2>10, <2>11, <2>12 DEF BInv
<1>10. QED
    BY <1>5, <1>8, <1>9

\* Every hand stands, or end is tried again.
LEMMA OnTimeoutKeeps == ASSUME BInv, OnTimeout PROVE BInv'
<1>1. /\ game.state \in {"play", "dealer", "ended"} /\ NoCall
      /\ offer' = offer /\ told' = told /\ exp' = exp
    BY DEF OnTimeout
<1>2. /\ Accounts /\ GameType(game) /\ Covered(game) /\ charged[game.sid] >= game.deducted
    BY <1>1, PlayedGame
<1>3. StoreStep /\ charged' = charged
    BY <1>1, <1>2, NoCallIsStep DEF NoCall
<1>4. CASE game.state = "ended"
  <2>1. at' = [at EXCEPT !["click"] = "settle"] /\ game' = game
      BY <1>4 DEF OnTimeout
  <2>2. RunnersGoOn
      BY <1>4, <2>1, RunnerMoves DEF Runners
  <2>3. QED
      BY <1>1, <1>3, <2>1, <2>2, ViewStays
<1>5. CASE game.state \in {"play", "dealer"}
  <2>1. /\ at' = [at EXCEPT !["click"] = "dealer"]
        /\ game' = [game EXCEPT !.cur = Len(game.hands), !.state = "dealer"]
      BY <1>1, <1>5 DEF OnTimeout
  <2>2. /\ GameType(game') /\ game'.state = "dealer" /\ game'.sid = game.sid
        /\ game'.deducted = game.deducted /\ game'.hands = game.hands
        /\ game'.bets = game.bets /\ game'.results = game.results
        /\ game'.cur = Len(game.hands) /\ game'.side = game.side /\ game'.stake = game.stake
        /\ game'.natural = game.natural
      BY <1>2, <2>1 DEF GameType, GameFields
  <2>3. /\ game'.hands \in Seq(Seq(Ranks)) /\ game'.results \in Seq(Int)
        /\ Len(game'.results) = Len(game.hands)
        /\ \A i \in 1 .. Len(game'.hands) : Len(game'.hands[i]) >= 2
        /\ game'.cur \in 1 .. Len(game.hands)
    <3>1. /\ game.hands \in Seq(Seq(Ranks)) /\ game.results \in Seq(Int)
          /\ Len(game.results) = Len(game.hands) /\ Len(game.hands) \in {1, 2}
          /\ \A i \in 1 .. Len(game.hands) : Len(game.hands[i]) >= 2
        BY <1>2 DEF Covered
    <3> DEFINE n == Len(game.hands)
    <3>2. n \in 1 .. n
      <4>1. n \in {1, 2}
          BY <3>1
      <4> HIDE DEF n
      <4>2. QED
          BY <4>1
    <3>3. QED
        BY <2>2, <3>1, <3>2
  <2>4. Covered(game')
      BY <1>2, <2>2, <2>3, SameTable
  <2>5. DealerRuns
    <3>1. /\ at \in [Runners -> {"idle", "dealer", "settle", "pay", "final"}]
          /\ at["auto"] \in {"idle", "dealer"} /\ (at["auto"] = "idle" \/ game.natural)
        BY <1>5 DEF BInv, ResultIsKept, OneRunner, Runners
    <3>2. /\ at' \in [Runners -> {"idle", "dealer", "settle", "pay", "final"}]
          /\ at'["click"] = "dealer" /\ at'["auto"] = at["auto"]
        BY <2>1, <3>1 DEF Runners
    <3>3. QED
        BY <2>2, <3>1, <3>2 DEF DealerRuns, Runners
  <2>6. QED
      BY <1>1, <1>2, <1>3, <1>5, <2>2, <2>4, <2>5, GameGoesOn
<1>6. QED
    BY <1>1, <1>4, <1>5

\* end is tried again.
LEMMA RetryClickKeeps == ASSUME BInv, RetryClick PROVE BInv'
<1>1. /\ game.state = "ended" /\ at' = [at EXCEPT !["click"] = "settle"] /\ NoCall
      /\ game' = game /\ offer' = offer /\ told' = told /\ exp' = exp
    BY DEF RetryClick, view
<1>2. StoreStep
    BY <1>1, NoCallIsStep DEF BInv
<1>3. RunnersGoOn
    BY <1>1, RunnerMoves DEF Runners
<1>4. QED
    BY <1>1, <1>2, <1>3, ViewStays

\* The dealer draws, or the result is kept for end.
LEMMA ResolveDealerKeeps ==
    ASSUME BInv, NEW w \in Runners, ResolveDealer(w), game.state = "dealer" PROVE BInv'
<1>1. /\ game.state = "dealer" /\ NoCall /\ at[w] = "dealer"
      /\ offer' = offer /\ told' = told /\ exp' = exp
    BY DEF ResolveDealer
<1>2. /\ Accounts /\ GameType(game) /\ Covered(game) /\ game.sid \in Sids
      /\ charged[game.sid] >= game.deducted
    BY <1>1, PlayedGame
<1>0. /\ at \in [Runners -> {"idle", "dealer", "settle", "pay", "final"}]
      /\ \A v \in Runners : at[v] \in {"idle", "dealer"}
      /\ at["auto"] = "idle" \/ game.natural
    BY <1>1 DEF BInv, ResultIsKept, OneRunner
<1>3. StoreStep /\ charged' = charged /\ by' = by
    BY <1>1, <1>2, NoCallIsStep DEF NoCall
<1>4. CASE DealerDraws(game)
  <2>1. PICK card \in Ranks : game' = [game EXCEPT !.dealer = Append(@, card)]
      BY <1>1, <1>4 DEF ResolveDealer
  <2>2. at' = at
      BY <1>1, <1>4 DEF ResolveDealer
  <2> DEFINE dealer == Append(game.dealer, card)
  <2>3. game' = [game EXCEPT !.dealer = dealer]
      BY <2>1
  <2> HIDE DEF dealer
  <2>4. /\ GameType(game') /\ game'.state = "dealer" /\ game'.sid = game.sid
        /\ game'.deducted = game.deducted /\ game'.hands = game.hands
        /\ game'.bets = game.bets /\ game'.results = game.results
        /\ game'.cur = game.cur /\ game'.side = game.side /\ game'.stake = game.stake
        /\ game'.natural = game.natural
      BY <1>1, <1>2, <2>3 DEF GameType, GameFields
  <2>5. Covered(game')
      BY <1>2, <2>4, SameTable DEF Covered
  <2>6. DealerRuns
      BY <1>0, <2>2, <2>4 DEF DealerRuns
  <2>7. QED
      BY <1>1, <1>2, <1>3, <2>4, <2>5, <2>6, GameGoesOn
<1>5. CASE ~DealerDraws(game)
  <2>1. /\ game' = [game EXCEPT !.pending = Outcome(game), !.state = "ended"]
        /\ at' = [at EXCEPT ![w] = "settle"]
      BY <1>1, <1>5 DEF ResolveDealer
  <2>2. Outcome(game) \in [profit : Int, earns : BOOLEAN]
      BY <1>2, OutcomeType
  <2>3. /\ GameType(game') /\ game'.state = "ended" /\ game'.sid = game.sid
        /\ game'.deducted = game.deducted /\ game'.hands = game.hands
        /\ game'.bets = game.bets /\ game'.results = game.results
        /\ game'.cur = game.cur /\ game'.side = game.side /\ game'.stake = game.stake
        /\ game'.natural = game.natural
      BY <1>2, <2>1, <2>2 DEF GameType, GameFields
  <2>4. Covered(game')
      BY <1>2, <2>3, SameTable DEF Covered
  <2>5. /\ offer = {} /\ told.kind = "none" /\ exp[game.sid] = 0 /\ charged[game.sid] > 0
        /\ by[game.sid] # "result" /\ exp \in [Sids -> Nat] /\ ExpIsEarned
      BY <1>1 DEF BInv, GameIsCovered, ResultIsKept, Running
  <2>6. GameIsCovered'
      BY <1>1, <1>2, <1>3, <2>3, <2>4, <2>5 DEF GameIsCovered, Running
  <2>7. ResultIsKept' /\ OneRunner'
    <3>1. /\ at' \in [Runners -> {"idle", "dealer", "settle", "pay", "final"}]
          /\ at'[w] = "settle" /\ \A v \in Runners \ {w} : at'[v] = at[v]
        BY <1>0, <2>1
    <3>2. \A v \in Runners : at'[v] \in {"idle", "dealer", "settle"}
        BY <1>0, <3>1
    <3>3. ResultIsKept'
        BY <1>3, <2>3, <2>5, <3>1, <3>2 DEF ResultIsKept
    <3>4. at'["auto"] = "idle" \/ game.natural
        BY <1>0, <1>1, <3>1 DEF Runners
    <3>5. at'["click"] # "final"
        BY <3>2 DEF Runners
    <3>6. OneRunner'
        BY <2>3, <3>4, <3>5 DEF OneRunner
    <3>7. QED
        BY <3>3, <3>6
  <2>8. ExpIsEarned' /\ ToldIsPaid' /\ exp' \in [Sids -> Nat]
      BY <1>1, <1>3, <2>3, <2>5 DEF ExpIsEarned, ToldIsPaid
  <2>9. Accounts'
      BY <1>3 DEF StoreStep
  <2>10. QED
      BY <2>6, <2>7, <2>8, <2>9 DEF BInv
<1>6. QED
    BY <1>4, <1>5

\* The other runner was faster: this one goes on with the pending result, or
\* finds the game over.
LEMMA SecondDealerKeeps ==
    ASSUME BInv, NEW w \in Runners, ResolveDealer(w), game.state # "dealer" PROVE BInv'
<1>1. /\ at[w] = "dealer" /\ NoCall /\ game' = game
      /\ offer' = offer /\ told' = told /\ exp' = exp
      /\ at' = [at EXCEPT ![w] = IF game.state = "ended" THEN "settle" ELSE "idle"]
    BY DEF ResolveDealer
<1>2. StoreStep
    BY <1>1, NoCallIsStep DEF BInv
<1>3. RunnersGoOn
    BY <1>1, RunnerMoves
<1>4. QED
    BY <1>1, <1>2, <1>3, ViewStays

\* The session is decided by the result, unless recovery was first.
LEMMA EndPrepareKeeps ==
    ASSUME BInv, NEW w \in Runners, EndPrepare(w) PROVE BInv'
<1>1. /\ at[w] = "settle" /\ at' = [at EXCEPT ![w] = "pay"]
      /\ Prepare(game.sid, Credits(game), "result")
      /\ game' = game /\ offer' = offer /\ told' = told /\ exp' = exp
    BY DEF EndPrepare, view
<1>2. game.state \in {"ended", "over"}
    BY <1>1 DEF BInv, ResultIsKept
<1>3. StoreStep /\ stage'[game.sid] # "open"
    BY <1>1, <1>2, PrepareIsStep
<1>4. RunnersGoOn
    BY <1>1, <1>3, RunnerMoves
<1>5. QED
    BY <1>1, <1>3, <1>4, ViewStays

\* end gave up, whatever the database did.
LEMMA AwaitRaisesKeeps ==
    ASSUME BInv, NEW w \in Runners, AwaitRaises(w) PROVE BInv'
<1>1. /\ at[w] \in {"settle", "pay"} /\ at' = [at EXCEPT ![w] = "idle"]
      /\ game' = game /\ offer' = offer /\ told' = told /\ exp' = exp
    BY DEF AwaitRaises, view
<1>2. game.state \in {"ended", "over"} /\ Accounts
    BY <1>1 DEF BInv, ResultIsKept
<1>3. StoreStep
    BY <1>2, NoCallIsStep, PrepareIsStep, ApplyIsStep DEF AwaitRaises
<1>4. RunnersGoOn
    BY <1>1, RunnerMoves
<1>5. QED
    BY <1>1, <1>3, <1>4, ViewStays

\* What was decided is paid, and the game is over.
LEMMA EndApplyKeeps ==
    ASSUME BInv, NEW w \in Runners, EndApply(w) PROVE BInv'
<1>1. /\ at[w] = "pay" /\ at' = [at EXCEPT ![w] = "final"] /\ Apply(game.sid)
      /\ game' = [NoGame EXCEPT !.sid = game.sid, !.stake = game.stake, !.state = "over",
                                !.deducted = game.deducted, !.natural = game.natural,
                                !.pending = game.pending]
      /\ offer' = offer /\ told' = told /\ exp' = exp
    BY DEF EndApply
<1>2. game.state \in {"ended", "over"}
    BY <1>1 DEF BInv, ResultIsKept
<1>3. StoreStep /\ stage'[game.sid] = "closed"
    BY <1>1, <1>2, ApplyIsStep
<1>4. /\ GameType(game) /\ game.sid \in Sids /\ charged[game.sid] > 0
      /\ charged[game.sid] >= game.deducted /\ game.deducted \in Nat
      /\ offer \subseteq [bet : Nat \ {0}, pair : Nat, three : Nat]
      /\ game.state = "ended" => told.kind = "none" /\ exp[game.sid] = 0
      /\ exp \in [Sids -> Nat] /\ ExpIsEarned /\ ToldIsPaid /\ charged[game.sid] \in Nat
      /\ by[game.sid] = "result" =>
            due[game.sid][Player] = game.deducted + game.pending.profit
    BY <1>2 DEF BInv, Accounts, GameIsCovered, GameType, ResultIsKept, Running
<1>5. /\ GameType(game') /\ game'.state = "over" /\ game'.sid = game.sid
      /\ game'.deducted = game.deducted /\ game'.pending = game.pending
      /\ game'.natural = game.natural
  <2>1. DOMAIN NoGame = GameFields
      BY DEF NoGame, GameFields
  <2>2. QED
      BY <1>1, <1>4, <2>1 DEF GameType, GameFields
<1>6. charged'[game.sid] > 0 /\ charged'[game.sid] >= game.deducted
  <2>1. /\ charged[game.sid] \in Nat /\ charged'[game.sid] \in Nat
        /\ charged'[game.sid] >= charged[game.sid]
      BY <1>3, <1>4, SettledStays
  <2>2. QED
      BY <1>4, <2>1
<1>7. GameIsCovered'
    BY <1>1, <1>4, <1>5, <1>6 DEF GameIsCovered, Running
<1>8. by'[game.sid] = "result" => due'[game.sid][Player] = game.deducted + game.pending.profit
  <2>1. CASE by[game.sid] = "result"
      BY <1>3, <1>4, <2>1 DEF StoreStep
  <2>2. CASE by[game.sid] # "result"
      BY <1>3, <1>4, <2>2 DEF StoreStep
  <2>3. QED
      BY <2>1, <2>2
<1>9. ResultIsKept' /\ OneRunner'
  <2>1. /\ at \in [Runners -> {"idle", "dealer", "settle", "pay", "final"}]
        /\ \A v \in Runners : at[v] = "pay" => stage[game.sid] # "open"
      BY DEF BInv, ResultIsKept
  <2>2. /\ at' \in [Runners -> {"idle", "dealer", "settle", "pay", "final"}]
        /\ at'[w] = "final" /\ \A v \in Runners \ {w} : at'[v] = at[v]
      BY <1>1, <2>1
  <2>3. ResultIsKept'
      BY <1>3, <1>4, <1>5, <1>8, <2>2 DEF ResultIsKept
  <2>4. ASSUME ~game.natural
        PROVE /\ at'["auto"] = "idle" /\ at'["click"] = "final" /\ exp[game.sid] = 0
    <3>1. /\ at["auto"] = "idle"
          /\ game.state = "over" => at["click"] \in {"idle", "final"}
        BY <1>2, <2>4 DEF BInv, OneRunner
    <3>2. w = "click" /\ game.state = "ended"
        BY <1>1, <1>2, <3>1 DEF Runners
    <3>3. QED
        BY <1>4, <2>2, <3>1, <3>2 DEF Runners
  <2>5. OneRunner'
      BY <1>1, <1>5, <2>4 DEF OneRunner
  <2>6. QED
      BY <2>3, <2>5
<1>10. ExpIsEarned' /\ exp' \in [Sids -> Nat]
  <2>1. \A s \in Sids : exp[s] > 0 => by'[s] = "result"
      BY <1>3, SettledStays
  <2>2. \A s \in Sids : exp[s] > 0 /\ game.sid = s =>
            game.pending.earns /\ (game.natural \/ exp[s] = 1)
      BY <1>4 DEF ExpIsEarned
  <2>3. QED
      BY <1>1, <1>4, <1>5, <2>1, <2>2 DEF ExpIsEarned
<1>11. ToldIsPaid'
  <2>1. CASE told.kind = "none"
      BY <1>1, <2>1 DEF ToldIsPaid
  <2>2. CASE told.kind # "none"
    <3>1. game.state = "over"
        BY <1>2, <1>4, <2>2
    <3>2. /\ stage[game.sid] = "closed"
          /\ due[game.sid][Player] - charged[game.sid] = told.net
               - (IF by[game.sid] = "result" THEN charged[game.sid] - game.deducted ELSE 0)
        BY <1>4, <2>2, <3>1 DEF ToldIsPaid, Paid
    <3>3. /\ by'[game.sid] = by[game.sid] /\ due'[game.sid] = due[game.sid]
          /\ charged'[game.sid] = charged[game.sid]
        BY <1>3, <1>4, <3>2, SettledStays
    <3>4. QED
        BY <1>1, <1>3, <1>5, <3>2, <3>3 DEF ToldIsPaid, Paid
  <2>3. QED
      BY <2>1, <2>2
<1>12. Accounts'
    BY <1>3 DEF StoreStep
<1>13. QED
    BY <1>7, <1>9, <1>10, <1>11, <1>12 DEF BInv

\* The views after the game offer stakes that can be bet.
LEMMA RematchType ==
    ASSUME NEW last \in [bet : Nat, pair : Nat, three : Nat]
    PROVE Rematch(last) \subseteq [bet : Nat \ {0}, pair : Nat, three : Nat]
<1> SUFFICES ASSUME NEW stake \in Rematch(last)
             PROVE stake \in [bet : Nat \ {0}, pair : Nat, three : Nat]
    OBVIOUS
<1>1. stake.bet \in 1 .. MaxBet
    BY DEF Rematch
<1>2. \/ stake = last \/ stake = [last EXCEPT !.bet = 2 * @]
      \/ stake = [bet |-> purse[Player], pair |-> 0, three |-> 0]
    BY DEF Rematch
<1>3. stake.bet \in Nat \ {0}
    BY <1>1
<1>4. CASE stake = last
    BY <1>3, <1>4
<1>5. CASE stake = [last EXCEPT !.bet = 2 * @]
    BY <1>3, <1>5
<1>6. CASE stake = [bet |-> purse[Player], pair |-> 0, three |-> 0]
    BY <1>3, <1>6
<1>7. QED
    BY <1>2, <1>4, <1>5, <1>6

\* What was paid is told and earns experience.
LEMMA EndShowKeeps ==
    ASSUME BInv, NEW w \in Runners, EndShow(w) PROVE BInv'
<1> DEFINE s == game.sid
<1>1. at[w] = "final" /\ at' = [at EXCEPT ![w] = "idle"] /\ NoCall /\ game' = game
    BY DEF EndShow
<1>2. /\ Accounts /\ GameIsCovered /\ ResultIsKept
      /\ exp \in [Sids -> Nat] /\ ExpIsEarned /\ ToldIsPaid
    BY DEF BInv
<1>3. /\ game.state = "over" /\ stage[s] = "closed" /\ s \in Sids
      /\ GameType(game) /\ charged[s] \in Nat /\ exp[s] \in Nat
    BY <1>1, <1>2 DEF ResultIsKept, GameIsCovered, Accounts
<1>0. ~game.natural => w = "click" /\ exp[s] = 0 /\ at["auto"] = "idle"
    BY <1>1, <1>3 DEF BInv, OneRunner, Runners
<1>4. /\ StoreStep /\ stage' = stage /\ by' = by /\ due' = due /\ charged' = charged
    BY <1>1, <1>2, NoCallIsStep DEF NoCall, store
<1>5. exp' \in [Sids -> Nat] /\ ExpIsEarned'
  <2>1. PICK given \in {0, 1} :
            /\ given = 1 => Paid(s) /\ game.pending.earns
            /\ exp' = [exp EXCEPT ![s] = @ + given]
      BY DEF EndShow
  <2>2. exp' = [exp EXCEPT ![s] = exp[s] + given]
      BY <1>2, <1>3, <2>1
  <2>3. /\ exp' \in [Sids -> Nat] /\ exp'[s] = exp[s] + given
        /\ \A t \in Sids \ {s} : exp'[t] = exp[t]
      BY <1>2, <1>3, <2>2
  <2>4. exp'[s] > 0 =>
            by[s] = "result" /\ game.pending.earns /\ (game.natural \/ exp'[s] = 1)
    <3>1. exp[s] > 0 => by[s] = "result" /\ game.pending.earns
        BY <1>2, <1>3 DEF ExpIsEarned
    <3>2. exp'[s] > 0 => by[s] = "result" /\ game.pending.earns
        BY <1>3, <2>1, <2>3, <3>1 DEF Paid
    <3>3. ~game.natural /\ exp'[s] > 0 => exp'[s] = 1
        BY <1>0, <2>1, <2>3
    <3>4. QED
        BY <3>2, <3>3
  <2>5. \A t \in Sids \ {s} : exp'[t] > 0 => by[t] = "result"
      BY <1>2, <2>3 DEF ExpIsEarned
  <2>6. QED
      BY <1>1, <1>3, <1>4, <2>3, <2>4, <2>5 DEF ExpIsEarned
<1>6. offer' \subseteq [bet : Nat \ {0}, pair : Nat, three : Nat]
  <2>1. game.stake \in [bet : Nat, pair : Nat, three : Nat]
      BY <1>3 DEF GameType
  <2>2. Rematch(game.stake) \subseteq [bet : Nat \ {0}, pair : Nat, three : Nat]
      BY <2>1, RematchType
  <2>3. offer' = Rematch(game.stake) \/ offer' = offer
      BY DEF EndShow
  <2>4. QED
      BY <1>2, <2>2, <2>3 DEF GameIsCovered
<1>7. ToldIsPaid'
  <2>1. CASE told' = told
      BY <1>1, <1>4, <2>1, ToldStays
  <2>2. CASE told' = IF Paid(s) THEN [kind |-> "final", net |-> game.pending.profit]
                     ELSE [kind |-> "interrupted", net |-> 0]
    <3>1. /\ game.deducted \in Nat /\ game.pending.profit \in Int
        BY <1>3 DEF GameType
    <3>2. CASE by[s] = "result"
      <4>1. due[s][Player] = game.deducted + game.pending.profit
          BY <1>2, <1>3, <3>2 DEF ResultIsKept
      <4>2. told'.net = game.pending.profit
          BY <2>2, <3>2 DEF Paid
      <4>3. due[s][Player] - charged[s] = told'.net - (charged[s] - game.deducted)
          BY <1>3, <3>1, <4>1, <4>2
      <4>4. QED
          BY <1>1, <1>3, <1>4, <3>2, <4>3 DEF ToldIsPaid, Paid
    <3>3. CASE by[s] # "result"
      <4>1. by[s] = "recovery"
          BY <1>2, <1>3, <3>3 DEF Accounts
      <4>2. due[s][Player] = charged[s]
          BY <1>2, <1>3, <4>1 DEF Accounts
      <4>3. told'.net = 0
          BY <2>2, <3>3 DEF Paid
      <4>4. due[s][Player] - charged[s] = told'.net - 0
          BY <1>3, <4>2, <4>3
      <4>5. QED
          BY <1>1, <1>3, <1>4, <3>3, <4>4 DEF ToldIsPaid, Paid
    <3>4. QED
        BY <3>2, <3>3
  <2>3. QED
      BY <2>1, <2>2 DEF EndShow
<1>8. GameIsCovered'
    BY <1>1, <1>2, <1>3, <1>4, <1>6 DEF GameIsCovered, Running
<1>9. ResultIsKept' /\ OneRunner'
  <2>1. /\ at \in [Runners -> {"idle", "dealer", "settle", "pay", "final"}]
        /\ at' \in [Runners -> {"idle", "dealer", "settle", "pay", "final"}]
        /\ at'[w] = "idle" /\ \A v \in Runners \ {w} : at'[v] = at[v]
      BY <1>1, <1>2 DEF ResultIsKept
  <2>2. ResultIsKept'
      BY <1>1, <1>2, <1>3, <1>4, <2>1 DEF ResultIsKept
  <2>3. OneRunner'
      BY <1>0, <1>1, <2>1 DEF OneRunner, Runners
  <2>4. QED
      BY <2>2, <2>3
<1>10. Accounts'
    BY <1>4 DEF StoreStep
<1>11. QED
    BY <1>5, <1>7, <1>8, <1>9, <1>10 DEF BInv


(***************************************************************************)
(* The recovery task, a restart, and the specification.                    *)
(***************************************************************************)
\* The recovery task refunds what was charged for a session.
LEMMA RecoverDecideKeeps ==
    ASSUME BInv, NEW s \in Sids, RecoverDecide(s) PROVE BInv'
<1>1. /\ charged[s] > 0 /\ Store!Decide(s, pot[s]) /\ by' = [by EXCEPT ![s] = "recovery"]
      /\ charged' = charged /\ at' = at
      /\ offer' = offer /\ game' = game /\ told' = told /\ exp' = exp
    BY DEF RecoverDecide, view
<1>2. /\ Accounts /\ pot[s] \in [Users -> Int]
    BY DEF BInv, Accounts
<1>3. Player \in Users
    BY DEF Users
<1>4. stage[s] = "open"
    BY <1>1 DEF Store!Decide
<1>5. pot[s][Player] = charged[s]
    BY <1>2, <1>4 DEF Accounts
<1>6. StoreStep
    BY <1>1, <1>2, <1>5, DecideIsStep
<1>7. QED
    BY <1>1, <1>6, RunnersStay, ViewStays

\* The recovery task pays what was decided.
LEMMA RecoverPayKeeps ==
    ASSUME BInv, NEW s \in Sids, RecoverPay(s) PROVE BInv'
<1>1. /\ Store!PayOut(s) /\ by' = by /\ charged' = charged /\ at' = at
      /\ offer' = offer /\ game' = game /\ told' = told /\ exp' = exp
    BY DEF RecoverPay, view
<1>2. StoreStep
    BY <1>1, PayOutIsStep DEF BInv
<1>3. QED
    BY <1>1, <1>2, RunnersStay, ViewStays

\* A restart forgets the game, and with it what was told of it.
LEMMA RestartKeeps == ASSUME BInv, Restart PROVE BInv'
<1>1. /\ NoCall /\ game' = NoGame /\ offer' = {} /\ at' = [w \in Runners |-> "idle"]
      /\ told' = told /\ exp' = exp
    BY DEF Restart
<1>2. StoreStep /\ by' = by
    BY <1>1, NoCallIsStep DEF BInv, NoCall
<1>3. GameType(NoGame) /\ NoGame.state = "none" /\ NoGame.sid = 0
    BY DEF GameType, GameFields, NoGame, NoOutcome
<1>4. 0 \notin Sids
    BY BoundsAssumption
<1>5. GameIsCovered'
    BY <1>1, <1>3, <1>4 DEF GameIsCovered, Running
<1>6. ResultIsKept' /\ OneRunner'
    BY <1>1, <1>3 DEF ResultIsKept, OneRunner
<1>7. ExpIsEarned' /\ exp' \in [Sids -> Nat]
    BY <1>1, <1>2, <1>3, <1>4 DEF BInv, ExpIsEarned
<1>8. ToldIsPaid'
    BY <1>1, <1>3 DEF ToldIsPaid
<1>9. QED
    BY <1>2, <1>5, <1>6, <1>7, <1>8 DEF BInv, StoreStep

\* Nothing happens.
LEMMA StutterKeeps == ASSUME BInv, UNCHANGED vars PROVE BInv'
<1>1. /\ NoCall /\ at' = at /\ game' = game /\ offer' = offer /\ told' = told /\ exp' = exp
    BY DEF vars, view, NoCall
<1>2. StoreStep
    BY <1>1, NoCallIsStep DEF BInv
<1>3. QED
    BY <1>1, <1>2, RunnersStay, ViewStays

\* Nothing was charged, and only the first view is there.
LEMMA InitIsCovered == Init => BInv
<1> SUFFICES ASSUME Init PROVE BInv
    OBVIOUS
<1>1. /\ by = [s \in Sids |-> "nobody"] /\ charged = [s \in Sids |-> 0]
      /\ exp = [s \in Sids |-> 0] /\ offer = Stakes /\ game = NoGame
      /\ told.kind = "none" /\ at = [w \in Runners |-> "idle"]
    BY DEF Init, NotTold
<1>2. /\ stage = [s \in Sids |-> "open"]
      /\ pot = [s \in Sids |-> [u \in Users |-> 0]]
      /\ due = [s \in Sids |-> [u \in Users |-> 0]]
    BY DEF Init, Store!PInit, Store!Nothing
<1>3. Accounts
  <2>1. Player \in Users
      BY DEF Users
  <2>2. QED
      BY <1>1, <1>2, <2>1 DEF Accounts
<1>4. GameType(NoGame) /\ NoGame.state = "none" /\ NoGame.sid = 0
    BY DEF GameType, GameFields, NoGame, NoOutcome
<1>5. GameIsCovered
    BY <1>1, <1>4, StakesAssumption, BoundsAssumption DEF GameIsCovered, Running
<1>6. ResultIsKept /\ OneRunner
    BY <1>1, <1>4 DEF ResultIsKept, OneRunner
<1>7. QED
    BY <1>1, <1>3, <1>5, <1>6 DEF BInv, ExpIsEarned, ToldIsPaid

\* The induction step.
LEMMA NextKeeps == ASSUME BInv, [Next]_vars PROVE BInv'
<1>1. ASSUME NEW stake \in offer, Start(stake) PROVE BInv'
    BY <1>1, StartKeeps
<1>2. ASSUME NEW s \in Sids, RecoverDecide(s) PROVE BInv'
    BY <1>2, RecoverDecideKeeps
<1>3. ASSUME NEW s \in Sids, RecoverPay(s) PROVE BInv'
    BY <1>3, RecoverPayKeeps
<1>4. ASSUME NEW w \in Runners,
             ResolveDealer(w) \/ EndPrepare(w) \/ EndApply(w) \/ EndShow(w) \/ AwaitRaises(w)
      PROVE BInv'
    BY <1>4, ResolveDealerKeeps, SecondDealerKeeps, EndPrepareKeeps, EndApplyKeeps,
       EndShowKeeps, AwaitRaisesKeeps
<1>5. QED
    BY <1>1, <1>2, <1>3, <1>4, HitKeeps, StandKeeps, SurrenderKeeps, DoubleDownKeeps,
       SplitClickKeeps, OnTimeoutKeeps, RetryClickKeeps, RestartKeeps, StutterKeeps
    DEF Next

(***************************************************************************)
(* The theorems.                                                           *)
(***************************************************************************)
\* BInv: the pot of a game that is not decided holds all that was charged for
\* it, and the game plays for no more than that (start, double_down, split);
\* what end pays is the pending result, what the recovery task pays is a
\* refund, and only a settled game is told or earns.
THEOREM BlackjackInvariance == Spec => []BInv
<1>1. Init => BInv
    BY InitIsCovered
<1>2. BInv /\ [Next]_vars => BInv'
    BY NextKeeps
<1>3. QED
    BY <1>1, <1>2, PTL DEF Spec

\* The hands never play for coins that were not charged, so the credit of the
\* worst result is not negative and prepare takes it (double_down, split,
\* end).
THEOREM HandsAreCovered == Spec => []StakesCoverTheHands
<1>1. ASSUME BInv PROVE StakesCoverTheHands
  <2> SUFFICES ASSUME game.state \in {"play", "dealer", "ended"}
               PROVE /\ stage[game.sid] = "open" => pot[game.sid][Player] >= game.deducted
                     /\ game.deducted >= OnTable(game)
      BY DEF StakesCoverTheHands
  <2>1. /\ Accounts /\ Covered(game) /\ game.sid \in Sids
        /\ charged[game.sid] >= game.deducted
      BY <1>1, PlayedGame
  <2>2. stage[game.sid] = "open" => pot[game.sid][Player] = charged[game.sid]
      BY <2>1 DEF Accounts
  <2>3. game.deducted >= OnTable(game)
      BY <2>1 DEF Covered
  <2>4. QED
      BY <2>1, <2>2, <2>3
<1>2. QED
    BY <1>1, BlackjackInvariance, PTL

\* The last message states what the player gained or lost, whoever decided
\* the session and however often end was retried (end, _build_embed_async).
THEOREM ToldStaysTrue == Spec => []ToldIsPaid
<1>1. BInv => ToldIsPaid
    BY DEF BInv
<1>2. QED
    BY <1>1, BlackjackInvariance, PTL

\* Experience is given only for a paid result of which not every hand is lost,
\* and once for a game that check_auto_bj does not settle (end).
THEOREM ExpIsForResults == Spec => []ExpIsEarned
<1>1. BInv => ExpIsEarned
    BY DEF BInv
<1>2. QED
    BY <1>1, BlackjackInvariance, PTL

\* Once the dealer's cards are seen, nothing but the settlement changes the
\* game, and it settles the pending result (interaction_check, end).
THEOREM RevealIsFinal == Spec => NoMoveAfterReveal
<1>1. ASSUME BInv, [Next]_vars
      PROVE [game.state = "ended" /\ game' # game /\ alive' =>
                game'.state = "over" /\ game'.pending = game.pending]_vars
  <2> SUFFICES ASSUME Next, game.state = "ended", game' # game, alive'
               PROVE game'.state = "over" /\ game'.pending = game.pending
      BY <1>1 DEF vars, view
  <2>1. offer = {}
      BY <1>1 DEF BInv, GameIsCovered, Running
  <2>2. CASE \E w \in Runners : EndApply(w)
    <3>1. DOMAIN NoGame = GameFields
        BY DEF NoGame, GameFields
    <3>2. QED
        BY <2>2, <3>1 DEF EndApply, GameFields
  <2>3. ~Hit /\ ~Stand /\ ~Surrender /\ ~DoubleDown /\ ~Split
      BY DEF Hit, Stand, Surrender, DoubleDown, Split, MayPlay
  <2>4. /\ ~OnTimeout /\ ~RetryClick
        /\ \A w \in Runners :
            ~ResolveDealer(w) /\ ~EndPrepare(w) /\ ~EndShow(w) /\ ~AwaitRaises(w)
      BY DEF OnTimeout, RetryClick, ResolveDealer, EndPrepare, EndShow, AwaitRaises, view
  <2>5. ~Restart
      BY DEF Restart
  <2>6. \A s \in Sids : ~RecoverDecide(s) /\ ~RecoverPay(s)
      BY DEF RecoverDecide, RecoverPay, view
  <2>7. QED
      BY <2>1, <2>2, <2>3, <2>4, <2>5, <2>6 DEF Next
<1>2. QED
    BY <1>1, BlackjackInvariance, PTL DEF Spec, NoMoveAfterReveal

(***************************************************************************)
(* The types: nobody owes, and no hand grows too long.                     *)
(***************************************************************************)
\* A debit is refused to a player who has less.
LEMMA DebitOwesNothing ==
    ASSUME NobodyOwes, NEW s \in Sids, NEW n \in Nat, Debit(s, n)
    PROVE NobodyOwes'
<1>1. /\ purse[Player] >= n /\ due' = due
      /\ purse' = [purse EXCEPT ![Player] = @ - n]
      /\ pot' = [pot EXCEPT ![s][Player] = @ + n]
    BY DEF Debit, Store!PutIn
<1>2. /\ purse \in [Users -> Nat] /\ pot \in [Sids -> [Users -> Nat]]
      /\ due \in [Sids -> [Users -> Nat]] /\ Player \in Users
    BY DEF NobodyOwes, Users
<1>3. purse[Player] - n \in Nat /\ pot[s][Player] + n \in Nat
    BY <1>1, <1>2
<1>4. purse' \in [Users -> Nat] /\ pot' \in [Sids -> [Users -> Nat]]
    BY <1>1, <1>2, <1>3
<1>5. QED
    BY <1>1, <1>2, <1>4 DEF NobodyOwes

\* What is decided is never a debt.
LEMMA DecideOwesNothing ==
    ASSUME NobodyOwes, NEW s \in Sids, NEW credits \in [Users -> Nat],
           Store!Decide(s, credits)
    PROVE NobodyOwes'
  BY DEF NobodyOwes, Store!Decide

\* A payment adds what was decided.
LEMMA PayOutOwesNothing ==
    ASSUME NobodyOwes, NEW s \in Sids, Store!PayOut(s)
    PROVE NobodyOwes'
<1>1. /\ purse' = [u \in Users |-> purse[u] + due[s][u]]
      /\ pot' = [pot EXCEPT ![s] = [u \in Users |-> 0]] /\ due' = due
    BY DEF Store!PayOut, Store!Nothing
<1>2. /\ purse \in [Users -> Nat] /\ pot \in [Sids -> [Users -> Nat]]
      /\ due \in [Sids -> [Users -> Nat]]
    BY DEF NobodyOwes
<1>3. \A u \in Users : purse[u] + due[s][u] \in Nat
    BY <1>2
<1>4. QED
    BY <1>1, <1>2, <1>3 DEF NobodyOwes

\* The credits of a result are whole coins.
LEMMA CreditsAreNoDebt ==
    ASSUME BInv, \A u \in Users : Credits(game)[u] >= 0
    PROVE  Credits(game) \in [Users -> Nat]
<1> DEFINE net == game.pending.profit
           all == game.deducted + net
           share == IF net < 0 THEN (-net * SharePercent) \div 100 ELSE 0
<1>1. game.deducted \in Nat /\ game.pending.profit \in Int
    BY DEF BInv, GameIsCovered, GameType
<1>2. all \in Int /\ share \in Int
  <2>1. SharePercent \in Int
      OBVIOUS
  <2>2. QED
      BY <1>1, <2>1
<1>3. Credits(game) = [u \in Users |-> IF u = Player THEN all ELSE share]
    BY DEF Credits
<1> HIDE DEF all, share
<1>4. QED
    BY <1>2, <1>3

\* prepare refuses a negative credit.
LEMMA PrepareOwesNothing ==
    ASSUME BInv, NobodyOwes, game.state \in {"ended", "over"},
           Prepare(game.sid, Credits(game), "result")
    PROVE NobodyOwes'
<1>1. CASE NoCall
    BY <1>1 DEF NoCall, store, NobodyOwes
<1>2. CASE /\ \A u \in Users : Credits(game)[u] >= 0
           /\ Store!Decide(game.sid, Credits(game))
  <2>1. game.sid \in Sids
      BY DEF BInv, GameIsCovered
  <2>2. Credits(game) \in [Users -> Nat]
      BY <1>2, CreditsAreNoDebt
  <2>3. QED
      BY <1>2, <2>1, <2>2, DecideOwesNothing
<1>3. QED
    BY <1>1, <1>2 DEF Prepare

\* The second transaction of end pays what was decided.
LEMMA ApplyOwesNothing ==
    ASSUME NobodyOwes, NEW s \in Sids, Apply(s)
    PROVE NobodyOwes'
<1>1. CASE NoCall
    BY <1>1 DEF NoCall, store, NobodyOwes
<1>2. QED
    BY <1>1, PayOutOwesNothing DEF Apply

\* Every step of the game, and of the recovery task.
LEMMA OwesNothingKept ==
    ASSUME BInv, NobodyOwes, [Next]_vars
    PROVE NobodyOwes'
<1>1. CASE NoCall
    BY <1>1 DEF NoCall, store, NobodyOwes
<1>2. ASSUME NEW stake \in offer, Start(stake) PROVE NobodyOwes'
  <2>1. stake \in [bet : Nat \ {0}, pair : Nat, three : Nat]
      BY <1>2 DEF BInv, GameIsCovered
  <2>2. Cost(stake) \in Nat
      BY <2>1 DEF Cost
  <2>3. PICK s \in Sids : Debit(s, Cost(stake))
      BY <1>2 DEF Start
  <2>4. QED
      BY <2>2, <2>3, DebitOwesNothing
<1>3. CASE DoubleDown
  <2>1. game.state = "play" /\ Debit(game.sid, game.bets[game.cur])
      BY <1>3 DEF DoubleDown, MayPlay
  <2>2. game.sid \in Sids /\ Covered(game)
      BY <2>1, PlayedGame
  <2>3. QED
      BY <2>1, <2>2, CurrentBet, DebitOwesNothing
<1>4. CASE Split
  <2>1. game.state = "play" /\ Debit(game.sid, game.stake.bet)
      BY <1>4 DEF Split, MayPlay
  <2>2. game.sid \in Sids /\ game.stake.bet \in Nat
      BY <2>1, PlayedGame DEF GameType
  <2>3. QED
      BY <2>1, <2>2, DebitOwesNothing
<1>5. ASSUME NEW w \in Runners, at[w] \in {"settle", "pay"},
             Prepare(game.sid, Credits(game), "result") \/ Apply(game.sid)
      PROVE  NobodyOwes'
  <2>1. game.state \in {"ended", "over"} /\ game.sid \in Sids
      BY <1>5 DEF BInv, ResultIsKept, GameIsCovered
  <2>2. QED
      BY <1>5, <2>1, PrepareOwesNothing, ApplyOwesNothing
<1>6. ASSUME NEW s \in Sids, RecoverDecide(s) \/ RecoverPay(s) PROVE NobodyOwes'
  <2>1. pot[s] \in [Users -> Nat]
      BY DEF NobodyOwes
  <2>2. Store!Decide(s, pot[s]) \/ Store!PayOut(s)
      BY <1>6 DEF RecoverDecide, RecoverPay
  <2>3. QED
      BY <2>1, <2>2, DecideOwesNothing, PayOutOwesNothing
<1>7. ASSUME NEW w \in Runners, EndPrepare(w) \/ EndApply(w) \/ AwaitRaises(w)
      PROVE  NobodyOwes'
    BY <1>1, <1>5, <1>7 DEF EndPrepare, EndApply, AwaitRaises
<1>8. CASE \/ Hit \/ Stand \/ Surrender \/ OnTimeout \/ RetryClick \/ Restart
           \/ UNCHANGED vars \/ \E w \in Runners : ResolveDealer(w) \/ EndShow(w)
  <2>1. NoCall
      BY <1>8 DEF Hit, Stand, Surrender, OnTimeout, RetryClick, ResolveDealer, EndShow,
                  Restart, vars, NoCall
  <2>2. QED
      BY <1>1, <2>1
<1>9. QED
    BY <1>2, <1>3, <1>4, <1>6, <1>7, <1>8 DEF Next

\* The hands of a game that have cards enough, or may still draw: those after
\* the current one, and the dealer's.
Dealt(g) ==
    /\ g.dealer \in Seq(Ranks) /\ Len(g.dealer) \in 1 .. Most
    /\ \A i \in 1 .. Len(g.hands) : Len(g.hands[i]) \in 2 .. Most
    /\ \A i \in g.cur + 1 .. Len(g.hands) : Len(g.hands[i]) < Most

\* A game that is played has cards to draw, and passes on to a hand that has.
LEMMA FitsIsDealt ==
    ASSUME NEW g, Covered(g), Fits(g), g.state = "play"
    PROVE Dealt(g) /\ Len(g.hands[g.cur]) < Most
<1>1. Len(g.hands) \in {1, 2} /\ g.cur \in 1 .. Len(g.hands)
    BY DEF Covered
<1>2. \A i \in g.cur .. Len(g.hands) : Len(g.hands[i]) < Most
    BY DEF Fits
<1>3. g.cur \in g.cur .. Len(g.hands) /\ g.cur + 1 .. Len(g.hands) \subseteq g.cur .. Len(g.hands)
    BY <1>1
<1>4. QED
    BY <1>2, <1>3 DEF Dealt, Fits

GoesOnFit(g) == g.state \in {"play", "dealer", "ended"} /\ Fits(g)

\* advance_hand leaves a hand that has had its turn.
LEMMA AdvanceFits ==
    ASSUME NEW g, GameType(g), Covered(g), g.state = "play", Dealt(g)
    PROVE GoesOnFit(Advance(g))
<1> DEFINE next == [g EXCEPT !.cur = @ + 1]
           h == Advance(g)
<1>1. /\ next.hands = g.hands /\ next.dealer = g.dealer /\ next.cur = g.cur + 1
      /\ next.state = "play" /\ DOMAIN next = GameFields
    BY DEF GameType, GameFields
<1>2. h = next \/ h = [g EXCEPT !.state = "dealer"] \/ h = [next EXCEPT !.state = "dealer"]
    BY DEF Advance
<1> HIDE DEF h, next
<1>3. /\ h.hands = g.hands /\ h.dealer = g.dealer
      /\ h.state = "dealer" \/ (h.state = "play" /\ h.cur = g.cur + 1)
    BY <1>1, <1>2 DEF GameType, GameFields
<1>4. GoesOnFit(h)
  <2>1. h.dealer \in Seq(Ranks) /\ Len(h.dealer) \in 1 .. Most
      BY <1>3 DEF Dealt
  <2>2. \A i \in 1 .. Len(h.hands) : Len(h.hands[i]) \in 2 .. Most
      BY <1>3, Zenon DEF Dealt
  <2>3. h.state = "play" => \A i \in h.cur .. Len(h.hands) : Len(h.hands[i]) < Most
    <3> SUFFICES ASSUME h.state = "play"
               PROVE \A i \in h.cur .. Len(h.hands) : Len(h.hands[i]) < Most
        OBVIOUS
    <3>1. h.cur = g.cur + 1
        BY <1>3
    <3>2. QED
        BY <1>3, <3>1, Zenon DEF Dealt
  <2>4. h.state \in {"play", "dealer", "ended"}
      BY <1>3
  <2>5. QED
      BY <2>1, <2>2, <2>3, <2>4, Zenon DEF GoesOnFit, Fits
<1>5. QED
    BY <1>4 DEF h

\* A hand that may draw has its cards after it drew.
LEMMA DrawnIsDealt ==
    ASSUME NEW g, GameType(g), Covered(g), Dealt(g), Len(g.hands[g.cur]) < Most,
           NEW card \in Ranks
    PROVE Dealt(Drawn(g, card))
<1> DEFINE h == Drawn(g, card)
           hands == g.hands
           hand == Append(hands[g.cur], card)
           new == [hands EXCEPT ![g.cur] = hand]
<1>1. /\ hands \in Seq(Seq(Ranks)) /\ g.cur \in 1 .. Len(hands)
      /\ Len(hands) \in Nat
    BY DEF Covered
<1>2. h.hands = new /\ h.cur = g.cur /\ h.dealer = g.dealer
  <2>1. h = [g EXCEPT !.hands = new]
      BY DEF Drawn
  <2> HIDE DEF new, h
  <2>2. QED
      BY <2>1 DEF GameType, GameFields
<1>3. hand \in Seq(Ranks) /\ Len(hand) \in 2 .. Most
  <2>1. Len(hands[g.cur]) \in 2 .. Most /\ Len(hands[g.cur]) < Most
      BY <1>1 DEF Dealt
  <2> HIDE DEF hands
  <2>2. hands[g.cur] \in Seq(Ranks)
      BY <1>1
  <2>3. hand \in Seq(Ranks) /\ Len(hand) = Len(hands[g.cur]) + 1
      BY <2>2, AppendProperties
  <2>4. QED
      BY <2>1, <2>3, MostAssumption
<1>4. /\ Len(new) = Len(hands)
      /\ \A i \in 1 .. Len(hands) : new[i] = IF i = g.cur THEN hand ELSE hands[i]
  <2> HIDE DEF hand, hands
  <2> QED
      BY <1>1, <1>3, ExceptSeq
<1> HIDE DEF h, new, hand
<1>5. \A i \in 1 .. Len(new) : Len(new[i]) \in 2 .. Most
    BY <1>3, <1>4 DEF Dealt
<1>6. \A i \in g.cur + 1 .. Len(new) : Len(new[i]) < Most
  <2> SUFFICES ASSUME NEW i \in g.cur + 1 .. Len(new)
               PROVE Len(new[i]) < Most
      OBVIOUS
  <2>1. i \in 1 .. Len(hands) /\ i # g.cur
    <3> HIDE DEF hands
    <3> QED
        BY <1>1, <1>4
  <2>2. new[i] = g.hands[i]
      BY <1>4, <2>1
  <2>3. QED
      BY <1>4, <2>2 DEF Dealt
<1>7. QED
    BY <1>2, <1>5, <1>6 DEF Dealt, h

\* Results, bets and what was deducted are not cards.
LEMMA SameCards ==
    ASSUME NEW g, NEW h, h.hands = g.hands, h.cur = g.cur, h.dealer = g.dealer,
           h.state = g.state
    PROVE /\ Dealt(g) => Dealt(h)
          /\ Fits(g) => Fits(h)
  BY DEF Dealt, Fits

\* A result is not a card.
LEMMA DecidedIsDealt ==
    ASSUME NEW g, GameType(g), Dealt(g), NEW n
    PROVE Dealt([g EXCEPT !.results[g.cur] = n])
<1> DEFINE new == [g.results EXCEPT ![g.cur] = n]
           h == [g EXCEPT !.results = new]
<1>1. /\ [g EXCEPT !.results[g.cur] = n] = h
      /\ h.hands = g.hands /\ h.cur = g.cur /\ h.dealer = g.dealer /\ h.state = g.state
  <2> HIDE DEF new
  <2>1. h.hands = g.hands /\ h.cur = g.cur /\ h.dealer = g.dealer /\ h.state = g.state
      BY DEF GameType, GameFields
  <2>2. QED
      BY <2>1 DEF new
<1> HIDE DEF h
<1>2. QED
    BY <1>1, SameCards

\* A hand that is lost keeps its cards.
LEMMA LostIsDealt ==
    ASSUME NEW g, GameType(g), Dealt(g)
    PROVE Dealt(Lost(g))
  BY DecidedIsDealt DEF Lost

\* Two hands of a pair have two cards each.
LEMMA SplitFits ==
    ASSUME NEW g, GameType(g), Covered(g), Fits(g), NEW r1 \in Ranks, NEW r2 \in Ranks
    PROVE /\ Fits(TwoHands(g, r1, r2)) /\ Dealt(TwoHands(g, r1, r2))
<1> DEFINE h == TwoHands(g, r1, r2)
           hand1 == <<g.hands[1][1], r1>>
           hand2 == <<g.hands[1][2], r2>>
<1>1. h.hands = <<hand1, hand2>> /\ h.cur = g.cur /\ h.dealer = g.dealer
  <2> HIDE DEF hand1, hand2
  <2> QED
      BY DEF TwoHands, GameType, GameFields, hand1, hand2
<1>2. g.cur \in {1, 2}
    BY DEF Covered
<1>3. Len(hand1) = 2 /\ Len(hand2) = 2
    OBVIOUS
<1> HIDE DEF h, hand1, hand2
<1>4. Len(h.hands) = 2 /\ \A i \in 1 .. 2 : Len(h.hands[i]) = 2
    BY <1>1, <1>3
<1>5. Most \in Nat /\ Most > 2
    BY MostAssumption
<1>6. \A i \in 1 .. Len(h.hands) : Len(h.hands[i]) \in 2 .. Most /\ Len(h.hands[i]) < Most
  <2>1. 2 \in 2 .. Most /\ 2 < Most
      BY <1>5
  <2>2. QED
      BY <1>4, <2>1, Zenon
<1>7. h.cur .. Len(h.hands) \subseteq 1 .. Len(h.hands)
      /\ h.cur + 1 .. Len(h.hands) \subseteq 1 .. Len(h.hands)
    BY <1>1, <1>2, <1>4
<1>8. h.dealer \in Seq(Ranks) /\ Len(h.dealer) \in 1 .. Most
    BY <1>1 DEF Fits
<1>9. Fits(h) /\ Dealt(h)
    BY <1>6, <1>7, <1>8, Zenon DEF Fits, Dealt
<1>10. QED
    BY <1>9 DEF h

\* The first cards.
LEMMA NewGameFits ==
    ASSUME NEW s, NEW stake, NEW r1 \in Ranks, NEW r2 \in Ranks, NEW up \in Ranks, NEW side
    PROVE Fits(NewGame(s, stake, <<r1, r2>>, up, side))
<1> DEFINE h == NewGame(s, stake, <<r1, r2>>, up, side)
<1>1. h.hands = <<<<r1, r2>>>> /\ h.dealer = <<up>> /\ h.cur = 1
    BY DEF NewGame, NoGame
<1> HIDE DEF h
<1>2. Len(h.hands) = 1 /\ Len(h.hands[1]) = 2 /\ h.dealer \in Seq(Ranks) /\ Len(h.dealer) = 1
    BY <1>1
<1>3. Most \in Nat /\ Most > 2
    BY MostAssumption
<1>4. \A i \in 1 .. Len(h.hands) : Len(h.hands[i]) \in 2 .. Most /\ Len(h.hands[i]) < Most
  <2>1. 2 \in 2 .. Most /\ 2 < Most
      BY <1>3
  <2>2. \A i \in 1 .. Len(h.hands) : i = 1
      BY <1>2
  <2>3. QED
      BY <1>2, <2>1, <2>2, Zenon
<1>5. h.cur .. Len(h.hands) \subseteq 1 .. Len(h.hands) /\ Len(h.dealer) \in 1 .. Most
    BY <1>1, <1>2, <1>3
<1>6. Fits(h)
    BY <1>2, <1>4, <1>5, Zenon DEF Fits
<1>7. QED
    BY <1>6 DEF h

\* A card more: the hand still fits, or its turn is over.
LEMMA HitFits == ASSUME BInv, Fits(game), Hit PROVE GoesOnFit(game')
<1>1. game.state = "play"
    BY DEF Hit, MayPlay
<1>2. GameType(game) /\ Covered(game)
    BY <1>1, PlayedGame
<1>3. PICK card \in Ranks :
        LET g == Drawn(game, card)
        IN  Shows(IF Busted(g) THEN Advance(Lost(g))
                  ELSE IF Len(Hand(g)) = Most THEN Advance(g) ELSE g)
    BY DEF Hit
<1> DEFINE g == Drawn(game, card)
<1>4. /\ GameType(g) /\ Covered(g) /\ g.state = "play" /\ Dealt(g)
    BY <1>1, <1>2, DrawnKeeps, FitsIsDealt, DrawnIsDealt
<1>5. \/ game' = Advance(Lost(g))
      \/ game' = Advance(g)
      \/ game' = g /\ Len(Hand(g)) # Most
    BY <1>3 DEF Shows
<1> HIDE DEF g
<1>6. CASE game' = Advance(Lost(g))
  <2>1. Dealt(Lost(g))
      BY <1>4, LostIsDealt
  <2>2. GameType(Lost(g)) /\ Covered(Lost(g)) /\ Lost(g).state = "play"
      BY <1>4, LostKeeps
  <2>3. QED
      BY <1>6, <2>1, <2>2, AdvanceFits
<1>7. CASE game' = Advance(g)
    BY <1>4, <1>7, AdvanceFits
<1>8. CASE game' = g /\ Len(Hand(g)) # Most
  <2>1. g.cur \in 1 .. Len(g.hands) /\ Len(g.hands) \in {1, 2}
      BY <1>4 DEF Covered
  <2>2. Len(g.hands[g.cur]) < Most
    <3>1. Len(g.hands[g.cur]) \in 2 .. Most
        BY <1>4, <2>1 DEF Dealt
    <3>2. QED
        BY <1>8, <3>1, MostAssumption DEF Hand
  <2>3. \A i \in g.cur .. Len(g.hands) : i = g.cur \/ i \in g.cur + 1 .. Len(g.hands)
      BY <2>1
  <2>4. QED
      BY <1>4, <1>8, <2>2, <2>3 DEF GoesOnFit, Fits, Dealt
<1>9. QED
    BY <1>5, <1>6, <1>7, <1>8

\* The doubled hand draws one card and has had its turn.
LEMMA DoubleDownFits == ASSUME BInv, Fits(game), DoubleDown PROVE GoesOnFit(game')
<1> DEFINE extra == game.bets[game.cur]
           paid == [game EXCEPT !.deducted = @ + extra, !.bets[game.cur] = @ + extra]
<1>1. game.state = "play"
    BY DEF DoubleDown, MayPlay
<1>2. GameType(game) /\ Covered(game)
    BY <1>1, PlayedGame
<1>3. GameType(paid) /\ Covered(paid) /\ paid.state = "play"
    BY <1>1, <1>2, DoubledKeeps
<1>4. /\ paid.hands = game.hands /\ paid.cur = game.cur /\ paid.dealer = game.dealer
    BY <1>2 DEF GameType, GameFields
<1>5. CASE \E card \in Ranks :
             LET g == Drawn(paid, card)
             IN  Shows(Advance(IF Busted(g) THEN Lost(g) ELSE g))
  <2> HIDE DEF paid
  <2>1. Dealt(paid) /\ Len(paid.hands[paid.cur]) < Most
      BY <1>1, <1>2, <1>3, <1>4, FitsIsDealt, SameCards
  <2>2. PICK card \in Ranks :
          LET g == Drawn(paid, card) IN Shows(Advance(IF Busted(g) THEN Lost(g) ELSE g))
      BY <1>5
  <2> DEFINE g == Drawn(paid, card)
             h == IF Busted(g) THEN Lost(g) ELSE g
  <2>3. GameType(g) /\ Covered(g) /\ g.state = "play" /\ Dealt(g)
      BY <1>3, <2>1, DrawnKeeps, DrawnIsDealt
  <2>4. game' = Advance(h)
      BY <2>2 DEF Shows
  <2> HIDE DEF g
  <2>5. GameType(Lost(g)) /\ Covered(Lost(g)) /\ Lost(g).state = "play" /\ Dealt(Lost(g))
      BY <2>3, LostKeeps, LostIsDealt
  <2>6. GameType(h) /\ Covered(h) /\ h.state = "play" /\ Dealt(h)
      BY <2>3, <2>5
  <2> HIDE DEF h
  <2>7. QED
      BY <2>4, <2>6, AdvanceFits
<1>6. CASE UNCHANGED view
    BY <1>1, <1>6 DEF view, GoesOnFit
<1>7. QED
    BY <1>5, <1>6 DEF DoubleDown

\* Two hands of two cards, and the first may have had its turn.
LEMMA SplitClickFits == ASSUME BInv, Fits(game), Split PROVE GoesOnFit(game')
<1>1. game.state = "play"
    BY DEF Split, MayPlay
<1>2. GameType(game) /\ Covered(game)
    BY <1>1, PlayedGame
<1>3. ASSUME NEW r1 \in Ranks, NEW r2 \in Ranks,
             LET h == TwoHands(game, r1, r2)
             IN  Shows(IF Score(Hand(h)) = 21 THEN Advance(h) ELSE h)
      PROVE GoesOnFit(game')
  <2> DEFINE g == TwoHands(game, r1, r2)
  <2>1. /\ GameType(g) /\ Covered(g) /\ g.state = "play" /\ Fits(g) /\ Dealt(g)
      BY <1>1, <1>2, SplitKeeps, SplitFits
  <2>2. game' = Advance(g) \/ game' = g
      BY <1>3 DEF Shows
  <2> HIDE DEF g
  <2>3. QED
      BY <2>1, <2>2, AdvanceFits DEF GoesOnFit
<1>4. \/ UNCHANGED view
      \/ \E r1, r2 \in Ranks :
            LET h == TwoHands(game, r1, r2)
            IN  Shows(IF Score(Hand(h)) = 21 THEN Advance(h) ELSE h)
    BY DEF Split, TwoHands
<1>5. QED
    BY <1>1, <1>3, <1>4 DEF view, GoesOnFit

\* The hand passes, with its cards or with half its bet lost.
LEMMA PassFits == ASSUME BInv, Fits(game), Stand \/ Surrender PROVE GoesOnFit(game')
<1> DEFINE n == -(game.bets[game.cur] \div 2)
           h == [game EXCEPT !.results[game.cur] = n]
<1>1. game.state = "play"
    BY DEF Stand, Surrender, MayPlay
<1>2. GameType(game) /\ Covered(game) /\ Dealt(game)
    BY <1>1, PlayedGame, FitsIsDealt
<1>3. CASE game' = Advance(game)
    BY <1>1, <1>2, <1>3, AdvanceFits
<1>4. CASE game' = Advance(h)
  <2>1. n \in Int
    <3>1. game.bets[game.cur] \in Nat
        BY <1>2, CurrentBet
    <3>2. QED
        BY <3>1
  <2> HIDE DEF n
  <2>2. GameType(h) /\ Covered(h) /\ h.state = "play"
      BY <1>1, <1>2, <2>1, DecidedKeeps
  <2>3. Dealt(h)
      BY <1>2, DecidedIsDealt
  <2> HIDE DEF h
  <2>4. QED
      BY <1>4, <2>2, <2>3, AdvanceFits
<1>5. QED
    BY <1>3, <1>4 DEF Stand, Surrender, Shows

\* The dealer draws while it has one card, or fewer than win as they are.
LEMMA ResolveDealerFits ==
    ASSUME BInv, Fits(game), NEW w \in Runners, ResolveDealer(w), game.state = "dealer"
    PROVE GoesOnFit(game')
<1>1. game.state = "dealer"
    OBVIOUS
<1>2. GameType(game)
    BY <1>1, PlayedGame
<1>3. CASE DealerDraws(game)
  <2>1. PICK card \in Ranks : game' = [game EXCEPT !.dealer = Append(@, card)]
      BY <1>1, <1>3 DEF ResolveDealer
  <2> DEFINE dealer == Append(game.dealer, card)
  <2>2. game' = [game EXCEPT !.dealer = dealer]
      BY <2>1
  <2>3. dealer \in Seq(Ranks) /\ Len(dealer) \in 1 .. Most
    <3> DEFINE old == game.dealer
    <3>1. /\ old \in Seq(Ranks) /\ Len(old) \in 1 .. Most
          /\ Len(old) = 1 \/ Len(old) < Most
        BY <1>3 DEF Fits, DealerDraws
    <3> HIDE DEF old
    <3>2. Append(old, card) \in Seq(Ranks) /\ Len(Append(old, card)) = Len(old) + 1
        BY <3>1, AppendProperties
    <3>3. Len(Append(old, card)) \in 1 .. Most
      <4>1. \A n \in 1 .. Most : n = 1 \/ n < Most => n + 1 \in 1 .. Most
          BY MostAssumption
      <4>2. QED
          BY <3>1, <3>2, <4>1, Zenon
    <3>4. QED
        BY <3>2, <3>3 DEF old
  <2> HIDE DEF dealer
  <2>4. game'.hands = game.hands /\ game'.dealer = dealer /\ game'.state = "dealer"
      BY <1>1, <1>2, <2>2 DEF GameType, GameFields
  <2>5. QED
      BY <2>3, <2>4 DEF Fits, GoesOnFit
<1>4. CASE ~DealerDraws(game)
  <2> DEFINE out == Outcome(game)
  <2>1. game' = [game EXCEPT !.pending = out, !.state = "ended"]
      BY <1>1, <1>4 DEF ResolveDealer
  <2> HIDE DEF out
  <2>2. game'.hands = game.hands /\ game'.dealer = game.dealer /\ game'.state = "ended"
      BY <1>2, <2>1 DEF GameType, GameFields
  <2>3. QED
      BY <2>2 DEF Fits, GoesOnFit
<1>5. QED
    BY <1>3, <1>4

\* Every hand stands when the view times out.
LEMMA OnTimeoutFits == ASSUME BInv, Fits(game), OnTimeout PROVE GoesOnFit(game')
<1>1. game.state \in {"play", "dealer", "ended"}
    BY DEF OnTimeout
<1>2. GameType(game)
    BY <1>1, PlayedGame
<1>3. game' = game \/ game' = [game EXCEPT !.cur = Len(game.hands), !.state = "dealer"]
    BY DEF OnTimeout
<1>4. CASE game' = [game EXCEPT !.cur = Len(game.hands), !.state = "dealer"]
  <2>1. game'.hands = game.hands /\ game'.dealer = game.dealer /\ game'.state = "dealer"
      BY <1>2, <1>4 DEF GameType, GameFields
  <2>2. QED
      BY <2>1 DEF Fits, GoesOnFit
<1>5. QED
    BY <1>1, <1>3, <1>4 DEF GoesOnFit

\* Cards are only dealt to a game that runs.
LEMMA CardsFitKept ==
    ASSUME BInv, CardsFit, [Next]_vars
    PROVE CardsFit'
<1>0. GameType(game)
    BY DEF BInv, GameIsCovered
<1>1. CASE game' = game
    BY <1>1 DEF CardsFit, Running
<1>2. CASE game' = NoGame
    BY <1>2 DEF CardsFit, Running, NoGame
<1>3. ASSUME NEW stake \in offer, Start(stake) PROVE CardsFit'
  <2>1. CASE \E s \in Sids : \E r1, r2, up \in Ranks :
                 \E side \in SideProfits(<<r1, r2>>, up, stake) :
                     game' = NewGame(s, stake, <<r1, r2>>, up, side)
    <3>1. PICK s \in Sids, r1 \in Ranks, r2 \in Ranks, up \in Ranks :
              \E side \in SideProfits(<<r1, r2>>, up, stake) :
                  game' = NewGame(s, stake, <<r1, r2>>, up, side)
        BY <2>1
    <3>2. PICK side \in SideProfits(<<r1, r2>>, up, stake) :
              game' = NewGame(s, stake, <<r1, r2>>, up, side)
        BY <3>1
    <3>3. Fits(game')
        BY <3>2, NewGameFits
    <3>4. game'.state \in {"play", "dealer"}
        BY <3>2 DEF NewGame, NoGame
    <3>5. QED
        BY <3>3, <3>4 DEF CardsFit, Running
  <2>2. QED
      BY <1>1, <1>3, <2>1 DEF Start
<1>4. CASE \/ Hit \/ Stand \/ Surrender \/ DoubleDown \/ Split \/ OnTimeout
           \/ game.state = "dealer" /\ \E w \in Runners : ResolveDealer(w)
  <2>1. Running
      BY <1>4 DEF Running, Hit, Stand, Surrender, DoubleDown, Split, MayPlay, OnTimeout
  <2>2. GoesOnFit(game')
      BY <1>4, <2>1, HitFits, PassFits, DoubleDownFits, SplitClickFits, OnTimeoutFits,
         ResolveDealerFits DEF CardsFit
  <2>3. QED
      BY <2>2 DEF CardsFit, Running, GoesOnFit
<1>5. ASSUME NEW w \in Runners, EndApply(w) PROVE CardsFit'
  <2>1. /\ game'.state = "over" /\ game'.hands = <<>> /\ game'.bets = <<>>
        /\ game'.results = <<>>
      BY <1>5 DEF EndApply, NoGame
  <2>2. QED
      BY <2>1 DEF CardsFit, Running
<1>6. CASE \/ RetryClick \/ UNCHANGED vars
           \/ \E w \in Runners :
                \/ EndPrepare(w) \/ EndShow(w) \/ AwaitRaises(w)
                \/ game.state # "dealer" /\ ResolveDealer(w)
    BY <1>1, <1>6 DEF RetryClick, EndPrepare, EndShow, AwaitRaises, ResolveDealer, view, vars
<1>7. ASSUME NEW s \in Sids, RecoverDecide(s) \/ RecoverPay(s) PROVE CardsFit'
    BY <1>1, <1>7 DEF RecoverDecide, RecoverPay, view
<1>8. CASE Restart
    BY <1>2, <1>8 DEF Restart
<1>9. QED
    BY <1>3, <1>4, <1>5, <1>6, <1>7, <1>8 DEF Next

\* The message offers the five buttons of BlackjackGame, and nothing else.
LEMMA ViewTypeKept == ASSUME ViewType, [Next]_vars PROVE ViewType'
<1>1. \A g : Buttons(g) \subseteq {"hit", "stand", "double", "split", "surrender"}
    BY DEF Buttons
<1>2. ASSUME NEW g, Shows(g) PROVE ViewType'
    BY <1>1, <1>2 DEF Shows, ViewType
<1>3. ASSUME NEW stake \in offer, Start(stake) PROVE ViewType'
    BY <1>1, <1>3 DEF Start, ViewType
<1>4. CASE Hit \/ Stand \/ Surrender
    BY <1>2, <1>4, Zenon DEF Hit, Stand, Surrender
<1>5. CASE DoubleDown \/ Split
  <2>1. CASE UNCHANGED <<view, at>>
      BY <2>1 DEF view, ViewType
  <2>2. CASE DoubleDown
      BY <1>2, <2>1, <2>2, Zenon DEF DoubleDown
  <2>3. CASE Split
      BY <1>2, <2>1, <2>3, Zenon DEF Split
  <2>4. QED
      BY <1>5, <2>2, <2>3
<1>6. CASE OnTimeout \/ RetryClick
    BY <1>6 DEF OnTimeout, RetryClick, view, ViewType
<1>7. ASSUME NEW w \in Runners,
             ResolveDealer(w) \/ EndPrepare(w) \/ EndApply(w) \/ EndShow(w) \/ AwaitRaises(w)
      PROVE  ViewType'
    BY <1>7 DEF ResolveDealer, EndPrepare, EndApply, EndShow, AwaitRaises, view, ViewType
<1>8. ASSUME NEW s \in Sids, RecoverDecide(s) \/ RecoverPay(s) PROVE ViewType'
    BY <1>8 DEF RecoverDecide, RecoverPay, view, ViewType
<1>9. CASE Restart \/ UNCHANGED vars
    BY <1>9 DEF Restart, vars, view, ViewType
<1>10. QED
    BY <1>3, <1>4, <1>5, <1>6, <1>7, <1>8, <1>9 DEF Next

\* Nobody goes into debt, in a purse, a pot or a credit; every hand has two
\* cards at least and at most those that win as they are, and so has the
\* dealer; and the message offers no button the view does not have
\* (BlackjackGame, resolve_dealer, prepare).
THEOREM BlackjackTypes == Spec => []TypeOK
<1> DEFINE Inv == BInv /\ CardsFit /\ NobodyOwes /\ ViewType
<1>1. Init => Inv
  <2> SUFFICES ASSUME Init PROVE Inv
      OBVIOUS
  <2>1. CardsFit /\ ViewType
      BY DEF Init, CardsFit, Running, NoGame, ViewType
  <2>2. NobodyOwes
      BY InitialAssumption DEF Init, NobodyOwes, Store!PInit, Store!Nothing
  <2>3. QED
      BY <2>1, <2>2, InitIsCovered
<1>2. Inv /\ [Next]_vars => Inv'
    BY NextKeeps, CardsFitKept, OwesNothingKept, ViewTypeKept
<1>3. ASSUME Inv PROVE TypeOK
  <2>1. /\ stage \in [Sids -> {"open", "decided", "closed"}]
        /\ by \in [Sids -> {"nobody", "result", "recovery"}]
        /\ {charged, exp} \subseteq [Sids -> Nat]
        /\ at \in [Runners -> {"idle", "dealer", "settle", "pay", "final"}]
      BY <1>3 DEF BInv, Accounts, ResultIsKept
  <2>2. game.state \in {"none", "play", "dealer", "ended", "over"}
      BY <1>3 DEF BInv, GameIsCovered, GameType
  <2>3. CASE Running
    <3>1. Covered(game) /\ Fits(game)
        BY <1>3, <2>3 DEF BInv, GameIsCovered, CardsFit
    <3>2. /\ DOMAIN game.hands = 1 .. Len(game.hands)
          /\ DOMAIN game.bets = 1 .. Len(game.hands)
          /\ DOMAIN game.results = 1 .. Len(game.hands)
      <4>1. /\ game.hands \in Seq(Seq(Ranks)) /\ game.bets \in Seq(Nat)
            /\ game.results \in Seq(Int)
            /\ Len(game.bets) = Len(game.hands) /\ Len(game.results) = Len(game.hands)
          BY <3>1 DEF Covered
      <4>2. QED
          BY <4>1
    <3>3. game.cur \in 1 .. Len(game.hands)
        BY <3>1 DEF Covered
    <3>4. QED
        BY <1>3, <2>1, <2>2, <3>1, <3>2, <3>3 DEF TypeOK, NobodyOwes, ViewType, Fits
  <2>4. CASE ~Running
      BY <1>3, <2>1, <2>2, <2>4 DEF TypeOK, NobodyOwes, ViewType, Running, CardsFit
  <2>5. QED
      BY <2>3, <2>4
<1>4. QED
    BY <1>1, <1>2, <1>3, PTL DEF Spec

(***************************************************************************)
(* The promise of the store.                                               *)
(***************************************************************************)
\* What the store may do while the game goes on.
Promised == Store!PNext \/ UNCHANGED store

\* A debit is a stake; a debit of nothing is no step.
LEMMA DebitIsPromised ==
    ASSUME NobodyOwes, NEW s \in Sids, NEW n \in Nat, Debit(s, n)
    PROVE  Promised
<1>1. /\ purse[Player] >= n /\ Store!PutIn(s, Player, n)
      /\ purse \in [Users -> Nat] /\ pot \in [Sids -> [Users -> Nat]] /\ Player \in Users
    BY DEF Debit, NobodyOwes, Users
<1>2. CASE n = 0
  <2>1. purse' = [purse EXCEPT ![Player] = @ - 0] /\ pot' = [pot EXCEPT ![s][Player] = @ + 0]
        /\ stage' = stage /\ due' = due
      BY <1>1, <1>2 DEF Store!PutIn
  <2>2. purse' = purse
      BY <1>1, <2>1
  <2>3. pot' = pot
      BY <1>1, <2>1
  <2>4. QED
      BY <2>1, <2>2, <2>3 DEF Promised, store
<1>3. CASE n # 0
  <2>1. n \in Nat \ {0}
      BY <1>3
  <2>2. QED
      BY <1>1, <2>1, Zenon DEF Promised, Store!PNext
<1>4. QED
    BY <1>2, <1>3

\* What is decided is one of the payouts, and nobody's debt.
LEMMA PrepareIsPromised ==
    ASSUME BInv, game.state \in {"ended", "over"}, Prepare(game.sid, Credits(game), "result")
    PROVE  Promised
<1>1. CASE NoCall
    BY <1>1 DEF NoCall, Promised
<1>2. CASE /\ \A u \in Users : Credits(game)[u] >= 0
           /\ Store!Decide(game.sid, Credits(game))
  <2>1. game.sid \in Sids
      BY DEF BInv, GameIsCovered
  <2>2. Credits(game) \in Payouts
      BY <1>2, CreditsAreNoDebt DEF Payouts
  <2>3. QED
      BY <1>2, <2>1, <2>2, Zenon DEF Promised, Store!PNext
<1>3. QED
    BY <1>1, <1>2 DEF Prepare

\* The second transaction of end, and those of the recovery task.
LEMMA PaymentIsPromised ==
    ASSUME NEW s \in Sids, Apply(s) \/ RecoverDecide(s) \/ RecoverPay(s)
    PROVE  Promised
<1>1. CASE NoCall
    BY <1>1 DEF NoCall, Promised
<1>2. CASE Store!PayOut(s) \/ Store!Decide(s, pot[s])
    BY <1>2, Zenon DEF Promised, Store!PNext
<1>3. QED
    BY <1>1, <1>2 DEF Apply, RecoverDecide, RecoverPay

\* Every step of the game, of the recovery task and of a restart is a step of
\* the store's promise, or leaves it alone: no retry decides or pays a session twice, and nothing is
\* credited that prepare would refuse.
THEOREM BlackjackKeepsPromise == Spec => Store!PSpec
<1>1. Init => Store!PInit
    BY DEF Init
<1>2. Init => NobodyOwes
    BY InitialAssumption DEF Init, NobodyOwes, Store!PInit, Store!Nothing
<1>3. ASSUME BInv, NobodyOwes, [Next]_vars
      PROVE  Promised
  <2>1. CASE NoCall
      BY <2>1 DEF NoCall, Promised
  <2>2. ASSUME NEW stake \in offer, Start(stake) PROVE Promised
    <3>1. stake \in [bet : Nat \ {0}, pair : Nat, three : Nat]
        BY <1>3, <2>2 DEF BInv, GameIsCovered
    <3>2. Cost(stake) \in Nat
        BY <3>1 DEF Cost
    <3>3. PICK s \in Sids : Debit(s, Cost(stake))
        BY <2>2 DEF Start
    <3>4. QED
        BY <1>3, <3>2, <3>3, DebitIsPromised
  <2>3. CASE DoubleDown
    <3>1. game.state = "play" /\ Debit(game.sid, game.bets[game.cur])
        BY <2>3 DEF DoubleDown, MayPlay
    <3>2. game.sid \in Sids /\ Covered(game)
        BY <1>3, <3>1, PlayedGame
    <3>3. QED
        BY <1>3, <3>1, <3>2, CurrentBet, DebitIsPromised
  <2>4. CASE Split
    <3>1. game.state = "play" /\ Debit(game.sid, game.stake.bet)
        BY <2>4 DEF Split, MayPlay
    <3>2. game.sid \in Sids /\ game.stake.bet \in Nat
        BY <1>3, <3>1, PlayedGame DEF GameType
    <3>3. QED
        BY <1>3, <3>1, <3>2, DebitIsPromised
  <2>5. ASSUME NEW w \in Runners, at[w] \in {"settle", "pay"},
               Prepare(game.sid, Credits(game), "result") \/ Apply(game.sid)
        PROVE  Promised
    <3>1. game.state \in {"ended", "over"} /\ game.sid \in Sids
        BY <1>3, <2>5 DEF BInv, ResultIsKept, GameIsCovered
    <3>2. QED
        BY <1>3, <2>5, <3>1, PrepareIsPromised, PaymentIsPromised
  <2>6. ASSUME NEW s \in Sids, RecoverDecide(s) \/ RecoverPay(s) PROVE Promised
      BY <2>6, PaymentIsPromised
  <2>7. ASSUME NEW w \in Runners, EndPrepare(w) \/ EndApply(w) \/ AwaitRaises(w)
        PROVE  Promised
      BY <2>1, <2>5, <2>7 DEF EndPrepare, EndApply, AwaitRaises
  <2>8. CASE \/ Hit \/ Stand \/ Surrender \/ OnTimeout \/ RetryClick \/ Restart
             \/ UNCHANGED vars \/ \E w \in Runners : ResolveDealer(w) \/ EndShow(w)
    <3>1. NoCall
        BY <2>8 DEF Hit, Stand, Surrender, OnTimeout, RetryClick, ResolveDealer, EndShow,
                    Restart, vars, NoCall
    <3>2. QED
        BY <2>1, <3>1
  <2>9. QED
      BY <1>3, <2>2, <2>3, <2>4, <2>6, <2>7, <2>8 DEF Next
<1>4. BInv /\ NobodyOwes /\ [Next]_vars => NobodyOwes' /\ [Store!PNext]_(Store!pvars)
    BY <1>3, OwesNothingKept DEF Promised, store, Store!pvars
<1>5. QED
    BY <1>1, <1>2, <1>4, BlackjackInvariance, PTL DEF Spec, Store!PSpec
===============================================================================
