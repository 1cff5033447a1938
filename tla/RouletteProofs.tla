----------------------------- MODULE RouletteProofs -----------------------------
(***************************************************************************)
(* Theorems about Roulette: for any finite set of players, any bet and any *)
(* gun, whenever the first save of a match is committed.                   *)
(***************************************************************************)
EXTENDS Roulette, SumTheorems, SequenceTheorems

USE PlayersAssumption, HostAssumption, BetAssumption

(***************************************************************************)
(* Lists of players.                                                       *)
(***************************************************************************)
\* A list without one of its members.
LEMMA WithoutOne ==
    ASSUME NEW seq \in Seq(Players), IsInjective(seq), NEW p \in Range(seq)
    PROVE  /\ Without(seq, p) \in Seq(Players)
           /\ Len(Without(seq, p)) = Len(seq) - 1
           /\ IsInjective(Without(seq, p))
           /\ Range(Without(seq, p)) = Range(seq) \ {p}
<1> DEFINE i == CHOOSE i \in DOMAIN seq : seq[i] = p
           n == Len(seq)
           rest == [j \in 1 .. n - 1 |-> seq[IF j < i THEN j ELSE j + 1]]
<1>1. n \in Nat /\ DOMAIN seq = 1 .. n /\ \A j \in 1 .. n : seq[j] \in Players
  OBVIOUS
<1>2. i \in 1 .. n /\ seq[i] = p
  BY <1>1 DEF Range
<1>3. Without(seq, p) = rest
  BY DEF Without
<1> HIDE DEF i, n
<1>4. n - 1 \in Nat /\ \A j \in 1 .. n - 1 : rest[j] \in Players
  BY <1>1, <1>2
<1>5. rest \in Seq(Players) /\ Len(rest) = n - 1 /\ DOMAIN rest = 1 .. n - 1
  <2> DEFINE k == n - 1
  <2>1. k \in Nat /\ rest \in [1 .. k -> Players]
    BY <1>4
  <2> HIDE DEF k, rest
  <2>2. rest \in Seq(Players)
    BY <2>1, SeqDef
  <2>3. Len(rest) = k /\ DOMAIN rest = 1 .. k
    BY <2>1, <2>2
  <2> QED BY <2>2, <2>3 DEF k
<1>6. ASSUME NEW j \in 1 .. n - 1
      PROVE  rest[j] = IF j < i THEN seq[j] ELSE seq[j + 1]
  BY <1>6
<1> HIDE DEF rest
<1>7. \A a, b \in 1 .. n : seq[a] = seq[b] => a = b
  BY <1>1 DEF IsInjective
<1>8. ASSUME NEW a \in 1 .. n - 1, NEW b \in 1 .. n - 1, rest[a] = rest[b]
      PROVE  a = b
  <2> DEFINE x == IF a < i THEN a ELSE a + 1
             y == IF b < i THEN b ELSE b + 1
  <2>1. x \in 1 .. n /\ y \in 1 .. n
    BY <1>1, <1>2
  <2>2. seq[x] = seq[y]
    BY <1>6, <1>8
  <2>3. x = y
    BY <1>7, <2>1, <2>2
  <2> QED BY <1>1, <1>2, <2>3
<1>9. IsInjective(rest)
  BY <1>5, <1>8 DEF IsInjective
<1>10. ASSUME NEW q \in Range(rest) PROVE q \in Range(seq) \ {p}
  <2>1. PICK j \in 1 .. n - 1 : q = rest[j]
    BY <1>5, <1>10 DEF Range
  <2> DEFINE x == IF j < i THEN j ELSE j + 1
  <2>2. x \in 1 .. n /\ x # i
    BY <1>1, <1>2
  <2>3. q = seq[x]
    BY <1>6, <2>1
  <2>4. q # p
    BY <1>2, <1>7, <2>2, <2>3
  <2> QED BY <1>1, <2>2, <2>3, <2>4 DEF Range
<1>11. ASSUME NEW q \in Range(seq) \ {p} PROVE q \in Range(rest)
  <2>1. PICK k \in 1 .. n : q = seq[k]
    BY <1>1, <1>11 DEF Range
  <2>2. k # i
    BY <1>2, <1>11, <2>1
  <2> DEFINE j == IF k < i THEN k ELSE k - 1
  <2>3. j \in 1 .. n - 1 /\ (IF j < i THEN j ELSE j + 1) = k
    BY <1>1, <1>2, <2>2
  <2>4. rest[j] = q
    BY <1>6, <2>1, <2>3
  <2> QED BY <1>5, <2>3, <2>4 DEF Range
<1> QED BY <1>1, <1>3, <1>5, <1>9, <1>10, <1>11 DEF n

\* A list with a new member.
LEMMA AppendOne ==
    ASSUME NEW seq \in Seq(Players), IsInjective(seq), NEW p \in Players, p \notin Range(seq)
    PROVE  /\ Append(seq, p) \in Seq(Players)
           /\ IsInjective(Append(seq, p))
           /\ Range(Append(seq, p)) = Range(seq) \union {p}
<1> DEFINE n == Len(seq)
           all == Append(seq, p)
<1>1. /\ n \in Nat /\ DOMAIN seq = 1 .. n
      /\ all \in Seq(Players) /\ Len(all) = n + 1 /\ DOMAIN all = 1 .. n + 1
      /\ all[n + 1] = p /\ \A j \in 1 .. n : all[j] = seq[j]
  OBVIOUS
<1> HIDE DEF n, all
<1>2. \A j \in 1 .. n : seq[j] # p
  BY <1>1 DEF Range
<1>3. ASSUME NEW a \in 1 .. n + 1, NEW b \in 1 .. n + 1, all[a] = all[b] PROVE a = b
  <2>1. CASE a = n + 1 /\ b = n + 1
    BY <2>1
  <2>2. CASE a = n + 1 /\ b # n + 1
    BY <1>1, <1>2, <1>3, <2>2
  <2>3. CASE a # n + 1 /\ b = n + 1
    BY <1>1, <1>2, <1>3, <2>3
  <2>4. CASE a # n + 1 /\ b # n + 1
    BY <1>1, <1>3, <2>4 DEF IsInjective
  <2> QED BY <2>1, <2>2, <2>3, <2>4
<1>4. IsInjective(all)
  BY <1>1, <1>3 DEF IsInjective
<1>5. Range(all) = Range(seq) \union {p}
  <2>1. ASSUME NEW q \in Range(all) PROVE q \in Range(seq) \union {p}
    BY <1>1, <2>1 DEF Range
  <2>2. ASSUME NEW q \in Range(seq) PROVE q \in Range(all)
    BY <1>1, <2>2 DEF Range
  <2>3. p \in Range(all)
    BY <1>1 DEF Range
  <2> QED BY <2>1, <2>2, <2>3
<1> QED BY <1>1, <1>4, <1>5 DEF all

\* The lists that a match begins with.
LEMMA FirstLists ==
    /\ <<Host>> \in Seq(Players) /\ IsInjective(<<Host>>) /\ Range(<<Host>>) = {Host}
    /\ Len(<<Host>>) = 1
    /\ \A p \in Players \ {Host} :
          /\ <<Host, p>> \in Seq(Players) /\ IsInjective(<<Host, p>>)
          /\ Range(<<Host, p>>) = {Host, p} /\ Len(<<Host, p>>) = 2
BY DEF IsInjective, Range

\* Who is listed is a player.
LEMMA ListedArePlayers == \A seq \in Seq(Players) : Range(seq) \subseteq Players
BY DEF Range

\* The next player is another one who is listed.
LEMMA NextIsAnother ==
    ASSUME NEW x, x.alive \in Seq(Players), IsInjective(x.alive), Len(x.alive) >= 2,
           x.turn \in Range(x.alive)
    PROVE  NextAlive(x) \in Range(x.alive) \ {x.turn}
<1> DEFINE i == CHOOSE i \in DOMAIN x.alive : x.alive[i] = x.turn
           n == Len(x.alive)
           j == (i % n) + 1
<1>1. n \in Nat /\ n >= 2 /\ DOMAIN x.alive = 1 .. n
  OBVIOUS
<1>2. i \in 1 .. n /\ x.alive[i] = x.turn
  BY <1>1 DEF Range
<1>3. NextAlive(x) = x.alive[j]
  BY DEF NextAlive
<1> HIDE DEF i, n
<1>4. j \in 1 .. n /\ j # i
  <2>1. CASE i = n
    <3>1. i % n = 0
      BY <1>1, <2>1
    <3> QED BY <1>1, <1>2, <2>1, <3>1
  <2>2. CASE i # n
    <3>1. i % n = i
      BY <1>1, <1>2, <2>2
    <3> QED BY <1>1, <1>2, <2>2, <3>1
  <2> QED BY <2>1, <2>2
<1> HIDE DEF j
<1>5. x.alive[j] # x.turn
  BY <1>1, <1>2, <1>4 DEF IsInjective
<1> QED BY <1>1, <1>3, <1>4, <1>5 DEF Range

(***************************************************************************)
(* Matches, as data.                                                       *)
(***************************************************************************)
\* The fields of a match, and what the absence of one is not.
LEMMA MatchFields ==
    ASSUME NEW x \in Match
    PROVE  /\ x # None
           /\ x.mode \in {"duel", "royale"} /\ x.view \in {"invite", "lobby", "shoot", "choice"}
           /\ x.parts \in Seq(Players) /\ x.alive \in Seq(Players) /\ x.turn \in Players
           /\ x.stakes \in [Players -> Nat] /\ x.chambers \in Nat /\ x.bullets \in Nat
           /\ x.settled \in BOOLEAN /\ x.joined \in BOOLEAN /\ x.closed \in BOOLEAN
<1>1. x.view # "none"
  BY DEF Match
<1>2. x # None
  BY <1>1 DEF None
<1> QED BY <1>2 DEF Match

\* MatchInv says more than MatchType.
LEMMA MatchHasType == \A x : MatchInv(x) => MatchType(x)
BY MatchFields, ListedArePlayers DEF MatchInv, MatchType, ListsInv

\* What a change of the view, or of what only the view knows, leaves alone.
SameGame(x, y) ==
    /\ y.mode = x.mode /\ y.parts = x.parts /\ y.alive = x.alive /\ y.turn = x.turn
    /\ y.stakes = x.stakes /\ y.settled = x.settled /\ y.joined = x.joined

\* Another view of the same match.
LEMMA ViewChanges ==
    ASSUME NEW x, MatchInv(x), NEW v \in {"invite", "lobby", "shoot", "choice"},
           v = "invite" => IsDuel(x), v = "lobby" => ~IsDuel(x),
           v \in {"shoot", "choice"} => x.joined
    PROVE  /\ MatchInv([x EXCEPT !.view = v])
           /\ [x EXCEPT !.view = v].view = v
           /\ SameGame(x, [x EXCEPT !.view = v])
<1> DEFINE y == [x EXCEPT !.view = v]
<1>1. x \in Match
  BY DEF MatchInv
<1>2. y \in Match
  BY <1>1 DEF Match
<1>3. y.view = v /\ SameGame(x, y) /\ y.chambers = x.chambers /\ y.bullets = x.bullets
  BY <1>1 DEF Match, SameGame
<1> HIDE DEF y
<1>4. ViewInv(y) /\ ListsInv(y) /\ GunInv(y)
  BY <1>3 DEF MatchInv, ViewInv, ListsInv, GunInv, IsDuel, Playing, SameGame
<1> QED BY <1>2, <1>3, <1>4 DEF MatchInv, y

\* Its invitation is closed, or forgotten to be.
LEMMA ClosedChanges ==
    ASSUME NEW x, MatchInv(x), NEW b \in BOOLEAN
    PROVE  /\ MatchInv([x EXCEPT !.closed = b])
           /\ [x EXCEPT !.closed = b].view = x.view
           /\ SameGame(x, [x EXCEPT !.closed = b])
<1> DEFINE y == [x EXCEPT !.closed = b]
<1>1. x \in Match
  BY DEF MatchInv
<1>2. y \in Match
  BY <1>1 DEF Match
<1>3. y.view = x.view /\ SameGame(x, y) /\ y.chambers = x.chambers /\ y.bullets = x.bullets
  BY <1>1 DEF Match, SameGame
<1> HIDE DEF y
<1>4. ViewInv(y) /\ ListsInv(y) /\ GunInv(y)
  BY <1>3 DEF MatchInv, ViewInv, ListsInv, GunInv, IsDuel, Playing, SameGame
<1> QED BY <1>2, <1>3, <1>4 DEF MatchInv, y

\* The match is called off.
LEMMA CalledOff ==
    ASSUME NEW x, MatchInv(x), NEW y, y = [x EXCEPT !.settled = TRUE, !.closed = TRUE]
    PROVE  /\ MatchInv(y) /\ y.settled /\ y.stakes = x.stakes /\ y.joined = x.joined
           /\ y.view = x.view /\ y.mode = x.mode /\ y.alive = x.alive
<1>1. x \in Match
  BY DEF MatchInv
<1>2. y \in Match
  BY <1>1 DEF Match
<1>3. /\ y.view = x.view /\ y.mode = x.mode /\ y.parts = x.parts /\ y.alive = x.alive
      /\ y.turn = x.turn /\ y.stakes = x.stakes /\ y.settled /\ y.joined = x.joined
  BY <1>1 DEF Match
<1>4. ViewInv(y) /\ ListsInv(y) /\ GunInv(y)
  BY <1>3 DEF MatchInv, ViewInv, ListsInv, GunInv, IsDuel, Playing
<1> QED BY <1>2, <1>3, <1>4 DEF MatchInv

\* The second player of a duel pays and joins.
AsJoined(x, p, turn) ==
    [x EXCEPT !.view = "shoot", !.stakes[p] = Bet, !.turn = turn, !.joined = TRUE, !.closed = TRUE]

\* The opponent of a duel joins.
LEMMA DuelJoined ==
    ASSUME NEW x, MatchInv(x), IsDuel(x), ~x.settled, NEW p \in Players,
           NEW turn \in Range(x.parts), NEW y, y = AsJoined(x, p, turn)
    PROVE  /\ MatchInv(y) /\ y.joined /\ ~y.settled /\ Playing(y)
           /\ y.stakes = [x.stakes EXCEPT ![p] = Bet]
           /\ y.alive = x.alive /\ y.mode = x.mode
<1> DEFINE stakes == [x.stakes EXCEPT ![p] = Bet]
<1>1. x \in Match /\ Bet \in Nat
  BY DEF MatchInv
<1>2. turn \in Players /\ stakes \in [Players -> Nat]
  BY <1>1, MatchFields, ListedArePlayers
<1>3. y = [x EXCEPT !.view = "shoot", !.stakes = stakes, !.turn = turn,
                    !.joined = TRUE, !.closed = TRUE]
  BY <1>1 DEF Match, AsJoined
<1> HIDE DEF stakes
<1>4. y \in Match
  BY <1>1, <1>2, <1>3 DEF Match
<1>5. /\ y.view = "shoot" /\ y.mode = x.mode /\ y.parts = x.parts /\ y.alive = x.alive
      /\ y.turn = turn /\ y.joined /\ y.settled = x.settled
      /\ y.chambers = x.chambers /\ y.bullets = x.bullets /\ y.stakes = stakes
  BY <1>1, <1>3 DEF Match
<1>6. ViewInv(y) /\ ListsInv(y) /\ GunInv(y) /\ Playing(y)
  BY <1>5 DEF MatchInv, ViewInv, ListsInv, GunInv, IsDuel, Playing
<1> QED BY <1>4, <1>5, <1>6 DEF MatchInv, stakes

\* The list of an elimination match changes before it starts.
AsListed(x, all, p, n) == [x EXCEPT !.parts = all, !.alive = all, !.stakes[p] = n]

\* The list of a match that has not begun changes by a player.
LEMMA ListChanges ==
    ASSUME NEW x, MatchInv(x), ~IsDuel(x), ~x.joined, ~x.settled,
           NEW all \in Seq(Players), IsInjective(all), NEW p \in Players, NEW n \in Nat,
           NEW y, y = AsListed(x, all, p, n)
    PROVE  /\ MatchInv(y) /\ ~y.joined /\ ~y.settled /\ y.view = x.view
           /\ y.stakes = [x.stakes EXCEPT ![p] = n]
           /\ y.alive = all /\ y.mode = x.mode
<1> DEFINE stakes == [x.stakes EXCEPT ![p] = n]
<1>1. x \in Match
  BY DEF MatchInv
<1>2. stakes \in [Players -> Nat]
  BY <1>1, MatchFields
<1>3. y = [x EXCEPT !.parts = all, !.alive = all, !.stakes = stakes]
  BY <1>1 DEF Match, AsListed
<1> HIDE DEF stakes
<1>4. y \in Match
  BY <1>1, <1>2, <1>3 DEF Match
<1>5. /\ y.view = x.view /\ y.mode = x.mode /\ y.parts = all /\ y.alive = all
      /\ y.joined = x.joined /\ y.settled = x.settled
      /\ y.chambers = x.chambers /\ y.bullets = x.bullets /\ y.stakes = stakes
  BY <1>1, <1>3 DEF Match
<1>6. ViewInv(y) /\ ListsInv(y) /\ GunInv(y)
  BY <1>5 DEF MatchInv, ViewInv, ListsInv, GunInv, IsDuel, Playing
<1> QED BY <1>4, <1>5, <1>6 DEF MatchInv, stakes

\* The gun is loaded with a bullet for each player but one.
AsStarted(x, turn) == [x EXCEPT !.view = "shoot", !.turn = turn, !.joined = TRUE]

\* A royale begins with its gun loaded.
LEMMA GunLoaded ==
    ASSUME NEW x, MatchInv(x), ~IsDuel(x), ~x.settled, NEW turn \in Range(x.alive),
           Len(x.alive) >= 2,
           NEW y, y = LoadGun(AsStarted(x, turn))
    PROVE  /\ MatchInv(y) /\ y.joined /\ ~y.settled /\ Playing(y)
           /\ y.stakes = x.stakes /\ y.alive = x.alive /\ y.mode = x.mode
<1> DEFINE z == AsStarted(x, turn)
           n == Len(x.alive)
           bullets == IF n > 2 THEN n - 1 ELSE 1
           all == Chambers + (IF n > 2 THEN n - 2 ELSE 0) * ExtraChambers
           chambers == IF all > bullets THEN all ELSE bullets
<1>1. x \in Match
  BY DEF MatchInv
<1>2. turn \in Players /\ n \in Nat /\ n >= 2
  BY <1>1, MatchFields, ListedArePlayers
<1>3. z \in Match
  BY <1>1, <1>2 DEF Match, AsStarted
<1>4. /\ z.view = "shoot" /\ z.mode = x.mode /\ z.parts = x.parts /\ z.alive = x.alive
      /\ z.turn = turn /\ z.stakes = x.stakes /\ z.joined /\ z.settled = x.settled
  BY <1>1 DEF Match, AsStarted
<1>5. y = [z EXCEPT !.bullets = bullets, !.chambers = chambers]
  BY <1>4 DEF LoadGun
<1>6. bullets \in Nat /\ bullets >= n - 1
  BY <1>2
<1>7. all \in Nat
  <2> DEFINE k == IF n > 2 THEN n - 2 ELSE 0
  <2>1. k \in Nat
    BY <1>2
  <2> HIDE DEF k
  <2>2. k * ExtraChambers \in Nat /\ Chambers \in Nat
    BY <2>1, GunAssumption, SMT
  <2> QED BY <2>2 DEF k
<1> HIDE DEF z, n, bullets, all
<1>8. chambers \in Nat /\ chambers >= bullets
  BY <1>6, <1>7
<1> HIDE DEF chambers
<1>9. y \in Match
  BY <1>3, <1>5, <1>6, <1>8 DEF Match
<1>10. /\ y.view = "shoot" /\ y.mode = x.mode /\ y.parts = x.parts /\ y.alive = x.alive
       /\ y.turn = turn /\ y.stakes = x.stakes /\ y.joined /\ y.settled = x.settled
       /\ y.chambers = chambers /\ y.bullets = bullets
  BY <1>3, <1>4, <1>5 DEF Match
<1>11. ViewInv(y) /\ ListsInv(y) /\ GunInv(y) /\ Playing(y)
  BY <1>2, <1>6, <1>8, <1>10 DEF MatchInv, ViewInv, ListsInv, GunInv, IsDuel, Playing, n
<1> QED BY <1>9, <1>10, <1>11 DEF MatchInv

\* A match that is played never has to reload.
LEMMA NoReload ==
    ASSUME NEW x, MatchInv(x), x.joined, ~x.settled
    PROVE  Ready(x) = x
<1>1. x \in Match
  BY DEF MatchInv
<1>2. x.chambers \in Nat /\ x.bullets \in Nat /\ Len(x.alive) \in Nat
  BY <1>1, MatchFields
<1>3. ~IsDuel(x) => x.chambers # 0
  BY <1>2 DEF MatchInv, ListsInv, GunInv
<1> QED BY <1>3 DEF Ready

\* The shot was not fired: one chamber less.
LEMMA Missed ==
    ASSUME NEW x, MatchInv(x), x.joined, ~x.settled, x.chambers > x.bullets,
           NEW y, y = [[x EXCEPT !.chambers = @ - 1] EXCEPT !.view = "choice"]
    PROVE  /\ MatchInv(y) /\ y.joined /\ ~y.settled /\ Playing(y)
           /\ y.stakes = x.stakes /\ y.alive = x.alive /\ y.mode = x.mode
<1> DEFINE left == x.chambers - 1
<1>1. x \in Match
  BY DEF MatchInv
<1>2. left \in Nat /\ left >= x.bullets
  BY <1>1, MatchFields
<1>3. y = [x EXCEPT !.chambers = left, !.view = "choice"]
  BY <1>1 DEF Match
<1> HIDE DEF left
<1>4. y \in Match
  BY <1>1, <1>2, <1>3 DEF Match
<1>5. /\ y.view = "choice" /\ y.mode = x.mode /\ y.parts = x.parts /\ y.alive = x.alive
      /\ y.turn = x.turn /\ y.stakes = x.stakes /\ y.joined = x.joined
      /\ y.settled = x.settled /\ y.chambers = left /\ y.bullets = x.bullets
  BY <1>1, <1>3 DEF Match
<1>6. ViewInv(y) /\ ListsInv(y) /\ GunInv(y) /\ Playing(y)
  BY <1>2, <1>5 DEF MatchInv, ViewInv, ListsInv, GunInv, IsDuel, Playing
<1> QED BY <1>4, <1>5, <1>6 DEF MatchInv

\* Whose turn it is loses, with a bullet at most gone from the gun before: the
\* match is over or goes on without them.
LEMMA LoserIsOut ==
    ASSUME NEW x, x \in Match, ViewInv(x), ListsInv(x), x.joined, ~x.settled,
           x.chambers >= x.bullets, ~IsDuel(x) => x.bullets >= Len(x.alive) - 2,
           NEW y, y = Eliminated(x)
    PROVE  /\ MatchInv(y) /\ y.joined /\ y.view = x.view /\ y.mode = x.mode
           /\ y.stakes = x.stakes /\ y.settled = Final(y)
           /\ y.settled => Winner(y) \in Players
           /\ ~y.settled => /\ ~IsDuel(y)
                            /\ Range(y.alive) = Range(x.alive) \ {x.turn}
<1>1. CASE IsDuel(x)
  <2>1. y = [x EXCEPT !.settled = TRUE]
    BY <1>1 DEF Eliminated
  <2>2. y \in Match
    BY <2>1 DEF Match
  <2>3. /\ y.view = x.view /\ y.mode = x.mode /\ y.parts = x.parts /\ y.alive = x.alive
        /\ y.turn = x.turn /\ y.stakes = x.stakes /\ y.joined = x.joined /\ y.settled
    BY <2>1 DEF Match
  <2>4. ViewInv(y) /\ ListsInv(y) /\ GunInv(y) /\ IsDuel(y)
    BY <1>1, <2>3 DEF ViewInv, ListsInv, GunInv, IsDuel, Playing
  <2>5. y.parts \in Seq(Players) /\ Len(y.parts) = 2 /\ IsInjective(y.parts)
    BY <2>2, <2>4, MatchFields DEF ListsInv
  <2>6. \E p \in Players : p \in Range(y.parts) /\ p # y.turn
    <3>1. y.parts[1] \in Players /\ y.parts[2] \in Players /\ y.parts[1] # y.parts[2]
      BY <2>5 DEF IsInjective
    <3>2. y.parts[1] \in Range(y.parts) /\ y.parts[2] \in Range(y.parts)
      BY <2>5 DEF Range
    <3> QED BY <3>1, <3>2
  <2>7. Winner(y) \in Players
    BY <2>4, <2>6 DEF Winner
  <2>8. Final(y)
    BY <2>4 DEF Final
  <2> QED BY <2>2, <2>3, <2>4, <2>7, <2>8 DEF MatchInv
<1>2. CASE ~IsDuel(x)
  <2> DEFINE rest == Without(x.alive, x.turn)
             over == Len(rest) = 1
             turn == IF over THEN x.turn ELSE NextAlive(x)
  <2>1. /\ x.alive \in Seq(Players) /\ IsInjective(x.alive) /\ x.turn \in Range(x.alive)
        /\ Len(x.alive) \in Nat /\ Len(x.alive) >= 2
    BY <1>2, MatchFields DEF ListsInv
  <2>2. /\ rest \in Seq(Players) /\ Len(rest) = Len(x.alive) - 1 /\ IsInjective(rest)
        /\ Range(rest) = Range(x.alive) \ {x.turn}
    BY <2>1, WithoutOne
  <2>3. NextAlive(x) \in Range(rest)
    BY <2>1, <2>2, NextIsAnother
  <2>4. y = [x EXCEPT !.alive = rest, !.settled = over, !.turn = turn]
    BY <1>2 DEF Eliminated
  <2>5. turn \in Players /\ (~over => turn \in Range(rest))
    BY <2>2, <2>3, MatchFields, ListedArePlayers
  <2>6. over \in BOOLEAN /\ (over <=> Len(rest) = 1)
    OBVIOUS
  <2> HIDE DEF rest, over, turn
  <2>7. y \in Match
    BY <2>2, <2>4, <2>5, <2>6 DEF Match
  <2>8. /\ y.view = x.view /\ y.mode = x.mode /\ y.parts = x.parts /\ y.alive = rest
        /\ y.turn = turn /\ y.stakes = x.stakes /\ y.joined = x.joined /\ y.settled = over
        /\ y.chambers = x.chambers /\ y.bullets = x.bullets
    BY <2>4 DEF Match
  <2>9. ~IsDuel(y) /\ y.joined
    BY <1>2, <2>8 DEF IsDuel
  <2>10. ViewInv(y)
    BY <1>2, <2>8 DEF ViewInv, IsDuel, Playing
  <2>11. ~over => Len(rest) >= 2
    <3>0. PICK k \in Nat : k = Len(x.alive)
      BY <2>1
    <3>1. k >= 2 /\ Len(rest) = k - 1
      BY <2>1, <2>2, <3>0
    <3>2. k # 2 => k - 1 >= 2
      BY <3>1
    <3>3. Len(rest) # 1 => Len(rest) >= 2
      BY <3>1, <3>2
    <3> QED BY <3>3 DEF over
  <2>12. ListsInv(y)
    BY <2>2, <2>5, <2>8, <2>9, <2>11 DEF ListsInv
  <2>13. GunInv(y)
    <3>1. x.bullets \in Nat /\ x.bullets >= Len(rest) - 1
      BY <1>2, <2>1, <2>2, MatchFields
    <3> QED BY <2>8, <3>1 DEF GunInv
  <2>14. y.settled = Final(y)
    BY <2>6, <2>8, <2>9 DEF Final
  <2>15. y.settled => Winner(y) \in Players
    <3>0. rest \in Seq(Players)
      BY <2>2
    <3>1. Len(rest) = 1 => rest[1] \in Players
      BY ONLY <3>0
    <3>2. over => rest[1] \in Players
      BY <3>1 DEF over
    <3> QED BY <2>8, <2>9, <3>2 DEF Winner
  <2> QED BY <2>2, <2>7, <2>8, <2>9, <2>10, <2>12, <2>13, <2>14, <2>15 DEF MatchInv
<1> QED BY <1>1, <1>2

\* The shot was fired: a chamber and a bullet less, and the loser is out.
LEMMA Hit ==
    ASSUME NEW x, MatchInv(x), x.joined, ~x.settled, x.bullets > 0,
           NEW y, y = Eliminated([[x EXCEPT !.chambers = @ - 1] EXCEPT !.bullets = @ - 1])
    PROVE  /\ MatchInv(y) /\ y.joined /\ y.view = x.view /\ y.mode = x.mode
           /\ y.stakes = x.stakes /\ y.settled = Final(y)
           /\ y.settled => Winner(y) \in Players
           /\ ~y.settled => /\ ~IsDuel(y)
                            /\ Range(y.alive) = Range(x.alive) \ {x.turn}
<1> DEFINE z == [[x EXCEPT !.chambers = @ - 1] EXCEPT !.bullets = @ - 1]
           chambers == x.chambers - 1
           bullets == x.bullets - 1
<1>1. x \in Match
  BY DEF MatchInv
<1>2. chambers \in Nat /\ bullets \in Nat /\ chambers >= bullets
  BY <1>1, MatchFields DEF MatchInv, GunInv
<1>3. ~IsDuel(x) => bullets >= Len(x.alive) - 2
  BY <1>1, MatchFields DEF MatchInv, GunInv
<1>4. z = [x EXCEPT !.chambers = chambers, !.bullets = bullets]
  BY <1>1 DEF Match
<1> HIDE DEF z, chambers, bullets
<1>5. z \in Match
  BY <1>1, <1>2, <1>4 DEF Match
<1>6. /\ z.view = x.view /\ z.mode = x.mode /\ z.parts = x.parts /\ z.alive = x.alive
      /\ z.turn = x.turn /\ z.stakes = x.stakes /\ z.joined = x.joined
      /\ z.settled = x.settled /\ z.chambers = chambers /\ z.bullets = bullets
  BY <1>1, <1>4 DEF Match
<1>7. ViewInv(z) /\ ListsInv(z) /\ (IsDuel(z) <=> IsDuel(x))
  BY <1>6 DEF MatchInv, ViewInv, ListsInv, IsDuel, Playing
<1>8. z.chambers >= z.bullets /\ (~IsDuel(z) => z.bullets >= Len(z.alive) - 2)
  BY <1>2, <1>3, <1>6, <1>7
<1>9. y = Eliminated(z)
  BY DEF z
<1>10. z.joined /\ ~z.settled
  BY <1>6
<1>11. /\ MatchInv(y) /\ y.joined /\ y.view = z.view /\ y.mode = z.mode
       /\ y.stakes = z.stakes /\ y.settled = Final(y)
       /\ y.settled => Winner(y) \in Players
       /\ ~y.settled => /\ ~IsDuel(y)
                        /\ Range(y.alive) = Range(z.alive) \ {z.turn}
  BY ONLY <1>5, <1>7, <1>8, <1>9, <1>10, LoserIsOut
<1> QED BY <1>6, <1>11

\* Whose turn it is doubles the stake.
AsRaised(x) == [x EXCEPT !.stakes[x.turn] = @ + Bet]

\* The player to move raises the stake by a bet.
LEMMA Raised ==
    ASSUME NEW x, MatchInv(x), NEW y, y = AsRaised(x)
    PROVE  /\ MatchInv(y) /\ y.view = x.view /\ y.mode = x.mode /\ y.alive = x.alive
           /\ y.turn = x.turn /\ y.joined = x.joined /\ y.settled = x.settled
           /\ y.stakes = [x.stakes EXCEPT ![x.turn] = x.stakes[x.turn] + Bet]
<1> DEFINE stakes == [x.stakes EXCEPT ![x.turn] = x.stakes[x.turn] + Bet]
<1>1. x \in Match
  BY DEF MatchInv
<1>2. stakes \in [Players -> Nat]
  BY <1>1, MatchFields
<1>3. y = [x EXCEPT !.stakes = stakes]
  BY <1>1 DEF Match, AsRaised
<1> HIDE DEF stakes
<1>4. y \in Match
  BY <1>1, <1>2, <1>3 DEF Match
<1>5. /\ y.view = x.view /\ y.mode = x.mode /\ y.parts = x.parts /\ y.alive = x.alive
      /\ y.turn = x.turn /\ y.stakes = stakes /\ y.joined = x.joined
      /\ y.settled = x.settled /\ y.chambers = x.chambers /\ y.bullets = x.bullets
  BY <1>1, <1>3 DEF Match
<1>6. ViewInv(y) /\ ListsInv(y) /\ GunInv(y)
  BY <1>5 DEF MatchInv, ViewInv, ListsInv, GunInv, IsDuel, Playing
<1> QED BY <1>4, <1>5, <1>6 DEF MatchInv, stakes

\* The turn goes to the other player of a duel, or to the next one.
AsPassed(x) ==
    [x EXCEPT !.view = "shoot", !.turn = IF IsDuel(x) THEN Winner(x) ELSE NextAlive(x)]

\* The turn goes on to the next.
LEMMA Passed ==
    ASSUME NEW x, MatchInv(x), x.joined, ~x.settled, NEW y, y = AsPassed(x)
    PROVE  /\ MatchInv(y) /\ y.joined /\ ~y.settled /\ Playing(y)
           /\ y.stakes = x.stakes /\ y.alive = x.alive /\ y.mode = x.mode
<1> DEFINE turn == IF IsDuel(x) THEN Winner(x) ELSE NextAlive(x)
<1>1. x \in Match /\ x.parts \in Seq(Players) /\ x.alive \in Seq(Players)
  BY MatchFields DEF MatchInv
<1>2. IsDuel(x) => turn \in Players /\ turn \in Range(x.parts)
  <2> SUFFICES ASSUME IsDuel(x) PROVE turn \in Players /\ turn \in Range(x.parts)
    OBVIOUS
  <2>1. Len(x.parts) = 2 /\ IsInjective(x.parts)
    BY DEF MatchInv, ListsInv
  <2>2. x.parts[1] \in Players /\ x.parts[2] \in Players /\ x.parts[1] # x.parts[2]
    BY <1>1, <2>1 DEF IsInjective
  <2>3. x.parts[1] \in Range(x.parts) /\ x.parts[2] \in Range(x.parts)
    BY <1>1, <2>1 DEF Range
  <2>4. \E p \in Players : p \in Range(x.parts) /\ p # x.turn
    BY <2>2, <2>3
  <2> QED BY <2>4 DEF Winner
<1>3. ~IsDuel(x) => turn \in Players /\ turn \in Range(x.alive)
  <2>1. ~IsDuel(x) => NextAlive(x) \in Range(x.alive)
    BY <1>1, NextIsAnother DEF MatchInv, ListsInv
  <2> QED BY <1>1, <2>1, ListedArePlayers
<1>4. y = [x EXCEPT !.view = "shoot", !.turn = turn]
  BY DEF AsPassed
<1> HIDE DEF turn
<1>5. y \in Match
  BY <1>1, <1>2, <1>3, <1>4 DEF Match
<1>6. /\ y.view = "shoot" /\ y.mode = x.mode /\ y.parts = x.parts /\ y.alive = x.alive
      /\ y.turn = turn /\ y.stakes = x.stakes /\ y.joined = x.joined
      /\ y.settled = x.settled /\ y.chambers = x.chambers /\ y.bullets = x.bullets
  BY <1>1, <1>4 DEF Match
<1>7. ViewInv(y) /\ ListsInv(y) /\ GunInv(y) /\ Playing(y)
  BY <1>2, <1>3, <1>6 DEF MatchInv, ViewInv, ListsInv, GunInv, IsDuel, Playing
<1> QED BY <1>5, <1>6, <1>7 DEF MatchInv

\* The stake of one player.
OneStake(p) == [Zero EXCEPT ![p] = Bet]

\* The stake of the player who creates a match.
LEMMA OneStakeType ==
    ASSUME NEW p \in Players
    PROVE  /\ OneStake(p) \in [Players -> Nat]
           /\ \A q \in Players : OneStake(p)[q] = IF q = p THEN Bet ELSE 0
BY DEF OneStake, Zero

\* A new match, with its host alone or with the player who is invited.
LEMMA NewMatches ==
    ASSUME NEW x, x = NewMatch("royale", <<Host>>)
                  \/ \E p \in Players \ {Host} : x = NewMatch("duel", <<Host, p>>)
    PROVE  /\ MatchInv(x) /\ ~x.joined /\ ~x.settled /\ ~Playing(x)
           /\ x.stakes = OneStake(Host)
<1>1. PICK mode \in {"duel", "royale"}, parts \in Seq(Players) :
          /\ x = NewMatch(mode, parts)
          /\ IsInjective(parts) /\ Host \in Range(parts)
          /\ mode = "duel" => Len(parts) = 2
  <2>1. CASE x = NewMatch("royale", <<Host>>)
    BY <2>1, FirstLists
  <2>2. CASE \E p \in Players \ {Host} : x = NewMatch("duel", <<Host, p>>)
    BY <2>2, FirstLists
  <2> QED BY <2>1, <2>2
<1>2. x = [mode |-> mode, view |-> IF mode = "duel" THEN "invite" ELSE "lobby",
           parts |-> parts, alive |-> parts, turn |-> Host,
           stakes |-> OneStake(Host), chambers |-> Chambers, bullets |-> 1,
           settled |-> FALSE, joined |-> FALSE, closed |-> FALSE]
  BY <1>1 DEF NewMatch, OneStake
<1>3. Chambers \in Nat /\ Chambers >= 1 /\ OneStake(Host) \in [Players -> Nat]
  BY GunAssumption, OneStakeType
<1>4. x \in Match
  BY <1>1, <1>2, <1>3 DEF Match
<1>5. ViewInv(x) /\ ListsInv(x) /\ GunInv(x) /\ ~Playing(x)
  BY <1>1, <1>2, <1>3 DEF ViewInv, ListsInv, GunInv, IsDuel, Playing
<1> QED BY <1>2, <1>4, <1>5 DEF MatchInv

\* A rematch begins as a duel that both have joined.
AsRematch(p, turn) ==
    [NewMatch("duel", <<Host, p>>) EXCEPT !.view = "shoot", !.turn = turn,
        !.stakes = [q \in Players |-> IF q \in {Host, p} THEN Bet ELSE 0],
        !.joined = TRUE]

\* A rematch is a duel of two who have paid.
LEMMA Rematches ==
    ASSUME NEW p \in Players \ {Host}, NEW turn \in {Host, p},
           NEW x, x = AsRematch(p, turn)
    PROVE  /\ MatchInv(x) /\ x.joined /\ ~x.settled /\ Playing(x) /\ IsDuel(x)
           /\ x.stakes = [q \in Players |-> IF q \in {Host, p} THEN Bet ELSE 0]
<1> DEFINE parts == <<Host, p>>
           stakes == [q \in Players |-> IF q \in {Host, p} THEN Bet ELSE 0]
<1>1. parts \in Seq(Players) /\ IsInjective(parts) /\ Len(parts) = 2 /\ turn \in Range(parts)
  BY FirstLists
<1>2. stakes \in [Players -> Nat]
  OBVIOUS
<1>3. x = [mode |-> "duel", view |-> "shoot", parts |-> parts, alive |-> parts, turn |-> turn,
           stakes |-> stakes, chambers |-> Chambers, bullets |-> 1,
           settled |-> FALSE, joined |-> TRUE, closed |-> FALSE]
  BY DEF NewMatch, AsRematch
<1> HIDE DEF parts, stakes
<1>4. Chambers \in Nat /\ Chambers >= 1 /\ turn \in Players /\ Host \in Players
  BY GunAssumption
<1>5. x \in Match
  BY ONLY <1>1, <1>2, <1>3, <1>4 DEF Match
<1>6. ViewInv(x) /\ ListsInv(x) /\ GunInv(x) /\ Playing(x) /\ IsDuel(x)
  BY ONLY <1>1, <1>3, <1>4 DEF ViewInv, ListsInv, GunInv, IsDuel, Playing
<1>7. x.joined /\ ~x.settled /\ x.stakes = stakes
  BY ONLY <1>3
<1> QED BY <1>5, <1>6, <1>7 DEF MatchInv, stakes

(***************************************************************************)
(* Sums over the players.                                                  *)
(***************************************************************************)
Amounts == [Players -> Nat]

\* Nothing, for everyone.
LEMMA ZeroIsAmounts == Zero \in Amounts /\ \A p \in Players : Zero[p] = 0
BY DEF Zero, Amounts

\* A sum of amounts is an amount; of nothing, it is zero.
LEMMA SumIsNat == Sum(Zero) = 0 /\ \A f \in Amounts : Sum(f) \in Nat
BY SumOfNat, SumOfZeros, ZeroIsAmounts DEF Sum, Amounts

\* Sums grow with what is summed.
LEMMA SumGrows ==
    ASSUME NEW f \in Amounts, NEW g \in Amounts, \A q \in Players : f[q] <= g[q]
    PROVE  Sum(f) <= Sum(g)
<1>1. \A q \in Players : f[q] \in Int /\ g[q] \in Int /\ f[q] <= g[q]
  BY DEF Amounts
<1> QED BY <1>1, SumLess DEF Sum

\* One player's amount changes by c.
LEMMA SumAdds ==
    ASSUME NEW f \in Amounts, NEW g, NEW p \in Players, NEW c \in Int,
           g = [f EXCEPT ![p] = f[p] + c]
    PROVE  Sum(g) = Sum(f) + c
<1>1. f \in [Players -> Int] /\ g \in [Players -> Int]
  BY DEF Amounts
<1>2. g[p] = f[p] + c /\ f[p] \in Int /\ \A q \in Players : q # p => g[q] = f[q]
  BY DEF Amounts
<1>3. SumFunction(g) = SumFunction(f) - f[p] + g[p]
  BY ONLY <1>1, <1>2, p \in Players, PlayersAssumption, TotalChanges
<1>4. SumFunction(f) \in Int
  BY <1>1, TotalType
<1>5. Sum(f) = SumFunction(f) /\ Sum(g) = SumFunction(g)
  BY <1>1 DEF Sum, SumFunction
<1> QED BY <1>2, <1>3, <1>4, <1>5

\* No amount grows, except one player's by c at most.
LEMMA SumGains ==
    ASSUME NEW f \in Amounts, NEW g \in Amounts, NEW p \in Players, NEW c \in Nat,
           \A q \in Players : g[q] <= f[q] + (IF q = p THEN c ELSE 0)
    PROVE  Sum(g) <= Sum(f) + c
<1> DEFINE h == [f EXCEPT ![p] = f[p] + c]
<1>1. h \in Amounts /\ \A q \in Players : h[q] = f[q] + (IF q = p THEN c ELSE 0)
  BY DEF Amounts
<1>2. Sum(h) = Sum(f) + c
  BY SumAdds
<1> HIDE DEF h
<1>3. Sum(g) <= Sum(h)
  BY <1>1, SumGrows
<1> QED BY <1>2, <1>3

\* No amount grows, and one player's falls by c at least.
LEMMA SumGives ==
    ASSUME NEW f \in Amounts, NEW g \in Amounts, NEW p \in Players, NEW c \in Nat,
           g[p] + c <= f[p], \A q \in Players : g[q] <= f[q]
    PROVE  Sum(g) + c <= Sum(f)
<1> DEFINE h == [g EXCEPT ![p] = g[p] + c]
<1>1. h \in Amounts /\ \A q \in Players : h[q] = g[q] + (IF q = p THEN c ELSE 0)
  BY DEF Amounts
<1>2. Sum(h) = Sum(g) + c
  BY SumAdds
<1> HIDE DEF h
<1>3. \A q \in Players : h[q] <= f[q]
  BY <1>1 DEF Amounts
<1>4. Sum(h) <= Sum(f)
  BY <1>1, <1>3, SumGrows
<1> QED BY <1>2, <1>4

\* The sum of what one player alone has.
LEMMA SumOfOne ==
    ASSUME NEW f \in Amounts, NEW p \in Players, \A q \in Players \ {p} : f[q] = 0
    PROVE  Sum(f) = f[p]
<1>1. f = [Zero EXCEPT ![p] = Zero[p] + f[p]]
  BY ZeroIsAmounts DEF Amounts
<1>2. f[p] \in Int
  BY DEF Amounts
<1> HIDE DEF Zero
<1>3. Sum(f) = Sum(Zero) + f[p]
  BY <1>1, <1>2, ZeroIsAmounts, SumAdds
<1> QED BY <1>2, <1>3, SumIsNat

\* Amounts added player by player.
LEMMA SumsAdd ==
    ASSUME NEW f \in Amounts, NEW g \in Amounts
    PROVE  Sum([p \in Players |-> f[p] + g[p]]) = Sum(f) + Sum(g)
<1> DEFINE h == [p \in Players |-> f[p] + g[p]]
<1>1. \A p \in Players : f[p] \in Int /\ g[p] \in Int /\ h[p] = f[p] + g[p]
  BY DEF Amounts
<1> HIDE DEF h
<1>2. Sum(h) = Sum(f) + Sum(g)
  BY <1>1, SumPlus DEF Sum
<1> QED BY <1>2 DEF h

(***************************************************************************)
(* The money of a match.                                                   *)
(***************************************************************************)
\* The types of the columns and of the counters.
Purses ==
    /\ purse \in Amounts /\ charged \in Amounts /\ paid \in Amounts
    /\ unsaved \in Nat /\ twice \in Nat

\* What is held and what is covered are amounts.
Covered ==
    /\ Holdings \in Amounts /\ Cover \in Amounts
    /\ \A p \in Players : Holdings[p] <= Cover[p]
    /\ \A p \in Players : Cover[p] = IF Held(p) > Written(p) THEN Held(p) ELSE Written(p)
    /\ \A p \in Players : InHand(p) \in Nat /\ Drafted(p) \in Nat /\ Written(p) \in Nat
    /\ \A p \in Players :
          Holdings[p] = IF InHand(p) > Drafted(p) THEN InHand(p) ELSE Drafted(p)

\* The stakes of a match are amounts.
LEMMA MatchStakes == \A x : MatchInv(x) => x.stakes \in Amounts
BY MatchFields DEF MatchInv, Amounts

\* What is held and what covers it are amounts.
LEMMA AmountsHeld == MatchesInv /\ HandlerInv => Covered
<1> SUFFICES ASSUME MatchesInv, HandlerInv PROVE Covered
  OBVIOUS
<1>1. /\ m # None => m.stakes \in Amounts
      /\ row # None => row.stakes \in Amounts
      /\ draft # None => draft.stakes \in Amounts
      /\ at = "leave" => pend.credits \in Amounts
  BY MatchStakes DEF MatchesInv, HandlerInv, Amounts
<1>2. \A p \in Players : InHand(p) \in Nat /\ Drafted(p) \in Nat /\ Written(p) \in Nat
  <2> SUFFICES ASSUME NEW p \in Players
      PROVE  InHand(p) \in Nat /\ Drafted(p) \in Nat /\ Written(p) \in Nat
    OBVIOUS
  <2>1. Bet \in Nat
    BY BetAssumption
  <2>2. InHand(p) \in Nat
    BY <1>1, <2>1 DEF InHand, Amounts
  <2>3. Drafted(p) \in Nat /\ Written(p) \in Nat
    BY <1>1 DEF Drafted, Written, Amounts
  <2> QED BY <2>2, <2>3
<1>3. \A p \in Players : Held(p) \in Nat
  BY <1>2 DEF Held
<1>4. /\ Holdings \in Amounts /\ Cover \in Amounts
      /\ \A p \in Players : Holdings[p] <= Cover[p]
  BY <1>2, <1>3 DEF Holdings, Cover, Amounts
<1>5. \A p \in Players :
        /\ Cover[p] = IF Held(p) > Written(p) THEN Held(p) ELSE Written(p)
        /\ Holdings[p] = IF InHand(p) > Drafted(p) THEN InHand(p) ELSE Drafted(p)
  BY DEF Holdings, Cover, Held
<1> QED BY <1>2, <1>4, <1>5 DEF Covered

\* The same in the next state.
LEMMA AmountsHeldNext == (MatchesInv /\ HandlerInv)' => Covered'
<1> SUFFICES ASSUME MatchesInv', HandlerInv' PROVE Covered'
  OBVIOUS
<1>1. /\ m' # None => m'.stakes \in Amounts
      /\ row' # None => row'.stakes \in Amounts
      /\ draft' # None => draft'.stakes \in Amounts
      /\ at' = "leave" => pend'.credits \in Amounts
  BY MatchStakes DEF MatchesInv, HandlerInv, Amounts
<1>2. \A p \in Players : InHand(p)' \in Nat /\ Drafted(p)' \in Nat /\ Written(p)' \in Nat
  <2> SUFFICES ASSUME NEW p \in Players
      PROVE  InHand(p)' \in Nat /\ Drafted(p)' \in Nat /\ Written(p)' \in Nat
    OBVIOUS
  <2>1. Bet \in Nat
    BY BetAssumption
  <2>2. InHand(p)' \in Nat
    BY <1>1, <2>1 DEF InHand, Amounts
  <2>3. Drafted(p)' \in Nat /\ Written(p)' \in Nat
    BY <1>1 DEF Drafted, Written, Amounts
  <2> QED BY <2>2, <2>3
<1>3. \A p \in Players : Held(p)' \in Nat
  BY <1>2 DEF Held
<1>4. /\ Holdings' \in Amounts /\ Cover' \in Amounts
      /\ \A p \in Players : Holdings'[p] <= Cover'[p]
  BY <1>2, <1>3 DEF Holdings, Cover, Amounts
<1>5. \A p \in Players :
        /\ Cover'[p] = IF Held(p)' > Written(p)' THEN Held(p)' ELSE Written(p)'
        /\ Holdings'[p] = IF InHand(p)' > Drafted(p)' THEN InHand(p)' ELSE Drafted(p)'
  BY DEF Holdings, Cover, Held
<1> QED BY <1>2, <1>4, <1>5 DEF Covered

\* What is out of the purses is a number.
LEMMA OutIsInt == Purses => Out \in Int
BY SumIsNat DEF Purses, Out

\* The same in the next state.
LEMMA OutIsIntNext == Purses' => Out' \in Int
BY SumIsNat DEF Purses, Out

\* A player pays c, and what is held and covered grows by that at most.
LEMMA MoneyComesIn ==
    ASSUME MoneyInv, late' # "yes" => late # "yes", Covered, Covered', Purses, Purses',
           NEW p \in Players, NEW c \in Nat,
           charged' = [charged EXCEPT ![p] = @ + c], UNCHANGED <<paid, unsaved, twice>>,
           \A q \in Players : Holdings'[q] <= Holdings[q] + (IF q = p THEN c ELSE 0),
           \A q \in Players : Cover'[q] <= Cover[q] + (IF q = p THEN c ELSE 0),
           late' # "yes" /\ at' = "settle" => Sum(pend'.credits) <= Out + c
    PROVE  MoneyInv'
<1> SUFFICES ASSUME late' # "yes" PROVE Money'
  BY DEF MoneyInv
<1>0. Money
  BY DEF MoneyInv
<1>1. Sum(charged') = Sum(charged) + c
  <2>1. charged \in Amounts /\ charged' = [charged EXCEPT ![p] = charged[p] + c] /\ c \in Int
    BY DEF Purses
  <2> QED BY ONLY <2>1, p \in Players, SumAdds
<1>2. Sum(Holdings') <= Sum(Holdings) + c
  BY SumGains DEF Covered
<1>3. Sum(Cover') <= Sum(Cover) + c
  BY SumGains DEF Covered
<1>4. /\ Sum(charged) \in Nat /\ Sum(paid) \in Nat /\ twice \in Nat /\ unsaved \in Nat
      /\ Sum(Holdings) \in Nat /\ Sum(Cover) \in Nat
      /\ Sum(Holdings') \in Nat /\ Sum(Cover') \in Nat
  BY SumIsNat DEF Purses, Covered
<1>5. Out' = Out + c /\ Out \in Int
  BY <1>1, <1>4 DEF Out
<1>6. Sum(Holdings') <= Out'
  BY <1>0, <1>2, <1>4, <1>5 DEF Money
<1>7. Sum(Cover') <= Out' + unsaved'
  BY <1>0, <1>3, <1>4, <1>5 DEF Money
<1>8. at' = "settle" => Sum(pend'.credits) <= Out'
  BY <1>5
<1> QED BY <1>6, <1>7, <1>8 DEF Money

\* No money moves, and no more is held or covered.
LEMMA MoneyStays ==
    ASSUME MoneyInv, late' # "yes" => late # "yes", Covered, Covered', Purses, Purses',
           UNCHANGED <<charged, paid, unsaved, twice>>,
           \A q \in Players : Holdings'[q] <= Holdings[q],
           \A q \in Players : Cover'[q] <= Cover[q],
           late' # "yes" /\ at' = "settle" => Sum(pend'.credits) <= Out
    PROVE  MoneyInv'
<1> SUFFICES ASSUME late' # "yes" PROVE Money'
  BY DEF MoneyInv
<1>0. Money
  BY DEF MoneyInv
<1>1. Sum(Holdings') <= Sum(Holdings) /\ Sum(Cover') <= Sum(Cover)
  BY SumGrows DEF Covered
<1>2. /\ Sum(Holdings) \in Nat /\ Sum(Cover) \in Nat /\ unsaved \in Nat
      /\ Sum(Holdings') \in Nat /\ Sum(Cover') \in Nat
  BY SumIsNat DEF Covered, Purses
<1>3. Out \in Int /\ Out' = Out /\ unsaved' = unsaved
  BY OutIsInt DEF Out
<1>4. Sum(Holdings') <= Out'
  BY <1>0, <1>1, <1>2, <1>3 DEF Money
<1>5. Sum(Cover') <= Out' + unsaved'
  BY <1>0, <1>1, <1>2, <1>3 DEF Money
<1> QED BY <1>3, <1>4, <1>5 DEF Money

\* The match is saved as it is: what is covered is what was held.
LEMMA MoneySaved ==
    ASSUME MoneyInv, late' # "yes" => late # "yes", Covered, Covered', Purses, Purses',
           UNCHANGED <<charged, paid, twice>>, unsaved' = 0,
           \A q \in Players : Holdings'[q] <= Holdings[q],
           \A q \in Players : Cover'[q] <= Holdings[q],
           late' # "yes" /\ at' = "settle" => Sum(pend'.credits) <= Out
    PROVE  MoneyInv'
<1> SUFFICES ASSUME late' # "yes" PROVE Money'
  BY DEF MoneyInv
<1>0. Money
  BY DEF MoneyInv
<1>1. Sum(Holdings') <= Sum(Holdings) /\ Sum(Cover') <= Sum(Holdings)
  BY SumGrows DEF Covered
<1>2. Sum(Holdings) \in Nat /\ Sum(Holdings') \in Nat /\ Sum(Cover') \in Nat
  BY SumIsNat DEF Covered, Purses
<1>3. Out \in Int /\ Out' = Out
  BY OutIsInt DEF Out
<1>4. Sum(Holdings') <= Out'
  BY <1>0, <1>1, <1>2, <1>3 DEF Money
<1>5. Sum(Cover') <= Out' + unsaved'
  BY <1>0, <1>1, <1>2, <1>3 DEF Money
<1> QED BY <1>3, <1>4, <1>5 DEF Money

\* Money is paid back.
LEMMA MoneyGoesOut ==
    ASSUME late' # "yes" => late # "yes", Covered', Purses, Purses', NEW credits \in Amounts,
           UNCHANGED <<charged, twice>>, paid' = [p \in Players |-> paid[p] + credits[p]],
           late' # "yes" => /\ Sum(Holdings') + Sum(credits) <= Out
                            /\ Sum(Cover') + Sum(credits) <= Out + unsaved',
           at' # "settle"
    PROVE  MoneyInv'
<1> SUFFICES ASSUME late' # "yes" PROVE Money'
  BY DEF MoneyInv
<1>1. Sum(paid') = Sum(paid) + Sum(credits)
  BY SumsAdd DEF Purses
<1>2. /\ Sum(paid) \in Nat /\ Sum(charged) \in Nat /\ Sum(credits) \in Nat
      /\ twice \in Nat /\ unsaved' \in Nat
      /\ Sum(Holdings') \in Nat /\ Sum(Cover') \in Nat
  BY SumIsNat DEF Covered, Purses
<1>3. Out' = Out - Sum(credits) /\ Out \in Int
  BY <1>1, <1>2 DEF Out
<1>4. Sum(Holdings') <= Out'
  BY <1>2, <1>3
<1>5. Sum(Cover') <= Out' + unsaved'
  BY <1>2, <1>3
<1> QED BY <1>4, <1>5 DEF Money

\* A recovery takes up what the row says, the unsaved part of it again.
LEMMA MoneyTakenUp ==
    ASSUME MoneyInv, late' # "yes" => late # "yes", Covered, Covered', Purses, Purses',
           UNCHANGED <<charged, paid>>, twice' = twice + unsaved, unsaved' = 0,
           \A q \in Players : Holdings'[q] <= Cover[q],
           \A q \in Players : Cover'[q] <= Cover[q],
           at' = "settle" => /\ pend'.credits \in Amounts
                             /\ \A q \in Players : pend'.credits[q] <= Cover[q]
    PROVE  MoneyInv'
<1> SUFFICES ASSUME late' # "yes" PROVE Money'
  BY DEF MoneyInv
<1>0. Money
  BY DEF MoneyInv
<1>1. Sum(Holdings') <= Sum(Cover) /\ Sum(Cover') <= Sum(Cover)
  BY SumGrows DEF Covered
<1>2. /\ Sum(paid) \in Nat /\ Sum(charged) \in Nat /\ twice \in Nat /\ unsaved \in Nat
      /\ Sum(Cover) \in Nat /\ Sum(Holdings') \in Nat /\ Sum(Cover') \in Nat
  BY SumIsNat DEF Covered, Purses
<1>3. Out' = Out + unsaved /\ Out \in Int
  BY <1>2 DEF Out
<1>4. Sum(Holdings') <= Out'
  BY <1>0, <1>1, <1>2, <1>3 DEF Money
<1>5. Sum(Cover') <= Out' + unsaved'
  BY <1>0, <1>1, <1>2, <1>3 DEF Money
<1>6. ASSUME at' = "settle" PROVE Sum(pend'.credits) <= Out'
  <2>1. Sum(pend'.credits) <= Sum(Cover) /\ Sum(pend'.credits) \in Nat
    BY <1>6, SumGrows, SumIsNat DEF Covered
  <2> QED BY <1>0, <1>2, <1>3, <2>1 DEF Money
<1> QED BY <1>4, <1>5, <1>6 DEF Money

(***************************************************************************)
(* The inductive invariant, with the types of the columns in place of      *)
(* TypeOK: the types of the matches follow.                                *)
(***************************************************************************)
Columns ==
    /\ Purses
    /\ events \subseteq Players \union {"refund", "leave"}
    /\ live \in BOOLEAN /\ told \in BOOLEAN
    /\ at \in {"idle", "save", "settle", "leave", "rematch", "recover"}
    /\ making \in {"none", "sent", "saving"} /\ late \in {"no", "overtaken", "yes"}
    /\ restarts \in 0 .. MaxRestarts

Core ==
    Columns /\ MatchesInv /\ OrderInv /\ HandlerInv /\ OutInv /\ RowInv /\ MoneyInv

\* What the proofs carry implies the invariant.
LEMMA CoreIsEnough == Core => RInv
<1>1. Columns /\ MatchesInv => TypeOK
  BY MatchHasType DEF Columns, Purses, Amounts, MatchesInv, TypeOK, MatchType
<1> QED BY <1>1 DEF Core, RInv

\* It covers the stakes.
LEMMA CoreCovers == Core => Covered
BY AmountsHeld DEF Core

\* A match that meets its invariant is a match.
LEMMA InvMatchIsSome == \A x : MatchInv(x) => x # None
BY MatchFields DEF MatchInv

\* The first state.
LEMMA CoreAtStart == Init => Core
<1> SUFFICES ASSUME Init PROVE Core
  OBVIOUS
<1>1. [p \in Players |-> Initial] \in Amounts
  BY DEF Amounts
<1>2. Columns
  <2>1. Purses
    BY <1>1, ZeroIsAmounts DEF Init, Purses
  <2>2. 0 \in 0 .. MaxRestarts
    BY LimitsAssumption
  <2> QED BY <2>1, <2>2 DEF Init, Columns
<1>3. MatchesInv /\ OrderInv /\ HandlerInv /\ OutInv /\ RowInv
  BY DEF Init, MatchesInv, OrderInv, HandlerInv, OutInv, Clean, RowInv
<1>4. Holdings = Zero /\ Cover = Zero
  BY DEF Init, Holdings, Cover, Held, InHand, Drafted, Written, Zero
<1>5. Out = 0
  BY SumIsNat DEF Init, Out
<1>6. MoneyInv
  BY <1>4, <1>5, SumIsNat DEF Init, MoneyInv, Money
<1> QED BY <1>2, <1>3, <1>6 DEF Core

(***************************************************************************)
(* A click on a live match.  Whoever clicks may pay c.                     *)
(***************************************************************************)
Paying(p, c) ==
    /\ charged' = [charged EXCEPT ![p] = @ + c] /\ purse' \in Amounts
    /\ UNCHANGED <<row, events, paid, unsaved, twice>>

\* What was paid in is never forgotten.
LEMMA StillCharged ==
    ASSUME charged \in Amounts, charged # Zero, NEW p \in Players, NEW c \in Nat,
           charged' = [charged EXCEPT ![p] = @ + c]
    PROVE  charged' \in Amounts /\ charged' # Zero
<1>1. charged' \in Amounts
  BY DEF Amounts
<1>2. PICK q \in Players : charged[q] # 0
  BY DEF Zero, Amounts
<1>3. charged[q] \in Nat /\ charged[q] > 0 /\ charged'[q] >= charged[q]
  BY <1>2 DEF Amounts
<1>4. charged'[q] # 0
  BY <1>1, <1>3 DEF Amounts
<1> QED BY <1>1, <1>4 DEF Zero

\* What is covered grows with what is held, if what is written does not change.
LEMMA CoverFollows ==
    ASSUME Covered, Covered', NEW p \in Players, NEW c \in Nat,
           \A q \in Players : Held(q) = Holdings[q] /\ Held(q)' = Holdings'[q]
                              /\ Written(q)' = Written(q),
           \A q \in Players : Holdings'[q] <= Holdings[q] + (IF q = p THEN c ELSE 0)
    PROVE  \A q \in Players : Cover'[q] <= Cover[q] + (IF q = p THEN c ELSE 0)
<1> SUFFICES ASSUME NEW q \in Players
    PROVE  Cover'[q] <= Cover[q] + (IF q = p THEN c ELSE 0)
  OBVIOUS
<1>1. /\ Cover[q] \in Nat /\ Cover'[q] \in Nat /\ Holdings[q] \in Nat /\ Holdings'[q] \in Nat
      /\ Holdings[q] <= Cover[q]
  BY DEF Covered, Amounts
<1>2. Cover[q] = IF Holdings[q] > Written(q) THEN Holdings[q] ELSE Written(q)
  BY DEF Covered
<1>3. Cover'[q] = IF Holdings'[q] > Written(q) THEN Holdings'[q] ELSE Written(q)
  BY DEF Covered
<1>4. CASE Holdings'[q] > Written(q)
  BY <1>1, <1>3, <1>4
<1>5. CASE ~(Holdings'[q] > Written(q))
  <2>1. Cover'[q] = Written(q) /\ Written(q) \in Nat
    BY <1>1, <1>3, <1>5
  <2>2. Written(q) <= Cover[q]
    BY <1>1, <1>2, <2>1
  <2> QED BY <1>1, <2>1, <2>2
<1> QED BY <1>4, <1>5

\* A match goes on with a payment or none, and waits for its save.
LEMMA GoesOn ==
    ASSUME Core, at = "idle", m # None, ~m.settled,
           NEW p \in Players, NEW c \in Nat, Paying(p, c),
           NEW x, m' = x, MatchInv(x), x.joined => Playing(x), ~x.settled,
           (late # "yes" => events \intersect Range(x.alive) = {}), ~x.joined => ~m.joined,
           \A q \in Players : x.stakes[q] <= m.stakes[q] + (IF q = p THEN c ELSE 0),
           at' \in {"idle", "save"}, live' \in BOOLEAN, told' \in BOOLEAN,
           UNCHANGED <<pend, making, draft, late, restarts>>
    PROVE  Core'
<1>1. charged # Zero /\ charged \in Amounts
  BY DEF Core, OrderInv, Columns, Purses
<1>2. charged' \in Amounts /\ charged' # Zero
  BY <1>1, StillCharged DEF Paying
<1>3. x # None /\ MatchInv(m)
  BY InvMatchIsSome DEF Core, MatchesInv
<1>4. Columns'
  BY <1>2 DEF Core, Columns, Purses, Paying
<1>5. MatchesInv'
  BY DEF Core, MatchesInv, Paying
<1>6. OrderInv'
  BY <1>2, <1>3 DEF Core, OrderInv, Paying
<1>7. HandlerInv'
  BY <1>3 DEF HandlerInv
<1>8. OutInv' /\ RowInv'
  BY <1>3 DEF Core, OutInv, Clean, RowInv, Paying
<1>9. Covered /\ Covered'
  BY <1>5, <1>7, CoreCovers, AmountsHeldNext
<1>10. x.stakes \in Amounts /\ m.stakes \in Amounts
  BY <1>3, MatchStakes
<1>11. \A q \in Players :
          InHand(q) = m.stakes[q] /\ InHand(q)' = x.stakes[q] /\ Drafted(q)' = Drafted(q)
  BY <1>3, <1>10 DEF InHand, Drafted, Amounts
<1>12. \A q \in Players : Held(q) = Holdings[q] /\ Held(q)' = Holdings'[q]
                          /\ Written(q)' = Written(q)
  BY DEF Holdings, Written, Paying
<1>13. \A q \in Players : Holdings'[q] <= Holdings[q] + (IF q = p THEN c ELSE 0)
  BY <1>9, <1>11 DEF Covered
<1>14. \A q \in Players : Cover'[q] <= Cover[q] + (IF q = p THEN c ELSE 0)
  BY <1>9, <1>12, <1>13, CoverFollows
<1>15. MoneyInv'
  BY <1>4, <1>9, <1>13, <1>14, MoneyComesIn DEF Core, Columns, Paying
<1> QED BY <1>4, <1>5, <1>6, <1>7, <1>8, <1>15 DEF Core

\* A click that begins a settlement of x.
LEMMA BeginsToSettle ==
    ASSUME Core, at = "idle", m # None, ~m.settled,
           NEW p \in Players, NEW c \in Nat, Paying(p, c),
           NEW x, NEW event \in Players \union {"refund"}, NEW credits \in Amounts,
           NEW from, from # "recover",
           StartSettle(x, event, credits, from),
           MatchInv(x), x.joined => Playing(x),
           x.settled = (event = "refund" \/ Final(x)),
           \A q \in Players : x.stakes[q] <= m.stakes[q] + (IF q = p THEN c ELSE 0),
           Sum(credits) <= Sum(x.stakes),
           ~x.settled => /\ credits = Zero /\ ~IsDuel(x) /\ x.joined
                         /\ event \notin Range(x.alive)
                         /\ (late # "yes" => events \intersect Range(x.alive) = {})
    PROVE  Core'
<1> DEFINE final == event = "refund" \/ Final(x)
<1>0. /\ m' = x /\ at' = "settle" /\ told' = (from = "told")
      /\ pend' = [event |-> event, credits |-> credits, from |-> from, final |-> final]
      /\ UNCHANGED <<live, making, draft, late, restarts>>
  BY DEF StartSettle
<1>0a. /\ pend'.event = event /\ pend'.credits = credits /\ pend'.final = final
       /\ pend'.from # "recover"
       /\ final \in BOOLEAN /\ final = x.settled
  BY <1>0
<1> HIDE DEF final
<1>1. charged # Zero /\ charged \in Amounts
  BY DEF Core, OrderInv, Columns, Purses
<1>2. charged' \in Amounts /\ charged' # Zero
  BY <1>1, StillCharged DEF Paying
<1>3. x # None /\ MatchInv(m)
  BY InvMatchIsSome DEF Core, MatchesInv
<1>4. Columns'
  BY <1>0, <1>2 DEF Core, Columns, Purses, Paying
<1>5. MatchesInv'
  BY <1>0 DEF Core, MatchesInv, Paying
<1>6. OrderInv'
  BY <1>0, <1>0a, <1>2, <1>3 DEF Core, OrderInv, Paying
<1>7. HandlerInv'
  BY <1>0, <1>0a, <1>3 DEF HandlerInv, Amounts
<1>8. OutInv' /\ RowInv'
  BY <1>0, <1>3 DEF Core, OutInv, Clean, RowInv, Paying
<1>9. Covered /\ Covered'
  BY <1>5, <1>7, CoreCovers, AmountsHeldNext
<1>10. x.stakes \in Amounts /\ m.stakes \in Amounts
  BY <1>3, MatchStakes
<1>11. \A q \in Players : /\ InHand(q) = m.stakes[q] /\ m.stakes[q] <= Holdings[q]
                          /\ InHand(q)' = IF x.settled THEN 0 ELSE x.stakes[q]
                          /\ Drafted(q)' = Drafted(q)
  <2> SUFFICES ASSUME NEW q \in Players
      PROVE  /\ InHand(q) = m.stakes[q] /\ m.stakes[q] <= Holdings[q]
             /\ InHand(q)' = IF x.settled THEN 0 ELSE x.stakes[q]
             /\ Drafted(q)' = Drafted(q)
    OBVIOUS
  <2>1. InHand(q) = m.stakes[q] /\ InHand(q)' = IF x.settled THEN 0 ELSE x.stakes[q]
    BY <1>0, <1>3, <1>10 DEF InHand, Amounts
  <2>2. Drafted(q)' = Drafted(q)
    BY <1>0 DEF Drafted
  <2> QED BY <1>9, <2>1, <2>2 DEF Covered
<1>12. \A q \in Players : Held(q) = Holdings[q] /\ Held(q)' = Holdings'[q]
                          /\ Written(q)' = Written(q)
  BY <1>0 DEF Holdings, Written, Paying
<1>13. \A q \in Players : Holdings'[q] <= Holdings[q] + (IF q = p THEN c ELSE 0)
  BY <1>9, <1>10, <1>11 DEF Amounts, Covered
<1>14. \A q \in Players : Cover'[q] <= Cover[q] + (IF q = p THEN c ELSE 0)
  BY <1>9, <1>12, <1>13, CoverFollows
<1>15. late' # "yes" => Sum(credits) <= Out + c
  <2>0. SUFFICES ASSUME late # "yes" PROVE Sum(credits) <= Out + c
    BY <1>0
  <2>1. \A q \in Players : x.stakes[q] <= Holdings[q] + (IF q = p THEN c ELSE 0)
    BY <1>9, <1>10, <1>11 DEF Amounts, Covered
  <2>2. Sum(x.stakes) <= Sum(Holdings) + c
    BY <1>9, <1>10, <2>1, SumGains DEF Covered
  <2>3. /\ Sum(Holdings) \in Nat /\ Sum(x.stakes) \in Nat /\ Sum(credits) \in Nat
        /\ Out \in Int
    BY <1>9, <1>10, SumIsNat, OutIsInt DEF Covered, Core, Columns
  <2>4. Sum(Holdings) <= Out
    BY <2>0 DEF Core, MoneyInv, Money
  <2> QED BY <2>2, <2>3, <2>4
<1>16. MoneyInv'
  BY <1>0, <1>0a, <1>4, <1>9, <1>13, <1>14, <1>15, MoneyComesIn DEF Core, Columns, Paying
<1> QED BY <1>4, <1>5, <1>6, <1>7, <1>8, <1>16 DEF Core

\* A call that changes no column, and one that debits the bet.
LEMMA NoCallPays == Core /\ NoCall => Paying(Host, 0)
BY DEF NoCall, db, Paying, Core, Columns, Purses, Amounts

\* A debit is the payment of a bet.
LEMMA DebitPays ==
    ASSUME Core, NEW p \in Players, Debit(p)
    PROVE  Paying(p, Bet)
<1>1. purse \in Amounts /\ purse[p] >= Bet /\ purse' = [purse EXCEPT ![p] = @ - Bet]
  BY DEF Core, Columns, Purses, Debit
<1>2. purse[p] - Bet \in Nat
  BY <1>1 DEF Amounts
<1>3. purse' \in Amounts
  BY <1>1, <1>2 DEF Amounts
<1> QED BY <1>3 DEF Debit, Paying

\* A view of a match that goes on.
LEMMA InViewFacts ==
    ASSUME Core, NEW v \in {"invite", "lobby", "shoot", "choice"}, InView(v)
    PROVE  /\ at = "idle" /\ m # None /\ m.view = v /\ ~m.settled
           /\ MatchInv(m) /\ (m.joined <=> Playing(m))
           /\ (late # "yes" => events \intersect Range(m.alive) = {})
           /\ m.stakes \in Amounts
<1>1. m # None
  BY DEF InView, None
<1>2. MatchInv(m) /\ (m.joined => Playing(m)) /\ (Playing(m) => m.joined)
  BY <1>1 DEF Core, MatchesInv, MatchInv, ViewInv
<1> QED BY <1>1, <1>2, MatchStakes DEF InView, Core, OutInv, Clean

\* The match is called off, and the stakes are to be paid back.
LEMMA RefundKeeps ==
    ASSUME Core, NEW v \in {"invite", "lobby"}, InView(v), NoCall,
           NEW from, from # "recover", StartRefund(m, from)
    PROVE  Core'
<1> DEFINE x == [m EXCEPT !.settled = TRUE, !.closed = TRUE]
<1>1. /\ at = "idle" /\ m # None /\ ~m.settled /\ MatchInv(m)
      /\ (m.joined => Playing(m)) /\ m.stakes \in Amounts
  BY InViewFacts
<1>2. /\ MatchInv(x) /\ x.settled /\ x.stakes = m.stakes /\ x.joined = m.joined
      /\ x.view = m.view
  BY <1>1, CalledOff
<1>3. StartSettle(x, "refund", m.stakes, from)
  BY DEF StartRefund
<1>4. Paying(Host, 0) /\ Host \in Players /\ 0 \in Nat
  BY NoCallPays
<1> HIDE DEF x
<1>5. /\ x.joined => Playing(x)
      /\ x.settled = ("refund" = "refund" \/ Final(x))
      /\ Sum(m.stakes) <= Sum(x.stakes)
      /\ \A q \in Players : x.stakes[q] <= m.stakes[q] + (IF q = Host THEN 0 ELSE 0)
  <2>1. x.joined => Playing(x)
    BY <1>1, <1>2 DEF Playing
  <2>2. x.settled = ("refund" = "refund" \/ Final(x))
    BY <1>2
  <2>3. Sum(m.stakes) <= Sum(x.stakes)
    BY <1>1, <1>2, SumIsNat
  <2>4. \A q \in Players : x.stakes[q] <= m.stakes[q] + (IF q = Host THEN 0 ELSE 0)
    BY <1>1, <1>2 DEF Amounts
  <2> QED BY <2>1, <2>2, <2>3, <2>4
<1> QED BY <1>1, <1>2, <1>3, <1>4, <1>5, BeginsToSettle

\* Somebody is out; the pot is to be paid if that ends the match.
LEMMA PayoutKeeps ==
    ASSUME Core, at = "idle", m # None, ~m.settled,
           NEW p \in Players, NEW c \in Nat, Paying(p, c),
           NEW x, NEW loser \in Players, NEW from, from # "recover", StartPayout(x, loser, from),
           MatchInv(x), x.joined, Playing(x), x.settled = Final(x),
           x.settled => Winner(x) \in Players,
           ~x.settled => ~IsDuel(x) /\ Range(x.alive) = Range(m.alive) \ {loser},
           \A q \in Players : x.stakes[q] <= m.stakes[q] + (IF q = p THEN c ELSE 0)
    PROVE  Core'
<1> DEFINE credits == IF x.settled THEN [Zero EXCEPT ![Winner(x)] = Sum(x.stakes)] ELSE Zero
<1>1. x.stakes \in Amounts /\ Sum(x.stakes) \in Nat
  BY MatchStakes, SumIsNat
<1>2. credits \in Amounts
  BY <1>1, ZeroIsAmounts DEF Amounts
<1>3. Sum(credits) <= Sum(x.stakes)
  <2>1. CASE x.settled
    <3>1. credits[Winner(x)] = Sum(x.stakes) /\ \A q \in Players \ {Winner(x)} : credits[q] = 0
      BY <2>1, ZeroIsAmounts DEF Amounts
    <3> HIDE DEF credits
    <3>2. Sum(credits) = credits[Winner(x)]
      BY <1>2, <2>1, <3>1, SumOfOne
    <3> QED BY <1>1, <3>1, <3>2
  <2>2. CASE ~x.settled
    BY <1>1, <2>2, SumIsNat
  <2> QED BY <2>1, <2>2
<1>4. StartSettle(x, loser, credits, from)
  BY DEF StartPayout
<1>5. ~x.settled => credits = Zero
  OBVIOUS
<1> HIDE DEF credits
<1>6. loser # "refund" /\ loser \in Players \union {"refund"}
  BY KeysAssumption
<1>7. x.settled = (loser = "refund" \/ Final(x))
  <2>1. (loser = "refund" \/ Final(x)) = Final(x)
    BY <1>6 DEF Final
  <2> QED BY <2>1
<1>8. (late # "yes" => events \intersect Range(m.alive) = {})
  BY DEF Core, OutInv, Clean
<1>9. ~x.settled => loser \notin Range(x.alive) /\ (late # "yes" => events \intersect Range(x.alive) = {})
  BY <1>8
<1> QED BY <1>2, <1>3, <1>4, <1>5, <1>6, <1>7, <1>9, BeginsToSettle

\* A pulled trigger, after c was paid.
LEMMA FireKeeps ==
    ASSUME Core, at = "idle", m # None, ~m.settled,
           NEW p \in Players, NEW c \in Nat, Paying(p, c),
           NEW x, NEW from, from # "recover", Fire(x, from),
           MatchInv(x), x.joined, ~x.settled, Playing(x), x.alive = m.alive,
           \A q \in Players : x.stakes[q] <= m.stakes[q] + (IF q = p THEN c ELSE 0)
    PROVE  Core'
<1> DEFINE gun == Ready(x)
           shot == [gun EXCEPT !.chambers = @ - 1]
<1>1. gun = x
  BY NoReload
<1>2. x.turn \in Players
  BY MatchFields DEF MatchInv
<1>3. \/ /\ x.chambers > x.bullets
         /\ ShowAndSave([[x EXCEPT !.chambers = @ - 1] EXCEPT !.view = "choice"])
      \/ /\ x.bullets > 0
         /\ StartPayout(Eliminated([[x EXCEPT !.chambers = @ - 1] EXCEPT !.bullets = @ - 1]),
                        x.turn, from)
  BY <1>1 DEF Fire
<1>4. CASE /\ x.chambers > x.bullets
           /\ ShowAndSave([[x EXCEPT !.chambers = @ - 1] EXCEPT !.view = "choice"])
  <2>1. PICK y : y = [[x EXCEPT !.chambers = @ - 1] EXCEPT !.view = "choice"]
    OBVIOUS
  <2>2. /\ MatchInv(y) /\ y.joined /\ ~y.settled /\ Playing(y)
        /\ y.stakes = x.stakes /\ y.alive = x.alive /\ y.mode = x.mode
    BY <1>4, <2>1, Missed
  <2>3. /\ m' = y /\ at' \in {"idle", "save"} /\ live' \in BOOLEAN /\ told' \in BOOLEAN
        /\ UNCHANGED <<pend, making, draft, late, restarts>>
    BY <1>4, <2>1 DEF ShowAndSave, Core, Columns
  <2>4. (late # "yes" => events \intersect Range(y.alive) = {})
    BY <2>2 DEF Core, OutInv, Clean
  <2> QED BY <2>2, <2>3, <2>4, GoesOn
<1>5. CASE /\ x.bullets > 0
           /\ StartPayout(Eliminated([[x EXCEPT !.chambers = @ - 1] EXCEPT !.bullets = @ - 1]),
                          x.turn, from)
  <2>1. PICK y : y = Eliminated([[x EXCEPT !.chambers = @ - 1] EXCEPT !.bullets = @ - 1])
    OBVIOUS
  <2>2. /\ MatchInv(y) /\ y.joined /\ y.view = x.view /\ y.mode = x.mode
        /\ y.stakes = x.stakes /\ y.settled = Final(y)
        /\ y.settled => Winner(y) \in Players
        /\ ~y.settled => ~IsDuel(y) /\ Range(y.alive) = Range(x.alive) \ {x.turn}
    BY <1>5, <2>1, Hit
  <2>3. Playing(y)
    BY <2>2 DEF Playing
  <2>4. StartPayout(y, x.turn, from)
    BY <1>5, <2>1
  <2> QED BY <1>2, <2>2, <2>3, <2>4, PayoutKeeps
<1> QED BY <1>3, <1>4, <1>5

(***************************************************************************)
(* RrInviteView and RrRoyaleLobbyView.                                     *)
(***************************************************************************)
\* No reply changes nothing in memory.
LEMMA NoReplyKeeps ==
    ASSUME Core, NEW v \in {"invite", "lobby", "shoot", "choice"}, InView(v),
           NEW p \in Players, NEW c \in Nat, Paying(p, c), NoReply
    PROVE  Core'
<1>1. /\ at = "idle" /\ m # None /\ ~m.settled /\ MatchInv(m)
      /\ (m.joined => Playing(m)) /\ m.stakes \in Amounts
      /\ (late # "yes" => events \intersect Range(m.alive) = {})
  BY InViewFacts
<1>2. /\ m' = m /\ at' \in {"idle", "save"} /\ live' \in BOOLEAN /\ told' \in BOOLEAN
      /\ UNCHANGED <<pend, making, draft, late, restarts>>
  BY <1>1 DEF NoReply, Unanswered, Core, Columns
<1>3. \A q \in Players : m.stakes[q] <= m.stakes[q] + (IF q = p THEN c ELSE 0)
  BY <1>1 DEF Amounts
<1> QED BY <1>1, <1>2, <1>3, GoesOn

\* The opponent of a duel accepts and pays.
LEMMA AcceptKeeps == Core /\ Accept => Core'
<1> SUFFICES ASSUME Core, Accept PROVE Core'
  OBVIOUS
<1>1. /\ at = "idle" /\ m # None /\ m.view = "invite" /\ ~m.settled /\ MatchInv(m)
      /\ m.stakes \in Amounts /\ (late # "yes" => events \intersect Range(m.alive) = {})
      /\ InView("invite")
  BY InViewFacts DEF Accept
<1>2. IsDuel(m) /\ m.parts \in Seq(Players) /\ Len(m.parts) = 2
  BY <1>1, MatchFields DEF MatchInv, ViewInv, ListsInv
<1>3. PICK p \in Players : p = m.parts[2]
  BY <1>2
<1>4. Paying(p, Bet) /\ Bet \in Nat
  BY <1>3, DebitPays DEF Accept
<1>5. CASE NoReply
  BY <1>1, <1>4, <1>5, NoReplyKeeps
<1>6. CASE \E turn \in Range(m.parts) :
             ShowAndSave([m EXCEPT !.view = "shoot", !.stakes[p] = Bet, !.turn = turn,
                                   !.joined = TRUE, !.closed = TRUE])
  <2>1. PICK turn \in Range(m.parts) : ShowAndSave(AsJoined(m, p, turn))
    BY <1>6 DEF AsJoined
  <2>2. PICK y : y = AsJoined(m, p, turn)
    OBVIOUS
  <2>3. /\ MatchInv(y) /\ y.joined /\ ~y.settled /\ Playing(y)
        /\ y.stakes = [m.stakes EXCEPT ![p] = Bet] /\ y.alive = m.alive
    <3>1. MatchInv(m) /\ IsDuel(m) /\ ~m.settled
      BY <1>1, <1>2
    <3> QED BY ONLY <3>1, <2>1, <2>2, p \in Players, DuelJoined
  <2>4. /\ m' = y /\ at' \in {"idle", "save"} /\ live' \in BOOLEAN /\ told' \in BOOLEAN
        /\ UNCHANGED <<pend, making, draft, late, restarts>>
    BY <2>1, <2>2 DEF ShowAndSave, Core, Columns
  <2>5. \A q \in Players : y.stakes[q] <= m.stakes[q] + (IF q = p THEN Bet ELSE 0)
    BY <1>1, <1>4, <2>3 DEF Amounts
  <2> QED BY <1>1, <1>4, <2>3, <2>4, <2>5, GoesOn
<1> QED BY <1>3, <1>5, <1>6 DEF Accept

\* The opponent declines, and the match is to be refunded.
LEMMA DeclineKeeps == Core /\ Decline => Core'
BY RefundKeeps DEF Decline

\* The creator withdraws: a refund is begun, or the answer failed.
LEMMA WithdrawKeeps == Core /\ Withdraw => Core'
<1> SUFFICES ASSUME Core, Withdraw PROVE Core'
  OBVIOUS
<1>1. InView("invite") /\ NoCall
  BY DEF Withdraw
<1>2. CASE StartRefund(m, "told")
  BY <1>1, <1>2, RefundKeeps
<1>3. CASE m' = [m EXCEPT !.closed = TRUE] /\ Unanswered
  <2>1. /\ at = "idle" /\ m # None /\ ~m.settled /\ MatchInv(m) /\ (m.joined => Playing(m))
        /\ m.stakes \in Amounts /\ (late # "yes" => events \intersect Range(m.alive) = {})
    BY <1>1, InViewFacts
  <2>2. PICK y : y = [m EXCEPT !.closed = TRUE]
    OBVIOUS
  <2>3. MatchInv(y) /\ y.view = m.view /\ SameGame(m, y)
    BY <2>1, <2>2, ClosedChanges
  <2>4. /\ m' = y /\ at' \in {"idle", "save"} /\ live' \in BOOLEAN /\ told' \in BOOLEAN
        /\ UNCHANGED <<pend, making, draft, late, restarts>>
    BY <1>3, <2>1, <2>2 DEF Unanswered, Core, Columns
  <2>5. \A q \in Players : y.stakes[q] <= m.stakes[q] + (IF q = Host THEN 0 ELSE 0)
    BY <2>1, <2>3 DEF Amounts, SameGame
  <2>6. /\ y.joined => Playing(y)
        /\ ~y.settled /\ (~y.joined => ~m.joined) /\ (late # "yes" => events \intersect Range(y.alive) = {})
    BY <2>1, <2>3 DEF SameGame, Playing
  <2>7. Paying(Host, 0) /\ Host \in Players /\ 0 \in Nat
    BY <1>1, NoCallPays
  <2> QED BY <2>1, <2>3, <2>4, <2>5, <2>6, <2>7, GoesOn
<1> QED BY <1>2, <1>3 DEF Withdraw

\* In the lobby.
LEMMA LobbyFacts ==
    ASSUME Core, InView("lobby")
    PROVE  /\ at = "idle" /\ m # None /\ m.view = "lobby" /\ ~m.settled /\ MatchInv(m)
           /\ ~m.joined /\ ~Playing(m) /\ ~IsDuel(m) /\ m.alive = m.parts
           /\ m.parts \in Seq(Players) /\ IsInjective(m.parts)
           /\ m.stakes \in Amounts /\ (late # "yes" => events = {})
<1>1. /\ at = "idle" /\ m # None /\ m.view = "lobby" /\ ~m.settled /\ MatchInv(m)
      /\ (m.joined <=> Playing(m)) /\ m.stakes \in Amounts
  BY InViewFacts
<1>2. ~Playing(m) /\ ~m.joined /\ ~IsDuel(m)
  BY <1>1 DEF Playing, MatchInv, ViewInv
<1>3. m.alive = m.parts /\ m.parts \in Seq(Players) /\ IsInjective(m.parts)
  BY <1>1, <1>2, MatchFields DEF MatchInv, ListsInv
<1>4. (late # "yes" => events = {})
  BY <1>1, <1>2 DEF Core, OutInv, Clean
<1> QED BY <1>1, <1>2, <1>3, <1>4

\* A changed list of players, shown or not.
LEMMA ShowLobbyKeeps ==
    ASSUME Core, InView("lobby"), NEW p \in Players, NEW c \in Nat, Paying(p, c),
           NEW all \in Seq(Players), IsInjective(all), NEW n \in Nat, n <= m.stakes[p] + c,
           NEW next \in {"save", "idle"},
           ShowLobby(AsListed(m, all, p, n), next)
    PROVE  Core'
<1>1. /\ at = "idle" /\ m # None /\ ~m.settled /\ MatchInv(m) /\ ~m.joined /\ ~IsDuel(m)
      /\ m.stakes \in Amounts /\ (late # "yes" => events = {})
  BY LobbyFacts
<1>2. PICK y : y = AsListed(m, all, p, n)
  OBVIOUS
<1>3. /\ MatchInv(y) /\ ~y.joined /\ ~y.settled
      /\ y.stakes = [m.stakes EXCEPT ![p] = n]
  BY <1>1, <1>2, ListChanges
<1>4. /\ m' = y /\ at' \in {"idle", "save"} /\ live' \in BOOLEAN /\ told' \in BOOLEAN
      /\ UNCHANGED <<pend, making, draft, late, restarts>>
  BY <1>2 DEF ShowLobby, Core, Columns
<1>5. \A q \in Players : y.stakes[q] <= m.stakes[q] + (IF q = p THEN c ELSE 0)
  BY <1>1, <1>3 DEF Amounts
<1>6. (late # "yes" => events \intersect Range(y.alive) = {})
  BY <1>1
<1> QED BY <1>1, <1>3, <1>4, <1>5, <1>6, GoesOn

\* A player joins a royale and pays.
LEMMA JoinKeeps ==
    ASSUME Core, NEW p \in Players, Join(p)
    PROVE  Core'
<1>1. InView("lobby") /\ Paying(p, Bet) /\ Bet \in Nat
  BY DebitPays DEF Join
<1>2. CASE NoReply
  BY <1>1, <1>2, NoReplyKeeps
<1>3. CASE ShowLobby(AsListed(m, Append(m.parts, p), p, Bet), "save")
  <2>1. /\ m.parts \in Seq(Players) /\ IsInjective(m.parts) /\ m.stakes \in Amounts
        /\ p \notin Range(m.parts)
    BY <1>1, LobbyFacts DEF Join
  <2>2. PICK all : all = Append(m.parts, p)
    OBVIOUS
  <2>3. all \in Seq(Players) /\ IsInjective(all)
    BY <2>1, <2>2, AppendOne
  <2>4. Bet <= m.stakes[p] + Bet
    BY <1>1, <2>1 DEF Amounts
  <2>5. ShowLobby(AsListed(m, all, p, Bet), "save")
    BY <1>3, <2>2
  <2> QED BY <1>1, <2>3, <2>4, <2>5, ShowLobbyKeeps
<1> QED BY <1>2, <1>3 DEF Join, AsListed

\* Who leaves is off the list before the refund is paid.
LEMMA LeaveKeeps ==
    ASSUME Core, NEW p \in Players, Leave(p)
    PROVE  Core'
<1>1. /\ InView("lobby") /\ NoCall /\ p \in Range(m.parts)
  BY DEF Leave
<1>2. /\ at = "idle" /\ m # None /\ m.view = "lobby" /\ ~m.settled /\ MatchInv(m)
      /\ ~m.joined /\ ~Playing(m) /\ ~IsDuel(m) /\ m.alive = m.parts
      /\ m.parts \in Seq(Players) /\ IsInjective(m.parts)
      /\ m.stakes \in Amounts /\ (late # "yes" => events = {})
  BY <1>1, LobbyFacts
<1>3. PICK rest : rest = Without(m.parts, p)
  OBVIOUS
<1>4. rest \in Seq(Players) /\ IsInjective(rest)
  BY <1>1, <1>2, <1>3, WithoutOne
<1>5. PICK y : y = AsListed(m, rest, p, 0)
  OBVIOUS
<1>6. /\ MatchInv(y) /\ ~y.joined /\ ~y.settled /\ y.view = m.view
      /\ y.stakes = [m.stakes EXCEPT ![p] = 0]
  <2>1. MatchInv(m) /\ ~IsDuel(m) /\ ~m.joined /\ ~m.settled
    BY <1>2
  <2>2. PICK none \in Nat : none = 0
    OBVIOUS
  <2>3. y = AsListed(m, rest, p, none)
    BY <1>5, <2>2
  <2>4. /\ MatchInv(y) /\ ~y.joined /\ ~y.settled /\ y.view = m.view
        /\ y.stakes = [m.stakes EXCEPT ![p] = none]
    BY ONLY <2>1, <2>2, <2>3, <1>4, p \in Players, ListChanges
  <2> QED BY <2>2, <2>4
<1>7. CASE ShowLobby(AsListed(m, rest, p, 0), "idle")
  <2>1. \A q \in Players : y.stakes[q] <= m.stakes[q] + (IF q = Host THEN 0 ELSE 0)
    BY <1>2, <1>6 DEF Amounts
  <2>2. /\ m' = y /\ at' \in {"idle", "save"} /\ live' \in BOOLEAN /\ told' \in BOOLEAN
        /\ UNCHANGED <<pend, making, draft, late, restarts>>
    BY <1>5, <1>7 DEF ShowLobby, Core, Columns
  <2>3. Paying(Host, 0) /\ Host \in Players /\ 0 \in Nat
    BY <1>1, NoCallPays
  <2>4. (late # "yes" => events \intersect Range(y.alive) = {})
    BY <1>2
  <2> QED BY <1>2, <1>6, <2>1, <2>2, <2>3, <2>4, GoesOn
<1>8. CASE /\ m' = y /\ at' = "leave"
           /\ pend' = [event |-> "leave", credits |-> [Zero EXCEPT ![p] = m.stakes[p]],
                       from |-> "lobby", final |-> FALSE]
           /\ UNCHANGED <<live, making, draft, late, told, restarts>>
  <2>1. PICK credits : credits = [Zero EXCEPT ![p] = m.stakes[p]]
    OBVIOUS
  <2>2. /\ credits \in Amounts /\ credits[p] = m.stakes[p]
        /\ \A q \in Players \ {p} : credits[q] = 0
    BY <1>2, <2>1, ZeroIsAmounts DEF Amounts
  <2>3. pend'.credits = credits
    BY <1>8, <2>1
  <2>4. /\ UNCHANGED <<purse, row, events, charged, paid, unsaved, twice>>
    BY <1>1 DEF NoCall, db
  <2>5. y # None /\ y.stakes \in Amounts /\ y.stakes[p] = 0
        /\ \A q \in Players \ {p} : y.stakes[q] = m.stakes[q]
    BY <1>2, <1>6, InvMatchIsSome, MatchStakes DEF Amounts
  <2>6. Columns'
    BY <1>8, <2>4 DEF Core, Columns, Purses
  <2>7. MatchesInv'
    BY <1>6, <1>8, <2>4 DEF Core, MatchesInv
  <2>8. OrderInv'
    BY <1>2, <1>8, <2>4, <2>5 DEF Core, OrderInv
  <2>9. HandlerInv'
    BY <1>6, <1>8, <2>2, <2>3, <2>5 DEF HandlerInv, Amounts
  <2>10. OutInv' /\ RowInv'
    BY <1>2, <1>6, <1>8, <2>4 DEF Core, OutInv, Clean, RowInv
  <2>11. Covered /\ Covered'
    BY <2>7, <2>9, CoreCovers, AmountsHeldNext
  <2>12. \A q \in Players : InHand(q) = m.stakes[q]
    BY <1>2 DEF InHand, Amounts
  <2>13. \A q \in Players : InHand(q)' = y.stakes[q] + credits[q]
    BY <1>6, <1>8, <2>3, <2>5 DEF InHand
  <2>14. \A q \in Players : InHand(q)' = InHand(q)
    <3> SUFFICES ASSUME NEW q \in Players PROVE InHand(q)' = InHand(q)
      OBVIOUS
    <3>1. m.stakes[q] \in Nat
      BY <1>2 DEF Amounts
    <3>2. CASE q = p
      BY <2>2, <2>5, <2>12, <2>13, <3>1, <3>2
    <3>3. CASE q # p
      BY <2>2, <2>5, <2>12, <2>13, <3>1, <3>3
    <3> QED BY <3>2, <3>3
  <2>15. \A q \in Players : Written(q)' = Written(q) /\ Drafted(q)' = Drafted(q)
    BY <1>8, <2>4 DEF Written, Drafted
  <2>16. \A q \in Players : Holdings'[q] = Holdings[q] /\ Cover'[q] = Cover[q]
    BY <2>14, <2>15 DEF Holdings, Cover, Held
  <2>17. \A q \in Players : Holdings'[q] <= Holdings[q] /\ Cover'[q] <= Cover[q]
    BY <2>11, <2>16 DEF Covered, Amounts
  <2>18. MoneyInv'
    BY <1>8, <2>4, <2>6, <2>11, <2>17, MoneyStays DEF Core, Columns
  <2> QED BY <2>6, <2>7, <2>8, <2>9, <2>10, <2>18 DEF Core
<1> QED BY <1>3, <1>5, <1>7, <1>8 DEF Leave, AsListed

\* The creator disbands a royale.
LEMMA DisbandKeeps == Core /\ Disband => Core'
<1> SUFFICES ASSUME Core, Disband PROVE Core'
  OBVIOUS
<1>1. InView("lobby") /\ NoCall
  BY DEF Disband
<1>2. CASE StartRefund(m, "told")
  BY <1>1, <1>2, RefundKeeps
<1>3. CASE NoReply
  BY <1>1, <1>3, NoReplyKeeps, NoCallPays
<1> QED BY <1>2, <1>3 DEF Disband

\* Nobody came: the match is to be refunded.
LEMMA LobbyTimeoutKeeps == Core /\ LobbyTimeout => Core'
BY RefundKeeps DEF LobbyTimeout

\* The royale begins.
LEMMA StartRoyaleKeeps == Core /\ StartRoyale => Core'
<1> SUFFICES ASSUME Core, StartRoyale PROVE Core'
  OBVIOUS
<1>1. InView("lobby") /\ NoCall /\ Len(m.parts) >= MinPlayers
  BY DEF StartRoyale
<1>2. /\ at = "idle" /\ m # None /\ ~m.settled /\ MatchInv(m)
      /\ ~IsDuel(m) /\ m.alive = m.parts /\ m.parts \in Seq(Players)
      /\ m.stakes \in Amounts /\ (late # "yes" => events = {})
  BY <1>1, LobbyFacts
<1>3. Len(m.alive) >= 2
  BY <1>1, <1>2, SizeAssumption
<1>4. PICK turn \in Range(m.alive) : ShowAndSave(LoadGun(AsStarted(m, turn)))
  BY DEF StartRoyale, AsStarted
<1>5. PICK y : y = LoadGun(AsStarted(m, turn))
  OBVIOUS
<1>6. /\ MatchInv(y) /\ y.joined /\ ~y.settled /\ Playing(y)
      /\ y.stakes = m.stakes /\ y.alive = m.alive
  BY <1>2, <1>3, <1>5, GunLoaded
<1>7. /\ m' = y /\ at' \in {"idle", "save"} /\ live' \in BOOLEAN /\ told' \in BOOLEAN
      /\ UNCHANGED <<pend, making, draft, late, restarts>>
  BY <1>4, <1>5 DEF ShowAndSave, Core, Columns
<1>8. \A q \in Players : y.stakes[q] <= m.stakes[q] + (IF q = Host THEN 0 ELSE 0)
  BY <1>2, <1>6 DEF Amounts
<1>9. Paying(Host, 0) /\ Host \in Players /\ 0 \in Nat
  BY <1>1, NoCallPays
<1> QED BY <1>2, <1>6, <1>7, <1>8, <1>9, GoesOn

(***************************************************************************)
(* RrShootView and RrChoiceView.                                           *)
(***************************************************************************)
\* In a match that is played.
LEMMA PlayFacts ==
    ASSUME Core, NEW v \in {"shoot", "choice"}, InView(v)
    PROVE  /\ at = "idle" /\ m # None /\ ~m.settled /\ MatchInv(m)
           /\ m.joined /\ Playing(m) /\ m.turn \in Players
           /\ m.stakes \in Amounts /\ (late # "yes" => events \intersect Range(m.alive) = {})
<1>1. /\ at = "idle" /\ m # None /\ m.view = v /\ ~m.settled /\ MatchInv(m)
      /\ (m.joined <=> Playing(m)) /\ m.stakes \in Amounts
      /\ (late # "yes" => events \intersect Range(m.alive) = {})
  BY InViewFacts
<1>2. Playing(m)
  BY <1>1 DEF Playing
<1> QED BY <1>1, <1>2, MatchFields DEF MatchInv

\* The trigger is pulled, on a chamber or a bullet.
LEMMA PullTriggerKeeps == Core /\ PullTrigger => Core'
<1> SUFFICES ASSUME Core, PullTrigger PROVE Core'
  OBVIOUS
<1>1. PICK from \in {"shoot", "choice"} : InView(from) /\ Fire(m, from) /\ NoCall
  BY DEF PullTrigger
<1>2. /\ at = "idle" /\ m # None /\ ~m.settled /\ MatchInv(m)
      /\ m.joined /\ Playing(m) /\ m.stakes \in Amounts
  BY <1>1, PlayFacts
<1>3. \A q \in Players : m.stakes[q] <= m.stakes[q] + (IF q = Host THEN 0 ELSE 0)
  BY <1>2 DEF Amounts
<1>4. Paying(Host, 0) /\ Host \in Players /\ 0 \in Nat
  BY <1>1, NoCallPays
<1> QED BY <1>1, <1>2, <1>3, <1>4, FireKeeps

\* The player to move pays a raise.
LEMMA DoubleDownKeeps == Core /\ DoubleDown => Core'
<1> SUFFICES ASSUME Core, DoubleDown PROVE Core'
  OBVIOUS
<1>1. InView("choice")
  BY DEF DoubleDown
<1>2. /\ at = "idle" /\ m # None /\ ~m.settled /\ MatchInv(m)
      /\ m.joined /\ Playing(m) /\ m.turn \in Players /\ m.stakes \in Amounts
  BY <1>1, PlayFacts
<1>3. Paying(m.turn, Bet) /\ Bet \in Nat
  BY <1>2, DebitPays DEF DoubleDown
<1>4. CASE NoReply
  BY <1>1, <1>2, <1>3, <1>4, NoReplyKeeps
<1>5. CASE Fire(AsRaised(m), "choice")
  <2>1. PICK x : x = AsRaised(m)
    OBVIOUS
  <2>2. /\ MatchInv(x) /\ x.view = m.view /\ x.alive = m.alive
        /\ x.joined = m.joined /\ x.settled = m.settled
        /\ x.stakes = [m.stakes EXCEPT ![m.turn] = m.stakes[m.turn] + Bet]
    BY <1>2, <2>1, Raised
  <2>3. PICK p \in Players : p = m.turn
    BY <1>2
  <2>4. \A q \in Players : x.stakes[q] <= m.stakes[q] + (IF q = p THEN Bet ELSE 0)
    BY <1>2, <1>3, <2>2, <2>3 DEF Amounts
  <2>5. Playing(x) /\ x.joined /\ ~x.settled /\ Fire(x, "choice") /\ Paying(p, Bet)
    BY <1>2, <1>3, <1>5, <2>1, <2>2, <2>3 DEF Playing
  <2> QED BY <1>2, <1>3, <2>2, <2>4, <2>5, FireKeeps
<1> QED BY <1>4, <1>5 DEF DoubleDown, AsRaised

\* The turn is passed on.
LEMMA PassTurnKeeps == Core /\ PassTurn => Core'
<1> SUFFICES ASSUME Core, PassTurn PROVE Core'
  OBVIOUS
<1>1. InView("choice") /\ NoCall /\ ShowAndSave(AsPassed(m))
  BY DEF PassTurn, AsPassed
<1>2. /\ at = "idle" /\ m # None /\ ~m.settled /\ MatchInv(m)
      /\ m.joined /\ m.stakes \in Amounts /\ (late # "yes" => events \intersect Range(m.alive) = {})
  BY <1>1, PlayFacts
<1>3. PICK y : y = AsPassed(m)
  OBVIOUS
<1>4. /\ MatchInv(y) /\ y.joined /\ ~y.settled /\ Playing(y)
      /\ y.stakes = m.stakes /\ y.alive = m.alive
  BY <1>2, <1>3, Passed
<1>5. /\ m' = y /\ at' \in {"idle", "save"} /\ live' \in BOOLEAN /\ told' \in BOOLEAN
      /\ UNCHANGED <<pend, making, draft, late, restarts>>
  BY <1>1, <1>3 DEF ShowAndSave, Core, Columns
<1>6. \A q \in Players : y.stakes[q] <= m.stakes[q] + (IF q = Host THEN 0 ELSE 0)
  BY <1>2, <1>4 DEF Amounts
<1>7. Paying(Host, 0) /\ Host \in Players /\ 0 \in Nat
  BY <1>1, NoCallPays
<1> QED BY <1>2, <1>4, <1>5, <1>6, <1>7, GoesOn

\* The player to move is out of time.
LEMMA TurnTimeoutKeeps == Core /\ TurnTimeout => Core'
<1> SUFFICES ASSUME Core, TurnTimeout PROVE Core'
  OBVIOUS
<1>1. PICK v \in {"shoot", "choice"} : InView(v)
  BY DEF TurnTimeout, Playing
<1>2. /\ at = "idle" /\ m # None /\ ~m.settled /\ MatchInv(m)
      /\ m.joined /\ Playing(m) /\ m.turn \in Players /\ m.stakes \in Amounts
  BY <1>1, PlayFacts
<1>3. PICK x, y : x = m /\ y = Eliminated(x)
  OBVIOUS
<1>4. /\ x \in Match /\ ViewInv(x) /\ ListsInv(x) /\ x.joined /\ ~x.settled
      /\ x.chambers >= x.bullets
      /\ ~IsDuel(x) => x.bullets >= Len(x.alive) - 2
  <2>1. MatchInv(x) /\ ~x.settled /\ x.joined
    BY <1>2, <1>3
  <2>2. x.bullets \in Nat /\ x.alive \in Seq(Players)
    BY <2>1, MatchFields DEF MatchInv
  <2> QED BY <2>1, <2>2 DEF MatchInv, GunInv
<1>5. /\ MatchInv(y) /\ y.joined /\ y.view = x.view /\ y.stakes = x.stakes
      /\ y.settled = Final(y) /\ (y.settled => Winner(y) \in Players)
      /\ ~y.settled => ~IsDuel(y) /\ Range(y.alive) = Range(x.alive) \ {x.turn}
  BY <1>3, <1>4, LoserIsOut
<1>6. Playing(y)
  BY <1>2, <1>3, <1>5 DEF Playing
<1>7. StartPayout(y, m.turn, "timeout") /\ NoCall
  BY <1>3 DEF TurnTimeout
<1>8. \A q \in Players : y.stakes[q] <= m.stakes[q] + (IF q = Host THEN 0 ELSE 0)
  BY <1>2, <1>3, <1>5 DEF Amounts
<1>9. Paying(Host, 0) /\ Host \in Players /\ 0 \in Nat
  BY <1>7, NoCallPays
<1> QED BY <1>2, <1>3, <1>5, <1>6, <1>7, <1>8, <1>9, PayoutKeeps

(***************************************************************************)
(* Creating a match.                                                       *)
(***************************************************************************)
\* With no match, nobody holds anything but the host of a rematch to be.
LEMMA NothingHeld ==
    ASSUME m = None, at # "rematch"
    PROVE  \A q \in Players : InHand(q) = 0
BY DEF InHand

\* The host has paid for a match that is, or is not, there.
LEMMA CreateKeeps ==
    ASSUME Core, NEW mode, Create(mode)
    PROVE  Core'
<1>1. m = None /\ charged = Zero /\ Debit(Host) /\ UNCHANGED <<at, pend, draft, late, told, restarts>>
  BY DEF Create
<1>2. /\ row = None /\ events = {} /\ unsaved = 0 /\ at = "idle" /\ making = "none"
      /\ draft = None /\ late = "no"
  BY <1>1 DEF Core, OrderInv
<1>3. Paying(Host, Bet) /\ Bet \in Nat /\ Bet # 0
  BY <1>1, DebitPays
<1>4. charged' \in Amounts /\ charged' # Zero
  <2>1. charged'[Host] = Bet /\ charged' \in Amounts
    BY <1>1, <1>3, ZeroIsAmounts DEF Paying, Amounts
  <2> QED BY <1>3, <2>1, ZeroIsAmounts
<1>5. CASE UNCHANGED <<m, live, making>>
  <2>1. Columns'
    BY <1>1, <1>3, <1>4, <1>5 DEF Core, Columns, Purses, Paying
  <2>2. MatchesInv' /\ HandlerInv'
    BY <1>1, <1>2, <1>3, <1>5 DEF MatchesInv, HandlerInv, Paying
  <2>3. OrderInv'
    BY <1>1, <1>2, <1>4, <1>5 DEF OrderInv
  <2>4. OutInv' /\ RowInv'
    BY <1>1, <1>2, <1>3, <1>5 DEF OutInv, Clean, RowInv, Paying
  <2>5. Covered /\ Covered'
    BY <2>2, CoreCovers, AmountsHeldNext
  <2>6. \A q \in Players : Holdings'[q] = 0 /\ Cover'[q] = 0
    BY <1>1, <1>2, <1>3, <1>5 DEF Holdings, Cover, Held, InHand, Drafted, Written, Paying
  <2>7. \A q \in Players : /\ Holdings'[q] <= Holdings[q] + (IF q = Host THEN Bet ELSE 0)
                           /\ Cover'[q] <= Cover[q] + (IF q = Host THEN Bet ELSE 0)
    BY <1>3, <2>5, <2>6 DEF Covered, Amounts
  <2>8. MoneyInv'
    BY <1>1, <1>2, <1>3, <2>1, <2>5, <2>7, MoneyComesIn DEF Core, Columns, Paying
  <2> QED BY <2>1, <2>2, <2>3, <2>4, <2>8 DEF Core
<1>6. CASE /\ m' = NewMatch("royale", <<Host>>)
              \/ \E p \in Players \ {Host} : m' = NewMatch("duel", <<Host, p>>)
           /\ live' = TRUE /\ making' = "sent"
  <2>1. PICK x : x = m' /\ (x = NewMatch("royale", <<Host>>)
                            \/ \E p \in Players \ {Host} : x = NewMatch("duel", <<Host, p>>))
    BY <1>6
  <2>2. MatchInv(x) /\ ~x.joined /\ ~x.settled /\ x.stakes = OneStake(Host) /\ x # None
    BY <2>1, NewMatches, InvMatchIsSome
  <2>3. Columns'
    BY <1>1, <1>3, <1>4, <1>6 DEF Core, Columns, Purses, Paying
  <2>4. MatchesInv' /\ HandlerInv'
    BY <1>1, <1>2, <1>3, <2>1, <2>2 DEF MatchesInv, HandlerInv, Paying
  <2>5. OrderInv'
    BY <1>1, <1>2, <1>3, <1>4, <1>6, <2>1, <2>2 DEF OrderInv, Paying
  <2>6. OutInv' /\ RowInv'
    BY <1>1, <1>2, <1>3, <2>1, <2>2 DEF OutInv, Clean, RowInv, Paying
  <2>7. Covered /\ Covered'
    BY <2>4, CoreCovers, AmountsHeldNext
  <2>8. \A q \in Players : Holdings'[q] = (IF q = Host THEN Bet ELSE 0)
    <3> SUFFICES ASSUME NEW q \in Players
        PROVE  Holdings'[q] = (IF q = Host THEN Bet ELSE 0)
      OBVIOUS
    <3>1. InHand(q)' = (IF q = Host THEN Bet ELSE 0)
      BY <1>1, <1>2, <2>1, <2>2, OneStakeType DEF InHand
    <3>2. Drafted(q)' = 0
      BY <1>1, <1>2 DEF Drafted
    <3> QED BY <1>3, <2>7, <3>1, <3>2 DEF Covered
  <2>9. \A q \in Players : Held(q)' = Holdings'[q] /\ Written(q)' = 0
    BY <1>1, <1>2, <1>3 DEF Holdings, Written, Paying
  <2>10. \A q \in Players : Cover'[q] = (IF q = Host THEN Bet ELSE 0)
    BY <1>3, <2>7, <2>8, <2>9 DEF Covered
  <2>11. \A q \in Players : /\ Holdings'[q] <= Holdings[q] + (IF q = Host THEN Bet ELSE 0)
                            /\ Cover'[q] <= Cover[q] + (IF q = Host THEN Bet ELSE 0)
    BY <1>3, <2>7, <2>8, <2>10 DEF Covered, Amounts
  <2>12. MoneyInv'
    BY <1>1, <1>2, <1>3, <2>3, <2>7, <2>11, MoneyComesIn DEF Core, Columns, Paying
  <2> QED BY <2>3, <2>4, <2>5, <2>6, <2>12 DEF Core
<1> QED BY <1>5, <1>6 DEF Create

\* The payload of the first save is the match, in the view it began with.
LEMMA CallSaveKeeps == Core /\ CallSave => Core'
<1> SUFFICES ASSUME Core, CallSave PROVE Core'
  OBVIOUS
<1>1. /\ making = "sent" /\ NoCall /\ UNCHANGED <<m, live, at, pend, late, told, restarts>>
  BY DEF CallSave
<1>2. UNCHANGED <<purse, row, events, charged, paid, unsaved, twice>>
  BY <1>1 DEF NoCall, db
<1>3. /\ m # None /\ charged # Zero /\ draft = None /\ late # "overtaken" /\ at # "recover"
      /\ at = "settle" => pend.from # "recover"
  BY <1>1 DEF Core, OrderInv
<1>4. MatchInv(m) /\ m.stakes \in Amounts
  BY <1>3, MatchStakes DEF Core, MatchesInv
<1>5. late # "yes" /\ at = "settle" => Sum(pend.credits) <= Out
  BY DEF Core, MoneyInv, Money
<1>6. \A q \in Players :
        /\ InHand(q)' = InHand(q) /\ Written(q)' = Written(q) /\ Drafted(q) = 0
  BY <1>1, <1>2, <1>3 DEF InHand, Written, Drafted
<1>7. HandlerInv'
  BY <1>1, <1>2 DEF Core, HandlerInv
<1>9. CASE m.settled /\ making' = "none" /\ UNCHANGED draft
  <2>1. Columns' /\ MatchesInv' /\ OrderInv' /\ RowInv'
    BY <1>1, <1>2, <1>3, <1>9 DEF Core, Columns, Purses, MatchesInv, OrderInv, RowInv
  <2>2. Covered /\ Covered'
    BY <1>7, <2>1, CoreCovers, AmountsHeldNext
  <2>3. \A q \in Players : Holdings'[q] = Holdings[q] /\ Cover'[q] = Cover[q]
    BY <1>1, <1>6, <1>9 DEF Cover, Holdings, Held, Drafted
  <2>4. \A q \in Players : Holdings'[q] <= Holdings[q] /\ Cover'[q] <= Cover[q]
    BY <2>2, <2>3 DEF Covered, Amounts
  <2>5. MoneyInv'
    BY <1>1, <1>2, <1>5, <2>1, <2>2, <2>4, MoneyStays DEF Core, Columns
  <2>6. OutInv'
    BY <1>1, <1>2, <1>9 DEF Core, OutInv, Clean
  <2> QED BY <1>7, <2>1, <2>5, <2>6 DEF Core
<1>10. CASE /\ ~m.settled /\ making' = "saving"
            /\ draft' = [m EXCEPT !.view = IF IsDuel(m) THEN "invite" ELSE "lobby"]
  <2>1. PICK v \in {"invite", "lobby"} : v = IF IsDuel(m) THEN "invite" ELSE "lobby"
    OBVIOUS
  <2>2. PICK x : x = [m EXCEPT !.view = v]
    OBVIOUS
  <2>3. MatchInv(x) /\ SameGame(m, x)
    <3>1. v = "invite" => IsDuel(m)
      BY <2>1
    <3>2. v = "lobby" => ~IsDuel(m)
      BY <2>1
    <3>3. v \in {"shoot", "choice"} => m.joined
      BY <2>1
    <3>4. v \in {"invite", "lobby", "shoot", "choice"}
      OBVIOUS
    <3> QED BY ONLY <1>4, <2>2, <3>1, <3>2, <3>3, <3>4, ViewChanges
  <2>4. draft' = x /\ x # None
    BY <1>10, <2>1, <2>2, <2>3, InvMatchIsSome
  <2>5. Columns' /\ MatchesInv'
    BY <1>1, <1>2, <1>10, <2>3, <2>4 DEF Core, Columns, Purses, MatchesInv
  <2>6. OrderInv' /\ RowInv'
    BY <1>1, <1>2, <1>3, <1>10, <2>3, <2>4 DEF Core, OrderInv, RowInv, SameGame
  <2>7. Covered /\ Covered'
    BY <1>7, <2>5, CoreCovers, AmountsHeldNext
  <2>8. \A q \in Players : Drafted(q)' \in {m.stakes[q], 0}
    BY <2>3, <2>4 DEF Drafted, SameGame
  <2>9. \A q \in Players : m.stakes[q] <= InHand(q)
    BY <1>3, <1>4, <1>10 DEF Core, HandlerInv, InHand, Amounts
  <2>10. \A q \in Players : Holdings'[q] <= Holdings[q] /\ Cover'[q] <= Cover[q]
    <3> SUFFICES ASSUME NEW q \in Players
        PROVE  Holdings'[q] <= Holdings[q] /\ Cover'[q] <= Cover[q]
      OBVIOUS
    <3>1. InHand(q) \in Nat /\ m.stakes[q] \in Nat /\ Written(q) \in Nat
      BY <1>4, <2>7 DEF Covered, Amounts
    <3>2. Holdings[q] = InHand(q) /\ Holdings'[q] = InHand(q)
      BY <1>6, <2>7, <2>8, <2>9, <3>1 DEF Covered
    <3>3. Held(q) = Holdings[q] /\ Held(q)' = Holdings'[q]
      BY DEF Holdings
    <3>4. Cover'[q] = Cover[q]
      BY <1>6, <2>7, <3>2, <3>3 DEF Covered
    <3> QED BY <2>7, <3>1, <3>2, <3>4 DEF Covered, Amounts
  <2>11. MoneyInv'
    BY <1>1, <1>2, <1>5, <2>5, <2>7, <2>10, MoneyStays DEF Core, Columns
  <2>12. OutInv'
    <3> SUFFICES ASSUME late # "yes"
        PROVE  Clean(row)' /\ Clean(m)' /\ Clean(draft)'
      BY <1>1 DEF OutInv
    <3>1. Clean(row) /\ Clean(m)
      BY DEF Core, OutInv
    <3>2. Clean(row)' /\ Clean(m)'
      BY <1>1, <1>2, <3>1 DEF Clean
    <3>3. Clean(draft)'
      BY <1>2, <1>3, <2>3, <2>4, <3>1 DEF Clean, SameGame
    <3> QED BY <3>2, <3>3
  <2> QED BY <1>7, <2>5, <2>6, <2>11, <2>12 DEF Core
<1> QED BY <1>9, <1>10 DEF CallSave

\* The first save writes its payload, or is lost.
LEMMA FirstSaveKeeps == Core /\ FirstSave => Core'
<1> SUFFICES ASSUME Core, FirstSave PROVE Core'
  OBVIOUS
<1>1. /\ making = "saving" /\ making' = "none" /\ draft' = None
      /\ UNCHANGED <<m, live, at, pend, told, restarts>>
  BY DEF FirstSave
<1>2. m # None /\ charged # Zero /\ draft # None /\ late \in {"no", "overtaken", "yes"}
  BY <1>1 DEF Core, OrderInv, Columns
<1>3. MatchInv(draft) /\ draft.stakes \in Amounts /\ ~draft.settled
  BY <1>2, MatchStakes DEF Core, MatchesInv, RowInv
<1>4. PICK x : x = Saved(draft)
  OBVIOUS
<1>5. MatchInv(x) /\ SameGame(draft, x) /\ x # None
  BY <1>3, <1>4, ClosedChanges, InvMatchIsSome DEF Saved
<1>6. /\ UNCHANGED <<purse, events, charged, paid, twice>>
      /\ \/ row' = x /\ unsaved' = 0 /\ late' = IF late = "overtaken" THEN "yes" ELSE late
         \/ UNCHANGED <<row, unsaved>> /\ late' = IF late = "overtaken" THEN "no" ELSE late
  BY <1>4 DEF FirstSave, Save, NoCall, db
<1>7. Columns' /\ MatchesInv'
  BY <1>1, <1>2, <1>5, <1>6 DEF Core, Columns, Purses, MatchesInv
<1>8. OrderInv' /\ HandlerInv'
  BY <1>1, <1>2, <1>6 DEF Core, OrderInv, HandlerInv
<1>9. RowInv'
  BY <1>1, <1>2, <1>3, <1>5, <1>6 DEF Core, RowInv, SameGame
<1>10. OutInv'
  <2> SUFFICES ASSUME late' # "yes" PROVE Clean(row)' /\ Clean(m)' /\ Clean(draft)'
    BY DEF OutInv
  <2>1. late # "yes" /\ Clean(row) /\ Clean(m)
    BY <1>2, <1>6 DEF Core, OutInv
  <2>2. Clean(m)' /\ Clean(draft)'
    BY <1>1, <1>6, <2>1 DEF Clean
  <2>3. CASE UNCHANGED row
    BY <1>6, <2>1, <2>2, <2>3 DEF Clean
  <2>4. CASE row' = x /\ late = "no"
    <3>1. Clean(draft)
      BY <2>1, <2>4 DEF Core, OutInv
    <3> QED BY <1>2, <1>5, <1>6, <2>2, <2>4, <3>1 DEF Clean, SameGame
  <2> QED BY <1>2, <1>6, <2>3, <2>4
<1>11. Covered /\ Covered'
  BY <1>7, <1>8, CoreCovers, AmountsHeldNext
<1>12. \A q \in Players : InHand(q)' = InHand(q) /\ Drafted(q)' = 0
  BY <1>1 DEF InHand, Drafted
<1>13. \A q \in Players : Holdings'[q] = InHand(q) /\ Holdings'[q] <= Holdings[q]
  BY <1>11, <1>12 DEF Covered
<1>14. late' # "yes" => (late # "yes" /\ (at = "settle" => Sum(pend.credits) <= Out))
  BY <1>2, <1>6 DEF Core, MoneyInv, Money
<1>15. CASE late' = "yes"
  BY <1>7, <1>8, <1>9, <1>10, <1>15 DEF Core, MoneyInv
<1>16. CASE late' # "yes" /\ row' = x /\ unsaved' = 0 /\ late = "no"
  <2>1. \A q \in Players : Written(q)' = draft.stakes[q] /\ Drafted(q) = draft.stakes[q]
    BY <1>2, <1>5, <1>16 DEF Written, Drafted, SameGame
  <2>2. \A q \in Players : Cover'[q] <= Holdings[q]
    <3> SUFFICES ASSUME NEW q \in Players PROVE Cover'[q] <= Holdings[q]
      OBVIOUS
    <3>1. /\ InHand(q) \in Nat /\ draft.stakes[q] \in Nat
          /\ Holdings[q] = IF InHand(q) > draft.stakes[q] THEN InHand(q) ELSE draft.stakes[q]
      BY <1>3, <1>11, <2>1 DEF Covered, Amounts
    <3>2. Held(q)' = InHand(q)
      BY <1>13 DEF Holdings
    <3>3. Cover'[q] = IF InHand(q) > draft.stakes[q] THEN InHand(q) ELSE draft.stakes[q]
      BY <1>11, <2>1, <3>2 DEF Covered
    <3> QED BY <3>1, <3>3
  <2>3. MoneyInv'
    BY <1>1, <1>6, <1>7, <1>11, <1>13, <1>14, <1>16, <2>2, MoneySaved DEF Core, Columns
  <2> QED BY <1>7, <1>8, <1>9, <1>10, <2>3 DEF Core
<1>17. CASE late' # "yes" /\ UNCHANGED <<row, unsaved>>
  <2>1. \A q \in Players : Cover'[q] <= Cover[q]
    <3> SUFFICES ASSUME NEW q \in Players PROVE Cover'[q] <= Cover[q]
      OBVIOUS
    <3>1. /\ Held(q)' = Holdings'[q] /\ Held(q) = Holdings[q] /\ Written(q)' = Written(q)
          /\ Holdings[q] \in Nat /\ Holdings'[q] \in Nat /\ Written(q) \in Nat
          /\ Holdings'[q] <= Holdings[q]
      BY <1>11, <1>13, <1>17 DEF Holdings, Written, Covered, Amounts
    <3>2. /\ Cover[q] = IF Holdings[q] > Written(q) THEN Holdings[q] ELSE Written(q)
          /\ Cover'[q] = IF Holdings'[q] > Written(q) THEN Holdings'[q] ELSE Written(q)
      BY <1>11, <3>1 DEF Covered
    <3> QED BY <3>1, <3>2
  <2>2. MoneyInv'
    BY <1>1, <1>6, <1>7, <1>11, <1>13, <1>14, <1>17, <2>1, MoneyStays DEF Core, Columns
  <2> QED BY <1>7, <1>8, <1>9, <1>10, <2>2 DEF Core
<1> QED BY <1>2, <1>6, <1>15, <1>16, <1>17

\* The first player of a rematch has paid.
LEMMA RematchPaysKeeps == Core /\ RematchPays => Core'
<1> SUFFICES ASSUME Core, RematchPays PROVE Core'
  OBVIOUS
<1>1. /\ m = None /\ charged = Zero /\ at = "idle" /\ Debit(Host) /\ at' = "rematch"
      /\ UNCHANGED <<m, live, pend, making, draft, late, told, restarts>>
  BY DEF RematchPays
<1>2. /\ row = None /\ events = {} /\ unsaved = 0 /\ making = "none" /\ draft = None
      /\ late = "no"
  BY <1>1 DEF Core, OrderInv
<1>3. Paying(Host, Bet) /\ Bet \in Nat /\ Bet # 0
  BY <1>1, DebitPays
<1>4. charged' \in Amounts /\ charged' # Zero
  <2>1. charged'[Host] = Bet /\ charged' \in Amounts
    BY <1>1, <1>3, ZeroIsAmounts DEF Paying, Amounts
  <2> QED BY <1>3, <2>1, ZeroIsAmounts
<1>5. Columns'
  BY <1>1, <1>3, <1>4 DEF Core, Columns, Purses, Paying
<1>6. MatchesInv' /\ HandlerInv' /\ OrderInv'
  BY <1>1, <1>2, <1>3, <1>4 DEF MatchesInv, HandlerInv, OrderInv, Paying
<1>7. OutInv' /\ RowInv'
  BY <1>1, <1>2, <1>3 DEF OutInv, Clean, RowInv, Paying
<1>8. Covered /\ Covered'
  BY <1>6, CoreCovers, AmountsHeldNext
<1>9. \A q \in Players : Held(q)' = Holdings'[q] /\ Written(q)' = 0
                         /\ Holdings'[q] = (IF q = Host THEN Bet ELSE 0)
  BY <1>1, <1>2, <1>3 DEF Holdings, Held, InHand, Drafted, Written, Paying
<1>10. \A q \in Players : Cover'[q] = (IF q = Host THEN Bet ELSE 0)
  BY <1>3, <1>8, <1>9 DEF Covered
<1>11. \A q \in Players : /\ Holdings'[q] <= Holdings[q] + (IF q = Host THEN Bet ELSE 0)
                          /\ Cover'[q] <= Cover[q] + (IF q = Host THEN Bet ELSE 0)
  BY <1>3, <1>8, <1>9, <1>10 DEF Covered, Amounts
<1>12. MoneyInv'
  BY <1>1, <1>2, <1>3, <1>5, <1>8, <1>11, MoneyComesIn DEF Core, Columns, Paying
<1> QED BY <1>5, <1>6, <1>7, <1>12 DEF Core

\* A payment keeps the types of the columns it changes.
LEMMA CreditPays ==
    ASSUME Purses, NEW credits \in Amounts, Credit(credits)
    PROVE  /\ purse' \in Amounts /\ paid' \in Amounts
           /\ paid' = [p \in Players |-> paid[p] + credits[p]]
BY DEF Purses, Credit, Amounts

\* The second player of a rematch has paid too, or the first gets the bet back.
LEMMA RematchStartsKeeps == Core /\ RematchStarts => Core'
<1> SUFFICES ASSUME Core, RematchStarts PROVE Core'
  OBVIOUS
<1>1. at = "rematch" /\ UNCHANGED <<pend, making, draft, late, told, restarts>>
  BY DEF RematchStarts
<1>2. m = None /\ row = None /\ events = {} /\ charged # Zero /\ charged \in Amounts
  BY <1>1 DEF Core, HandlerInv, OrderInv, Columns, Purses
<1>3. making = "none" /\ draft = None /\ late # "overtaken"
  BY <1>2 DEF Core, OrderInv, Columns
<1>4. Bet \in Nat /\ \A q \in Players : Holdings[q] = IF q = Host THEN Bet ELSE 0
  <2> SUFFICES ASSUME NEW q \in Players
      PROVE  Bet \in Nat /\ Holdings[q] = IF q = Host THEN Bet ELSE 0
    OBVIOUS
  <2>1. Bet \in Nat
    BY BetAssumption
  <2>2. InHand(q) = (IF q = Host THEN Bet ELSE 0) /\ Drafted(q) = 0
    BY <1>1, <1>2, <1>3 DEF InHand, Drafted
  <2> QED BY <2>1, <2>2 DEF Holdings, Held
<1>5. Covered
  BY CoreCovers
<1>6. CASE \E p \in Players \ {Host} :
             /\ Debit(p)
             /\ \E turn \in {Host, p} : m' = AsRematch(p, turn)
             /\ \/ live' = TRUE /\ at' = "save"
                \/ at' = "idle" /\ UNCHANGED live
  <2>1. PICK p \in Players \ {Host} :
             /\ Debit(p)
             /\ \E turn \in {Host, p} : m' = AsRematch(p, turn)
             /\ at' \in {"save", "idle"} /\ live' \in BOOLEAN
    BY <1>6 DEF Core, Columns
  <2>2. PICK turn \in {Host, p} : m' = AsRematch(p, turn)
    BY <2>1
  <2>3. PICK x : x = AsRematch(p, turn)
    OBVIOUS
  <2>4. /\ MatchInv(x) /\ x.joined /\ ~x.settled /\ Playing(x) /\ x # None /\ m' = x
        /\ x.stakes = [q \in Players |-> IF q \in {Host, p} THEN Bet ELSE 0]
    BY <2>2, <2>3, Rematches, InvMatchIsSome
  <2>5. Paying(p, Bet)
    BY <2>1, DebitPays
  <2>6. charged' \in Amounts /\ charged' # Zero
    BY <1>2, <1>4, <2>5, StillCharged DEF Paying
  <2>7. Columns'
    BY <1>1, <2>1, <2>5, <2>6 DEF Core, Columns, Purses, Paying
  <2>8. MatchesInv' /\ HandlerInv'
    BY <1>1, <1>2, <1>3, <2>1, <2>4, <2>5 DEF MatchesInv, HandlerInv, Paying
  <2>9. OrderInv'
    BY <1>1, <1>3, <2>6 DEF OrderInv
  <2>10. OutInv' /\ RowInv'
    BY <1>1, <1>2, <1>3, <2>4, <2>5 DEF OutInv, Clean, RowInv, Paying
  <2>11. Covered'
    BY <2>8, AmountsHeldNext
  <2>12. \A q \in Players : /\ Held(q) = Holdings[q] /\ Held(q)' = Holdings'[q]
                            /\ Written(q) = 0 /\ Written(q)' = 0
    BY <1>1, <1>2, <1>3, <2>5 DEF Holdings, Written, Paying
  <2>13. \A q \in Players : Holdings'[q] = IF q \in {Host, p} THEN Bet ELSE 0
    <3> SUFFICES ASSUME NEW q \in Players
        PROVE  Holdings'[q] = IF q \in {Host, p} THEN Bet ELSE 0
      OBVIOUS
    <3>1. InHand(q)' = IF q \in {Host, p} THEN Bet ELSE 0
      BY <1>4, <2>1, <2>4 DEF InHand
    <3>2. Drafted(q)' = 0
      BY <1>1, <1>3 DEF Drafted
    <3> QED BY <1>4, <2>11, <3>1, <3>2 DEF Covered
  <2>14. \A q \in Players : Holdings'[q] <= Holdings[q] + (IF q = p THEN Bet ELSE 0)
    BY <1>4, <2>13
  <2>15. \A q \in Players : Cover'[q] <= Cover[q] + (IF q = p THEN Bet ELSE 0)
    BY <1>4, <1>5, <2>11, <2>12, <2>14, CoverFollows
  <2>16. MoneyInv'
    BY <1>1, <1>4, <1>5, <2>1, <2>5, <2>7, <2>11, <2>14, <2>15, MoneyComesIn
       DEF Core, Columns, Paying
  <2> QED BY <2>7, <2>8, <2>9, <2>10, <2>16 DEF Core
<1>7. CASE /\ Credit(OneStake(Host)) /\ at' = "idle"
           /\ UNCHANGED <<row, events, charged, unsaved, twice, m, live>>
  <2>1. PICK credits \in Amounts :
            credits = OneStake(Host) /\ \A q \in Players : credits[q] = IF q = Host THEN Bet ELSE 0
    BY OneStakeType DEF Amounts
  <2>2. /\ purse' \in Amounts /\ paid' \in Amounts
        /\ paid' = [p \in Players |-> paid[p] + credits[p]]
    BY <1>7, <2>1, CreditPays DEF Core, Columns
  <2>3. Columns'
    BY <1>1, <1>7, <2>2 DEF Core, Columns, Purses
  <2>4. MatchesInv' /\ HandlerInv' /\ OrderInv'
    BY <1>1, <1>2, <1>3, <1>7 DEF MatchesInv, HandlerInv, OrderInv
  <2>5. OutInv' /\ RowInv'
    BY <1>1, <1>2, <1>3, <1>7 DEF OutInv, Clean, RowInv
  <2>6. Covered'
    BY <2>4, AmountsHeldNext
  <2>7. \A q \in Players : Holdings'[q] = 0 /\ Cover'[q] = 0
    BY <1>1, <1>2, <1>3, <1>7 DEF Holdings, Cover, Held, InHand, Drafted, Written
  <2>8. Holdings' \in Amounts /\ Cover' \in Amounts
    BY <2>6 DEF Covered
  <2>9. Sum(Holdings') = 0 /\ Sum(Cover') = 0
    <3>1. Sum(Holdings') = Holdings'[Host]
      BY <2>7, <2>8, SumOfOne
    <3>2. Sum(Cover') = Cover'[Host]
      BY <2>7, <2>8, SumOfOne
    <3> QED BY <2>7, <3>1, <3>2
  <2>10. /\ late # "yes" => Sum(credits) <= Out
         /\ Sum(credits) \in Nat /\ Out \in Int /\ unsaved \in Nat
    <3>1. Sum(credits) <= Sum(Holdings)
      BY <1>4, <1>5, <2>1, SumGrows DEF Covered
    <3>2. Sum(credits) \in Nat /\ Sum(Holdings) \in Nat /\ Out \in Int /\ unsaved \in Nat
      BY <1>5, SumIsNat, OutIsInt DEF Covered, Core, Columns, Purses
    <3> QED BY <3>1, <3>2 DEF Core, MoneyInv, Money
  <2>11. late # "yes" => /\ Sum(Holdings') + Sum(credits) <= Out
                         /\ Sum(Cover') + Sum(credits) <= Out + unsaved'
    BY <1>7, <2>9, <2>10
  <2>12. MoneyInv'
    BY <1>1, <1>7, <2>2, <2>3, <2>6, <2>11, MoneyGoesOut DEF Core, Columns
  <2> QED BY <2>3, <2>4, <2>5, <2>12 DEF Core
<1> QED BY <1>6, <1>7 DEF RematchStarts, AsRematch, OneStake

(***************************************************************************)
(* What a handler does after its await.                                    *)
(***************************************************************************)
\* The match that a handler works on.
LEMMA TheMatch ==
    ASSUME Core, m # None
    PROVE  /\ MatchInv(m) /\ (m.joined => Playing(m))
           /\ m.stakes \in Amounts /\ charged # Zero
BY MatchStakes DEF Core, OrderInv, MatchesInv

\* What a handler commits overtakes the first save, if that is under way.
LEMMA Overtaken ==
    ASSUME Core, Overtakes, UNCHANGED <<making, draft>>
    PROVE  /\ late' \in {"no", "overtaken", "yes"}
           /\ late' # "yes" => late # "yes"
           /\ late' = "overtaken" => making' = "saving"
           /\ late' = "no" => draft' = None
           /\ \A q \in Players : Drafted(q)' = 0
<1>1. /\ late' \in {"no", "overtaken", "yes"}
      /\ late' # "yes" => late # "yes"
      /\ late' = "overtaken" => making' = "saving"
  BY DEF Overtakes, Core, Columns, OrderInv
<1>2. late' = "no" => draft' = None
  BY DEF Overtakes, Core, OrderInv
<1> QED BY <1>1, <1>2 DEF Drafted

\* The invariant of who is out, when the first save was overtaken.
LEMMA OutAfterwards ==
    ASSUME late' = "no" => draft' = None, late' # "yes" => Clean(row)' /\ Clean(m)'
    PROVE  OutInv'
BY DEF OutInv, Clean

\* The order of things, when a handler commits something.
LEMMA OrderAfterwards ==
    ASSUME Core, charged # Zero, charged' = charged, UNCHANGED <<making, draft>>,
           late' = "overtaken" => making' = "saving",
           making # "none" => m' # None /\ at' # "recover",
           at' = "settle" => pend'.from # "recover"
    PROVE  OrderInv'
<1>1. charged' # Zero'
  BY DEF Zero
<1>2. (making' = "saving") = (draft' # None)
  BY DEF Core, OrderInv, None
<1> QED BY <1>1, <1>2 DEF OrderInv

\* The match is saved as it is, or the save is lost.
LEMMA SaveMatchKeeps == Core /\ SaveMatch => Core'
<1> SUFFICES ASSUME Core, SaveMatch PROVE Core'
  OBVIOUS
<1>1. /\ at = "save" /\ at' = "idle" /\ m # None /\ ~m.settled
      /\ UNCHANGED <<m, live, pend, making, draft, told, restarts>>
  BY DEF SaveMatch, Core, HandlerInv
<1>2. /\ MatchInv(m) /\ (m.joined => Playing(m))
      /\ m.stakes \in Amounts /\ charged # Zero
  BY <1>1, TheMatch
<1>3. \A q \in Players : InHand(q) = m.stakes[q] /\ InHand(q)' = m.stakes[q]
  BY <1>1, <1>2 DEF InHand, Amounts
<1>4. CASE NoCall /\ UNCHANGED late
  <2>1. UNCHANGED <<purse, row, events, charged, paid, unsaved, twice>>
    BY <1>4 DEF NoCall, db
  <2>2. Columns' /\ MatchesInv'
    BY <1>1, <1>4, <2>1 DEF Core, Columns, Purses, MatchesInv
  <2>3. HandlerInv' /\ OrderInv'
    BY <1>1, <1>2, <1>4, <2>1 DEF Core, HandlerInv, OrderInv
  <2>4. OutInv' /\ RowInv'
    BY <1>1, <1>4, <2>1 DEF Core, OutInv, Clean, RowInv
  <2>5. Covered /\ Covered'
    BY <2>2, <2>3, CoreCovers, AmountsHeldNext
  <2>6. \A q \in Players : Written(q)' = Written(q) /\ Drafted(q)' = Drafted(q)
    BY <1>1, <1>4, <2>1 DEF Written, Drafted
  <2>7. \A q \in Players : Holdings'[q] = Holdings[q] /\ Cover'[q] = Cover[q]
    BY <1>3, <2>6 DEF Holdings, Cover, Held
  <2>8. MoneyInv'
    BY <1>1, <1>4, <2>1, <2>2, <2>5, <2>7, MoneyStays DEF Core, Columns, Covered, Amounts
  <2> QED BY <2>2, <2>3, <2>4, <2>8 DEF Core
<1>5. CASE Save(m) /\ Overtakes
  <2>0. /\ late' \in {"no", "overtaken", "yes"}
        /\ late' # "yes" => late # "yes"
        /\ late' = "overtaken" => making' = "saving"
        /\ late' = "no" => draft' = None
        /\ \A q \in Players : Drafted(q)' = 0
    BY <1>1, <1>5, Overtaken
  <2>1. PICK x : x = Saved(m)
    OBVIOUS
  <2>2. MatchInv(x) /\ SameGame(m, x) /\ x # None
    BY <1>2, <2>1, ClosedChanges, InvMatchIsSome DEF Saved
  <2>3. row' = x /\ unsaved' = 0 /\ UNCHANGED <<purse, events, charged, paid, twice>>
    BY <1>5, <2>1 DEF Save
  <2>4. Columns' /\ MatchesInv'
    BY <1>1, <2>0, <2>2, <2>3 DEF Core, Columns, Purses, MatchesInv
  <2>5. HandlerInv' /\ OrderInv'
    <3>1. HandlerInv'
      BY <1>1 DEF HandlerInv
    <3> QED BY <1>1, <1>2, <2>0, <2>3, <3>1, OrderAfterwards
  <2>6. RowInv'
    BY <1>1, <2>2, <2>3 DEF Core, RowInv, SameGame
  <2>7. OutInv'
    <3>1. late # "yes" => Clean(m)
      BY DEF Core, OutInv
    <3>2. late # "yes" => Clean(row)' /\ Clean(m)'
      BY <1>1, <2>2, <2>3, <3>1 DEF Clean, SameGame
    <3>3. late' # "yes" => Clean(row)' /\ Clean(m)'
      BY <2>0, <3>2
    <3>4. late' = "no" => draft' = None
      BY <2>0
    <3> QED BY <3>3, <3>4, OutAfterwards
  <2>8. Covered /\ Covered'
    BY <2>4, <2>5, CoreCovers, AmountsHeldNext
  <2>9. \A q \in Players : Holdings'[q] <= Holdings[q] /\ Cover'[q] <= Holdings[q]
    <3> SUFFICES ASSUME NEW q \in Players
        PROVE  Holdings'[q] <= Holdings[q] /\ Cover'[q] <= Holdings[q]
      OBVIOUS
    <3>1. Written(q)' = m.stakes[q] /\ m.stakes[q] \in Nat
      BY <1>2, <2>2, <2>3 DEF Written, SameGame, Amounts
    <3>2. Holdings'[q] = m.stakes[q] /\ m.stakes[q] <= Holdings[q]
      BY <1>3, <2>0, <2>8, <3>1 DEF Covered
    <3>3. Held(q)' = Holdings'[q]
      BY DEF Holdings
    <3>4. Cover'[q] = m.stakes[q]
      BY <2>8, <3>1, <3>2, <3>3 DEF Covered
    <3> QED BY <3>2, <3>4
  <2>10. MoneyInv'
    BY <1>1, <2>0, <2>3, <2>4, <2>8, <2>9, MoneySaved DEF Core, Columns
  <2> QED BY <2>4, <2>5, <2>6, <2>7, <2>10 DEF Core
<1> QED BY <1>4, <1>5 DEF SaveMatch

\* The match as it was, perhaps in another view, or the match forgotten.
StillThere(x) ==
    x = None \/ (MatchInv(x) /\ (x.joined => Playing(x)) /\ SameGame(m, x))

\* A settlement that was refused, or rolled back.
LEMMA NotSettledKeeps ==
    ASSUME Core, at = "settle", charged # Zero, NoCall, UNCHANGED late, StillThere(m'),
           at' \in {"idle", "save", "recover"}, at' = "save" => m' # None /\ ~m'.settled,
           making # "none" => m' # None /\ at' # "recover",
           live' \in BOOLEAN, told' \in BOOLEAN, UNCHANGED <<making, draft, restarts>>
    PROVE  Core'
<1>1. UNCHANGED <<purse, row, events, charged, paid, unsaved, twice>>
  BY DEF NoCall, db
<1>2. m # None /\ MatchInv(m) /\ m.stakes \in Amounts
  BY MatchStakes DEF Core, HandlerInv, MatchesInv, OrderInv
<1>3. Columns' /\ MatchesInv' /\ OrderInv'
  BY <1>1 DEF Core, Columns, Purses, MatchesInv, OrderInv, StillThere
<1>4. HandlerInv'
  BY DEF HandlerInv
<1>5. OutInv' /\ RowInv'
  BY <1>1, <1>2 DEF Core, OutInv, Clean, RowInv, StillThere, SameGame
<1>6. Covered /\ Covered'
  BY <1>3, <1>4, CoreCovers, AmountsHeldNext
<1>7. \A q \in Players : InHand(q) = IF m.settled THEN 0 ELSE m.stakes[q]
  BY <1>2 DEF InHand, Amounts
<1>8. \A q \in Players : InHand(q)' \in {InHand(q), 0}
  <2>1. CASE m' = None
    BY <2>1 DEF InHand
  <2>2. CASE MatchInv(m') /\ SameGame(m, m')
    <3>1. m' # None /\ m'.stakes = m.stakes /\ m'.settled = m.settled
      BY <2>2, InvMatchIsSome DEF SameGame
    <3>2. \A q \in Players : InHand(q)' = IF m.settled THEN 0 ELSE m.stakes[q]
      BY <1>2, <3>1 DEF InHand, Amounts
    <3> QED BY <1>7, <3>2
  <2> QED BY <2>1, <2>2 DEF StillThere
<1>9. \A q \in Players : Written(q)' = Written(q) /\ Drafted(q)' = Drafted(q)
  BY <1>1 DEF Written, Drafted
<1>10. \A q \in Players : Holdings'[q] <= Holdings[q] /\ Cover'[q] <= Cover[q]
  <2> SUFFICES ASSUME NEW q \in Players
      PROVE  Holdings'[q] <= Holdings[q] /\ Cover'[q] <= Cover[q]
    OBVIOUS
  <2>1. Held(q) = Holdings[q] /\ Held(q)' = Holdings'[q]
    BY DEF Holdings
  <2>2. /\ InHand(q) \in Nat /\ Drafted(q) \in Nat /\ Written(q) \in Nat
        /\ InHand(q)' \in {InHand(q), 0}
    BY <1>6, <1>8 DEF Covered
  <2>3. /\ Holdings[q] = IF InHand(q) > Drafted(q) THEN InHand(q) ELSE Drafted(q)
        /\ Holdings'[q] = IF InHand(q)' > Drafted(q) THEN InHand(q)' ELSE Drafted(q)
    BY <1>6, <1>9 DEF Covered
  <2>4. /\ Cover[q] = IF Holdings[q] > Written(q) THEN Holdings[q] ELSE Written(q)
        /\ Cover'[q] = IF Holdings'[q] > Written(q) THEN Holdings'[q] ELSE Written(q)
    BY <1>6, <1>9, <2>1 DEF Covered
  <2>5. Holdings'[q] <= Holdings[q] /\ Holdings[q] \in Nat /\ Holdings'[q] \in Nat
    BY <2>2, <2>3
  <2> QED BY <2>2, <2>4, <2>5
<1>11. MoneyInv'
  BY <1>1, <1>3, <1>6, <1>10, MoneyStays DEF Core, Columns
<1> QED BY <1>3, <1>4, <1>5, <1>11 DEF Core

\* The last settlement: the row is gone, and what is paid was out.
LEMMA LastSettlementKeeps ==
    ASSUME Core, at = "settle", charged # Zero, Settle(pend), Overtakes, pend.final,
           StillThere(m'), at' \in {"idle", "recover"},
           making # "none" => m' # None /\ at' # "recover",
           live' \in BOOLEAN, told' \in BOOLEAN, UNCHANGED <<making, draft, restarts>>
    PROVE  Core'
<1>0. /\ late' \in {"no", "overtaken", "yes"}
      /\ late' # "yes" => late # "yes"
      /\ late' = "overtaken" => making' = "saving"
      /\ late' = "no" => draft' = None
      /\ \A q \in Players : Drafted(q)' = 0
  BY Overtaken
<1>1. /\ m # None /\ m.settled /\ pend.credits \in Amounts
      /\ pend.event \in Players \union {"refund"}
  BY DEF Core, HandlerInv, OrderInv, Amounts
<1>2. /\ row' = None /\ unsaved' = 0 /\ events' = events \union {pend.event}
      /\ Credit(pend.credits) /\ UNCHANGED <<charged, twice>>
  BY DEF Settle
<1>3. PICK credits \in Amounts : credits = pend.credits
  BY <1>1
<1>4. /\ purse' \in Amounts /\ paid' \in Amounts
      /\ paid' = [p \in Players |-> paid[p] + credits[p]]
  BY <1>2, <1>3, CreditPays DEF Core, Columns
<1>5. Columns'
  BY <1>0, <1>1, <1>2, <1>4 DEF Core, Columns, Purses
<1>6. MatchesInv' /\ OrderInv'
  <2>1. MatchesInv'
    BY <1>0, <1>1, <1>2 DEF Core, MatchesInv, StillThere
  <2> QED BY <1>0, <1>2, <2>1, OrderAfterwards
<1>7. HandlerInv'
  BY DEF HandlerInv
<1>8. OutInv' /\ RowInv'
  <2>1. Clean(row)' /\ Clean(m)' /\ RowInv'
    BY <1>1, <1>2 DEF Core, Clean, RowInv, StillThere, SameGame
  <2> QED BY <1>0, <2>1, OutAfterwards
<1>9. Covered'
  BY <1>6, <1>7, AmountsHeldNext
<1>10. \A q \in Players : Holdings'[q] = 0 /\ Cover'[q] = 0
  <2>1. m' # None => m'.settled
    BY <1>1 DEF StillThere, SameGame
  <2>2. \A q \in Players : InHand(q)' = 0 /\ Written(q)' = 0
    BY <1>1, <1>2, <2>1 DEF InHand, Written
  <2> QED BY <1>0, <2>2 DEF Holdings, Cover, Held
<1>11. Sum(Holdings') = 0 /\ Sum(Cover') = 0
  <2>1. Holdings' \in Amounts /\ Cover' \in Amounts
    BY <1>9 DEF Covered
  <2>2. Sum(Holdings') = Holdings'[Host]
    BY <1>10, <2>1, SumOfOne
  <2>3. Sum(Cover') = Cover'[Host]
    BY <1>10, <2>1, SumOfOne
  <2> QED BY <1>10, <2>2, <2>3
<1>12. (late # "yes" => Sum(credits) <= Out) /\ Sum(credits) \in Nat /\ Out \in Int
  BY <1>3, SumIsNat, OutIsInt DEF Core, MoneyInv, Money, Columns
<1>13. late # "yes" => /\ Sum(Holdings') + Sum(credits) <= Out
                       /\ Sum(Cover') + Sum(credits) <= Out + unsaved'
  BY <1>2, <1>11, <1>12
<1>14. MoneyInv'
  BY <1>0, <1>2, <1>4, <1>5, <1>9, <1>13, MoneyGoesOut DEF Core, Columns
<1> QED BY <1>5, <1>6, <1>7, <1>8, <1>14 DEF Core

\* A settlement that is not the last: the elimination is committed with the
\* payload, and nothing is paid.
LEMMA EliminationKeeps ==
    ASSUME Core, at = "settle", charged # Zero, Settle(pend), Overtakes, ~pend.final,
           StillThere(m'),
           at' \in {"idle", "save", "recover"}, at' = "save" => m' # None /\ ~m'.settled,
           making # "none" => m' # None /\ at' # "recover",
           live' \in BOOLEAN, told' \in BOOLEAN, UNCHANGED <<making, draft, restarts>>
    PROVE  Core'
<1>0. /\ late' \in {"no", "overtaken", "yes"}
      /\ late' # "yes" => late # "yes"
      /\ late' = "overtaken" => making' = "saving"
      /\ late' = "no" => draft' = None
      /\ \A q \in Players : Drafted(q)' = 0
  BY Overtaken
<1>1. /\ m # None /\ ~m.settled /\ pend.credits = Zero
      /\ pend.event \in Players \union {"refund"}
      /\ ~IsDuel(m) /\ m.joined /\ pend.event \notin Range(m.alive)
  BY DEF Core, HandlerInv, OrderInv
<1>2. /\ MatchInv(m) /\ m.stakes \in Amounts
      /\ late # "yes" => events \intersect Range(m.alive) = {}
  BY <1>1, MatchStakes DEF Core, MatchesInv, OutInv, Clean
<1>3. PICK s : s = [m EXCEPT !.view = "shoot"]
  OBVIOUS
<1>4. MatchInv(s) /\ SameGame(m, s)
  BY <1>1, <1>2, <1>3, ViewChanges
<1>5. PICK x : x = Saved(s)
  OBVIOUS
<1>6. MatchInv(x) /\ SameGame(s, x) /\ x # None
  BY <1>4, <1>5, ClosedChanges, InvMatchIsSome DEF Saved
<1>7. /\ row' = x /\ unsaved' = 0 /\ events' = events \union {pend.event}
      /\ Credit(Zero) /\ UNCHANGED <<charged, twice>>
  BY <1>1, <1>3, <1>5 DEF Settle
<1>8. purse' = purse /\ paid' = paid
  BY <1>7, ZeroIsAmounts DEF Credit, Core, Columns, Purses, Amounts
<1>9. Columns'
  BY <1>0, <1>1, <1>7, <1>8 DEF Core, Columns, Purses
<1>10. MatchesInv' /\ OrderInv'
  <2>1. MatchesInv'
    BY <1>0, <1>1, <1>6, <1>7 DEF Core, MatchesInv, StillThere
  <2> QED BY <1>0, <1>7, <2>1, OrderAfterwards
<1>11. HandlerInv'
  BY DEF HandlerInv
<1>12. late # "yes" => events' \intersect Range(m.alive) = {}
  BY <1>1, <1>2, <1>7
<1>13. OutInv' /\ RowInv'
  <2>1. late # "yes" => Clean(row)' /\ Clean(m)'
    BY <1>1, <1>4, <1>6, <1>7, <1>12 DEF Clean, StillThere, SameGame
  <2>2. RowInv'
    BY <1>1, <1>4, <1>6, <1>7 DEF Core, RowInv, SameGame
  <2>3. late' # "yes" => Clean(row)' /\ Clean(m)'
    BY <1>0, <2>1
  <2>4. late' = "no" => draft' = None
    BY <1>0
  <2> QED BY <2>2, <2>3, <2>4, OutAfterwards
<1>14. Covered /\ Covered'
  BY <1>10, <1>11, CoreCovers, AmountsHeldNext
<1>15. \A q \in Players : InHand(q) = m.stakes[q]
  BY <1>1, <1>2 DEF InHand, Amounts
<1>16. \A q \in Players : InHand(q)' \in {m.stakes[q], 0}
  <2>1. CASE m' = None
    BY <2>1 DEF InHand
  <2>2. CASE MatchInv(m') /\ SameGame(m, m')
    <3>1. m' # None /\ m'.stakes = m.stakes /\ ~m'.settled
      BY <1>1, <2>2, InvMatchIsSome DEF SameGame
    <3> QED BY <1>2, <3>1 DEF InHand, Amounts
  <2> QED BY <2>1, <2>2 DEF StillThere
<1>17. \A q \in Players : Written(q)' = m.stakes[q]
  BY <1>4, <1>6, <1>7 DEF Written, SameGame
<1>18. \A q \in Players : Holdings'[q] <= Holdings[q] /\ Cover'[q] <= Holdings[q]
  <2> SUFFICES ASSUME NEW q \in Players
      PROVE  Holdings'[q] <= Holdings[q] /\ Cover'[q] <= Holdings[q]
    OBVIOUS
  <2>1. Held(q)' = Holdings'[q] /\ m.stakes[q] \in Nat
    BY <1>2 DEF Holdings, Amounts
  <2>2. m.stakes[q] <= Holdings[q]
    BY <1>14, <1>15, <2>1 DEF Covered
  <2>3. Holdings'[q] \in {m.stakes[q], 0}
    BY <1>0, <1>14, <1>16, <2>1 DEF Covered
  <2>4. Cover'[q] = IF Holdings'[q] > m.stakes[q] THEN Holdings'[q] ELSE m.stakes[q]
    BY <1>14, <1>17, <2>1 DEF Covered
  <2> QED BY <1>14, <2>1, <2>2, <2>3, <2>4 DEF Covered, Amounts
<1>19. MoneyInv'
  BY <1>0, <1>7, <1>8, <1>9, <1>14, <1>18, MoneySaved DEF Core, Columns
<1> QED BY <1>9, <1>10, <1>11, <1>13, <1>19 DEF Core

\* The match as it is, and in the view of the next shot.
LEMMA MatchStays ==
    ASSUME MatchInv(m), m.joined => Playing(m)
    PROVE  /\ StillThere(m)
           /\ m.joined => StillThere([m EXCEPT !.view = "shoot"])
<1>1. StillThere(m)
  BY DEF StillThere, SameGame
<1>2. ASSUME m.joined PROVE StillThere([m EXCEPT !.view = "shoot"])
  <2>1. PICK y : y = [m EXCEPT !.view = "shoot"]
    OBVIOUS
  <2>2. MatchInv(y) /\ y.view = "shoot" /\ SameGame(m, y)
    BY <1>2, <2>1, ViewChanges
  <2> QED BY <2>1, <2>2 DEF StillThere, Playing
<1> QED BY <1>1, <1>2

\* The settlement has returned, and the match is over or goes on.
LEMMA SettleReturnsKeeps == Core /\ SettleReturns => Core'
<1> SUFFICES ASSUME Core, SettleReturns PROVE Core'
  OBVIOUS
<1>1. /\ at = "settle" /\ m # None /\ pend.final \in BOOLEAN /\ pend.final = m.settled
      /\ ~pend.final => m.joined
      /\ UNCHANGED <<making, draft, restarts>>
  BY DEF SettleReturns, Core, HandlerInv
<1>2. /\ charged # Zero /\ MatchInv(m)
      /\ StillThere(m) /\ (m.joined => StillThere([m EXCEPT !.view = "shoot"]))
  BY <1>1, TheMatch, MatchStays
<1>3. (Settle(pend) /\ Overtakes) \/ (NoCall /\ UNCHANGED late)
  BY DEF SettleReturns, SettleRefused
<1>4. CASE pend.final
  <2>1. m' = m /\ at' = "idle" /\ live' = live /\ told' = (pend.event = "refund")
    BY <1>1, <1>4 DEF SettleReturns
  <2>2. StillThere(m') /\ live' \in BOOLEAN /\ told' \in BOOLEAN
    BY <1>2, <2>1 DEF Core, Columns
  <2> QED BY <1>1, <1>2, <1>3, <1>4, <2>1, <2>2, LastSettlementKeeps, NotSettledKeeps
<1>5. CASE ~pend.final
  <2>1. /\ m' = [m EXCEPT !.view = "shoot"] /\ at' \in {"idle", "save"} /\ told' = told
        /\ live' \in BOOLEAN
    BY <1>5 DEF SettleReturns
  <2>2. StillThere(m') /\ told' \in BOOLEAN /\ m' # None /\ ~m'.settled
    <3>1. PICK y : y = m'
      OBVIOUS
    <3>2. StillThere(y) /\ told' \in BOOLEAN
      BY <1>1, <1>2, <1>5, <2>1, <3>1 DEF Core, Columns
    <3>3. y.view = "shoot"
      BY <1>2, <2>1, <3>1 DEF MatchInv, Match
    <3>4. y # None
      BY <3>3 DEF None
    <3> QED BY <1>1, <1>5, <3>1, <3>2, <3>4 DEF StillThere, SameGame
  <2> QED BY <1>1, <1>2, <1>3, <1>5, <2>1, <2>2, EliminationKeeps, NotSettledKeeps
<1> QED BY <1>1, <1>4, <1>5

\* The settlement raises, before or after its commit.
LEMMA SettleRaisesKeeps == Core /\ SettleRaises => Core'
<1> SUFFICES ASSUME Core, SettleRaises PROVE Core'
  OBVIOUS
<1>1. /\ at = "settle" /\ m # None /\ pend.final \in BOOLEAN
      /\ UNCHANGED <<making, draft, told, restarts>>
  BY DEF SettleRaises, Core, HandlerInv
<1>2. charged # Zero /\ StillThere(m)
  BY <1>1, TheMatch, MatchStays
<1>3. (Settle(pend) /\ Overtakes) \/ (NoCall /\ UNCHANGED late)
  BY DEF SettleRaises
<1>4. /\ at' \in {"idle", "recover"} /\ (m' = None \/ m' = m)
      /\ making # "none" => m' # None /\ at' # "recover"
  BY <1>1 DEF SettleRaises, Core, OrderInv
<1>5. StillThere(m')
  BY <1>2, <1>4 DEF StillThere
<1>6. live' \in BOOLEAN /\ told' \in BOOLEAN
  BY <1>1 DEF SettleRaises, Core, Columns
<1>7. CASE pend.final
  BY <1>1, <1>2, <1>3, <1>4, <1>5, <1>6, <1>7, LastSettlementKeeps, NotSettledKeeps
<1>8. CASE ~pend.final
  BY <1>1, <1>2, <1>3, <1>4, <1>5, <1>6, <1>8, EliminationKeeps, NotSettledKeeps
<1> QED BY <1>1, <1>7, <1>8

\* A leaver is refunded; what the row still holds for them is "unsaved".
LEMMA LeaveCreditKeeps == Core /\ LeaveCredit => Core'
<1> SUFFICES ASSUME Core, LeaveCredit PROVE Core'
  OBVIOUS
<1>1. /\ at = "leave" /\ m # None /\ ~m.settled /\ at' \in {"save", "idle"}
      /\ UNCHANGED <<m, live, making, draft, told, restarts>>
  BY DEF LeaveCredit, Core, HandlerInv
<1>2. /\ MatchInv(m) /\ (m.joined => Playing(m))
      /\ m.stakes \in Amounts /\ charged # Zero
  BY <1>1, TheMatch
<1>3. PICK p \in Players : /\ pend.credits \in Amounts /\ m.stakes[p] = 0
                           /\ \A q \in Players \ {p} : pend.credits[q] = 0
  BY <1>1 DEF Core, HandlerInv, Amounts
<1>4. PICK credits \in Amounts : credits = pend.credits
  BY <1>3
<1>5. PICK c \in Nat : c = credits[p]
  BY DEF Amounts
<1>6. Sum(credits) = c
  BY <1>3, <1>4, <1>5, SumOfOne
<1>7. Covered
  BY CoreCovers
<1>8. \A q \in Players : /\ InHand(q) = IF q = p THEN c ELSE m.stakes[q]
                         /\ InHand(q)' = m.stakes[q] /\ m.stakes[q] <= InHand(q)
  <2> SUFFICES ASSUME NEW q \in Players
      PROVE  /\ InHand(q) = IF q = p THEN c ELSE m.stakes[q]
             /\ InHand(q)' = m.stakes[q] /\ m.stakes[q] <= InHand(q)
    OBVIOUS
  <2>1. m.stakes[q] \in Nat
    BY <1>2 DEF Amounts
  <2>2. InHand(q) = m.stakes[q] + credits[q]
    BY <1>1, <1>4 DEF InHand
  <2>3. InHand(q)' = m.stakes[q]
    BY <1>1, <2>1 DEF InHand
  <2> QED BY <1>3, <1>4, <1>5, <2>1, <2>2, <2>3
<1>9. /\ Sum(Holdings) \in Nat /\ Sum(Cover) \in Nat /\ unsaved \in Nat /\ Out \in Int
      /\ late # "yes" => Sum(Holdings) <= Out /\ Sum(Cover) <= Out + unsaved
  BY <1>7, SumIsNat, OutIsInt DEF Covered, Core, MoneyInv, Money, Columns, Purses
<1>10. CASE NoCall /\ at' = "idle" /\ UNCHANGED late
  <2>1. UNCHANGED <<purse, row, events, charged, paid, unsaved, twice>>
    BY <1>10 DEF NoCall, db
  <2>2. Columns' /\ MatchesInv'
    BY <1>1, <1>10, <2>1 DEF Core, Columns, Purses, MatchesInv
  <2>3. HandlerInv' /\ OrderInv'
    BY <1>1, <1>2, <1>10, <2>1 DEF Core, HandlerInv, OrderInv
  <2>4. OutInv' /\ RowInv'
    BY <1>1, <1>10, <2>1 DEF Core, OutInv, Clean, RowInv
  <2>5. Covered'
    BY <2>2, <2>3, AmountsHeldNext
  <2>6. \A q \in Players : Held(q)' = Holdings'[q] /\ Held(q) = Holdings[q]
                           /\ Written(q)' = Written(q) /\ Drafted(q)' = Drafted(q)
    BY <1>1, <1>10, <2>1 DEF Written, Drafted, Holdings
  <2>7. \A q \in Players : Holdings'[q] <= Holdings[q] + (IF q = p THEN 0 ELSE 0)
    BY <1>7, <1>8, <2>5, <2>6 DEF Covered
  <2>8. \A q \in Players : Cover'[q] <= Cover[q] + (IF q = p THEN 0 ELSE 0)
    BY <1>7, <2>5, <2>6, <2>7, CoverFollows
  <2>9. \A q \in Players : Holdings'[q] <= Holdings[q] /\ Cover'[q] <= Cover[q]
    BY <1>7, <2>7, <2>8 DEF Covered, Amounts
  <2>10. MoneyInv'
    BY <1>7, <1>10, <2>1, <2>2, <2>5, <2>9, MoneyStays DEF Core, Columns
  <2> QED BY <2>2, <2>3, <2>4, <2>10 DEF Core
<1>11. CASE /\ Credit(credits) /\ Overtakes
            /\ unsaved' = IF row = None THEN 0 ELSE unsaved + StillHeld(credits)
            /\ UNCHANGED <<row, events, charged, twice>>
  <2>0. /\ late' \in {"no", "overtaken", "yes"}
        /\ late' # "yes" => late # "yes"
        /\ late' = "overtaken" => making' = "saving"
        /\ late' = "no" => draft' = None
        /\ \A q \in Players : Drafted(q)' = 0
    BY <1>1, <1>11, Overtaken
  <2> DEFINE again == [q \in Players |-> IF row.stakes[q] > 0 THEN credits[q] ELSE 0]
  <2>1. /\ purse' \in Amounts /\ paid' \in Amounts
        /\ paid' = [q \in Players |-> paid[q] + credits[q]]
    BY <1>11, CreditPays DEF Core, Columns
  <2>2. row # None => row.stakes \in Amounts
    BY MatchStakes DEF Core, MatchesInv
  <2>3. row # None => StillHeld(credits) = IF row.stakes[p] > 0 THEN c ELSE 0
    <3> SUFFICES ASSUME row # None
        PROVE  StillHeld(credits) = IF row.stakes[p] > 0 THEN c ELSE 0
      OBVIOUS
    <3>1. again \in Amounts /\ \A q \in Players \ {p} : again[q] = 0
      BY <1>3, <1>4 DEF Amounts
    <3>2. again[p] = IF row.stakes[p] > 0 THEN c ELSE 0
      BY <1>5
    <3>3. StillHeld(credits) = Sum(again)
      BY DEF StillHeld
    <3> HIDE DEF again
    <3>4. Sum(again) = again[p]
      BY <3>1, SumOfOne
    <3> QED BY <3>2, <3>3, <3>4
  <2>4. unsaved' \in Nat
    BY <1>9, <1>11, <2>3
  <2>5. Columns' /\ MatchesInv'
    BY <1>1, <1>11, <2>0, <2>1, <2>4 DEF Core, Columns, Purses, MatchesInv
  <2>6. HandlerInv' /\ OrderInv'
    <3>1. HandlerInv'
      BY <1>1 DEF HandlerInv
    <3>2. /\ making # "none" => m' # None /\ at' # "recover"
          /\ at' = "settle" => pend'.from # "recover"
      BY <1>1
    <3> QED BY <1>1, <1>2, <1>11, <2>0, <3>1, <3>2, OrderAfterwards
  <2>7. OutInv' /\ RowInv'
    <3>1. late # "yes" => Clean(row)' /\ Clean(m)'
      BY <1>1, <1>11 DEF Core, OutInv, Clean
    <3>2. RowInv'
      BY <1>1, <1>11 DEF Core, RowInv
    <3>3. late' # "yes" => Clean(row)' /\ Clean(m)'
      BY <2>0, <3>1
    <3>4. late' = "no" => draft' = None
      BY <2>0
    <3> QED BY <3>2, <3>3, <3>4, OutAfterwards
  <2>8. Covered'
    BY <2>5, <2>6, AmountsHeldNext
  <2>9. \A q \in Players : /\ Holdings'[q] = m.stakes[q] /\ Holdings'[q] <= Holdings[q]
                           /\ Held(q)' = Holdings'[q] /\ Held(q) = Holdings[q]
                           /\ InHand(q) <= Holdings[q]
    <3> SUFFICES ASSUME NEW q \in Players
        PROVE  /\ Holdings'[q] = m.stakes[q] /\ Holdings'[q] <= Holdings[q]
               /\ InHand(q) <= Holdings[q]
      BY DEF Holdings
    <3>1. InHand(q) \in Nat /\ m.stakes[q] \in Nat /\ InHand(q) <= Holdings[q]
      BY <1>2, <1>7 DEF Covered, Amounts
    <3>2. Holdings'[q] = m.stakes[q] /\ Holdings[q] \in Nat
      BY <1>7, <1>8, <2>0, <2>8, <3>1 DEF Covered, Amounts
    <3> QED BY <1>8, <3>1, <3>2
  <2>10. late # "yes" => Sum(Holdings') + Sum(credits) <= Out
    <3>1. Holdings \in Amounts /\ Holdings' \in Amounts /\ Holdings'[p] + c <= Holdings[p]
      BY <1>3, <1>7, <1>8, <2>8, <2>9 DEF Covered
    <3>2. Sum(Holdings') + c <= Sum(Holdings)
      BY <2>9, <3>1, SumGives
    <3>3. Sum(Holdings') \in Nat
      BY <3>1, SumIsNat
    <3> QED BY <1>6, <1>9, <3>2, <3>3
  <2>11. late # "yes" => Sum(Cover') + Sum(credits) <= Out + unsaved'
    <3> SUFFICES ASSUME late # "yes" PROVE Sum(Cover') + Sum(credits) <= Out + unsaved'
      OBVIOUS
    <3>0. /\ Sum(Cover') \in Nat /\ Sum(Holdings') \in Nat
          /\ Cover \in Amounts /\ Cover' \in Amounts
      BY <1>7, <2>8, SumIsNat DEF Covered
    <3>1. CASE row = None
      <4>1. \A q \in Players : Written(q)' = 0
        BY <1>11, <3>1 DEF Written
      <4>2. \A q \in Players : Cover'[q] <= Holdings'[q]
        BY <2>8, <2>9, <4>1 DEF Covered, Amounts
      <4>3. Sum(Cover') <= Sum(Holdings')
        BY <2>8, <4>2, SumGrows DEF Covered
      <4> QED BY <1>6, <1>9, <1>11, <2>10, <3>0, <3>1, <4>3
    <3>2. \A q \in Players : Written(q)' = Written(q)
      BY <1>11 DEF Written
    <3>3. \A q \in Players : Cover'[q] <= Cover[q]
      <4>1. \A q \in Players : Holdings'[q] <= Holdings[q] + (IF q = p THEN 0 ELSE 0)
        BY <1>7, <2>8, <2>9 DEF Covered, Amounts
      <4>2. \A q \in Players : Cover'[q] <= Cover[q] + (IF q = p THEN 0 ELSE 0)
        BY <1>7, <2>8, <2>9, <3>2, <4>1, CoverFollows
      <4> QED BY <3>0, <4>2 DEF Amounts
    <3>4. CASE row # None /\ row.stakes[p] > 0
      <4>1. Sum(Cover') <= Sum(Cover)
        BY <3>0, <3>3, SumGrows
      <4>2. unsaved' = unsaved + c
        BY <1>11, <2>3, <3>4
      <4> QED BY <1>6, <1>9, <3>0, <4>1, <4>2
    <3>5. CASE row # None /\ ~(row.stakes[p] > 0)
      <4>1. Written(p)' = 0
        BY <1>11, <2>2, <3>5 DEF Written, Amounts
      <4>2. Cover'[p] = 0 /\ c <= Cover[p]
        BY <1>3, <1>7, <1>8, <2>8, <2>9, <4>1 DEF Covered, Amounts
      <4>3. Sum(Cover') + c <= Sum(Cover)
        BY <3>0, <3>3, <4>2, SumGives
      <4>4. unsaved' = unsaved
        BY <1>9, <1>11, <2>3, <3>5
      <4> QED BY <1>6, <1>9, <3>0, <4>3, <4>4
    <3> QED BY <3>1, <3>4, <3>5
  <2>12. MoneyInv'
    BY <1>1, <1>11, <2>0, <2>1, <2>5, <2>8, <2>10, <2>11, MoneyGoesOut DEF Core, Columns
  <2> QED BY <2>5, <2>6, <2>7, <2>12 DEF Core
<1> QED BY <1>4, <1>10, <1>11 DEF LeaveCredit

(***************************************************************************)
(* A restart and the recovery.                                             *)
(***************************************************************************)
\* Only the row is left.
LEMMA RestartKeeps == Core /\ Restart => Core'
<1> SUFFICES ASSUME Core, Restart PROVE Core'
  OBVIOUS
<1>1. /\ restarts < MaxRestarts /\ restarts' = restarts + 1 /\ m' = None /\ live' = FALSE
      /\ at' = (IF row = None THEN "idle" ELSE "recover")
      /\ making' = "none" /\ draft' = None /\ told' = told
      /\ late' = (IF late = "overtaken" THEN "no" ELSE late)
      /\ UNCHANGED <<purse, row, events, charged, paid, unsaved, twice>>
  BY DEF Restart, NoCall, db
<1>0. /\ late' \in {"no", "overtaken", "yes"} /\ late' # "overtaken"
      /\ late' # "yes" => late # "yes"
  BY <1>1 DEF Core, Columns
<1>2. restarts' \in 0 .. MaxRestarts
  BY <1>1, LimitsAssumption DEF Core, Columns
<1>3. Columns' /\ MatchesInv'
  BY <1>0, <1>1, <1>2 DEF Core, Columns, Purses, MatchesInv
<1>4. HandlerInv' /\ OrderInv'
  <2>1. HandlerInv'
    BY <1>1 DEF HandlerInv
  <2>2. charged' = Zero' => charged = Zero /\ late = "no"
    BY <1>1 DEF Zero, Core, OrderInv
  <2>3. OrderInv'
    BY <1>0, <1>1, <2>2 DEF Core, OrderInv
  <2> QED BY <2>1, <2>3
<1>5. OutInv' /\ RowInv'
  <2>1. late # "yes" => Clean(row)' /\ Clean(m)'
    BY <1>1 DEF Core, OutInv, Clean
  <2>2. late' # "yes" => Clean(row)' /\ Clean(m)'
    BY <1>0, <2>1
  <2>3. RowInv'
    BY <1>1 DEF Core, RowInv
  <2> QED BY <1>1, <2>2, <2>3, OutAfterwards
<1>6. Covered /\ Covered'
  BY <1>3, <1>4, CoreCovers, AmountsHeldNext
<1>7. \A q \in Players : Held(q)' = 0 /\ Holdings'[q] = 0
  <2>1. \A q \in Players : InHand(q)' = 0 /\ Drafted(q)' = 0
    BY <1>1 DEF InHand, Drafted
  <2> QED BY <2>1 DEF Held, Holdings
<1>8. \A q \in Players : Written(q)' = IF row = None THEN 0 ELSE Written(q)
  BY <1>1 DEF Written
<1>9. \A q \in Players : Holdings'[q] <= Holdings[q] /\ Cover'[q] <= Cover[q]
  <2> SUFFICES ASSUME NEW q \in Players
      PROVE  Holdings'[q] <= Holdings[q] /\ Cover'[q] <= Cover[q]
    OBVIOUS
  <2>1. /\ Held(q) = Holdings[q] /\ Holdings[q] \in Nat /\ Cover[q] \in Nat
        /\ Cover[q] = IF Held(q) > Written(q) THEN Held(q) ELSE Written(q)
    BY <1>6 DEF Holdings, Covered, Amounts
  <2>2. Cover'[q] \in Nat /\ Cover'[q] = IF 0 > Written(q)' THEN 0 ELSE Written(q)'
    BY <1>6, <1>7 DEF Covered, Amounts
  <2>3. CASE row = None
    BY <1>7, <1>8, <2>1, <2>2, <2>3
  <2>4. CASE row # None
    <3>1. row.stakes \in Amounts
      BY <2>4, MatchStakes DEF Core, MatchesInv
    <3>2. Written(q) \in Nat
      BY <2>4, <3>1 DEF Written, Amounts
    <3> QED BY <1>7, <1>8, <2>1, <2>2, <2>4, <3>2
  <2> QED BY <2>3, <2>4
<1>10. MoneyInv'
  BY <1>0, <1>1, <1>3, <1>6, <1>9, MoneyStays DEF Core, Columns
<1> QED BY <1>3, <1>4, <1>5, <1>10 DEF Core

\* The match of the row is played on, or called off.
LEMMA RecoverKeeps == Core /\ Recover => Core'
<1> SUFFICES ASSUME Core, Recover PROVE Core'
  OBVIOUS
<1>1. /\ row # None /\ at = "recover" /\ twice' = twice + unsaved /\ unsaved' = 0
      /\ UNCHANGED <<purse, row, events, charged, paid>>
  BY DEF Recover, None
<1>2. /\ MatchInv(row) /\ row.stakes \in Amounts /\ ~row.settled
      /\ charged # Zero /\ making = "none" /\ draft = None
  BY <1>1, MatchStakes DEF Core, MatchesInv, RowInv, OrderInv, Columns
<1>3. row.view \in {"invite", "lobby", "shoot", "choice"} /\ row.joined \in BOOLEAN
  BY <1>2, MatchFields DEF MatchInv
<1>4. PICK v \in {"invite", "lobby", "shoot", "choice"} : v = RecoveredView(row)
  BY <1>3 DEF RecoveredView
<1>5. /\ v = "invite" => IsDuel(row)
      /\ v = "lobby" => ~IsDuel(row)
      /\ v \in {"shoot", "choice"} <=> row.joined
  BY <1>2, <1>3, <1>4 DEF RecoveredView, MatchInv, ViewInv, Playing
<1>6. PICK x : x = [row EXCEPT !.view = v]
  OBVIOUS
<1>7. MatchInv(x) /\ x.view = v /\ SameGame(row, x)
  BY <1>2, <1>5, <1>6, ViewChanges
<1>8. (x.joined => Playing(x)) /\ x # None /\ ~x.settled /\ x.stakes = row.stakes
  BY <1>2, <1>5, <1>7, InvMatchIsSome DEF SameGame, Playing
<1>9. Purses'
  BY <1>1 DEF Core, Columns, Purses
<1>10. Covered
  BY CoreCovers
<1>11. \A q \in Players : row.stakes[q] <= Cover[q]
  <2> SUFFICES ASSUME NEW q \in Players PROVE row.stakes[q] <= Cover[q]
    OBVIOUS
  <2>1. /\ Held(q) = Holdings[q] /\ Holdings[q] \in Nat /\ row.stakes[q] \in Nat
        /\ Cover[q] = IF Held(q) > row.stakes[q] THEN Held(q) ELSE row.stakes[q]
    BY <1>1, <1>2, <1>10 DEF Holdings, Covered, Amounts, Written
  <2> QED BY <2>1
<1>12. CASE /\ m' = x /\ live' = TRUE /\ at' = "idle"
            /\ UNCHANGED <<pend, making, draft, late, told, restarts>>
  <2>1. Columns' /\ MatchesInv'
    BY <1>1, <1>2, <1>7, <1>8, <1>9, <1>12 DEF Core, Columns, MatchesInv
  <2>2. HandlerInv' /\ OrderInv'
    <3>1. HandlerInv'
      BY <1>12 DEF HandlerInv
    <3>2. late' = "overtaken" => making' = "saving"
      BY <1>12 DEF Core, OrderInv
    <3> QED BY <1>1, <1>2, <1>12, <3>1, <3>2, OrderAfterwards
  <2>3. OutInv' /\ RowInv'
    BY <1>1, <1>2, <1>7, <1>12 DEF Core, OutInv, Clean, RowInv, SameGame
  <2>4. Covered'
    BY <2>1, <2>2, AmountsHeldNext
  <2>5. \A q \in Players : Held(q)' = row.stakes[q] /\ Written(q)' = row.stakes[q]
    <3> SUFFICES ASSUME NEW q \in Players
        PROVE  Held(q)' = row.stakes[q] /\ Written(q)' = row.stakes[q]
      OBVIOUS
    <3>1. row.stakes[q] \in Nat
      BY <1>2 DEF Amounts
    <3>2. InHand(q)' = row.stakes[q] /\ Written(q)' = row.stakes[q]
      BY <1>1, <1>8, <1>12, <3>1 DEF InHand, Written
    <3>3. Drafted(q)' = 0
      BY <1>2, <1>12 DEF Drafted
    <3> QED BY <3>1, <3>2, <3>3 DEF Held
  <2>6. \A q \in Players : Holdings'[q] = row.stakes[q]
    BY <2>5 DEF Holdings
  <2>7. \A q \in Players : Cover'[q] = row.stakes[q]
    BY <2>4, <2>5 DEF Covered
  <2>8. MoneyInv'
    BY <1>1, <1>9, <1>10, <1>11, <1>12, <2>4, <2>6, <2>7, MoneyTakenUp DEF Core, Columns
  <2> QED BY <2>1, <2>2, <2>3, <2>8 DEF Core
<1>13. CASE StartRefund(x, "recover")
  <2>1. PICK y : y = [x EXCEPT !.settled = TRUE, !.closed = TRUE]
    OBVIOUS
  <2>2. /\ MatchInv(y) /\ y.settled /\ y.stakes = x.stakes /\ y.joined = x.joined
        /\ y.view = x.view /\ y # None
    BY <1>7, <2>1, CalledOff, InvMatchIsSome
  <2>3. /\ m' = y /\ at' = "settle" /\ told' \in BOOLEAN
        /\ pend'.event = "refund" /\ pend'.credits = row.stakes /\ pend'.final = TRUE
        /\ UNCHANGED <<live, making, draft, late, restarts>>
    BY <1>8, <1>13, <2>1 DEF StartRefund, StartSettle
  <2>4. y.joined => Playing(y)
    BY <1>8, <2>2 DEF Playing
  <2>5. Columns' /\ MatchesInv'
    BY <1>1, <1>2, <1>9, <2>2, <2>3, <2>4 DEF Core, Columns, MatchesInv
  <2>6. HandlerInv'
    BY <1>2, <2>2, <2>3 DEF HandlerInv, Amounts
  <2>7. OrderInv'
    <3>1. charged' # Zero'
      BY <1>1, <1>2 DEF Zero
    <3> QED BY <1>1, <1>2, <2>3, <3>1 DEF Core, OrderInv
  <2>8. OutInv' /\ RowInv'
    BY <1>1, <1>2, <2>2, <2>3 DEF Core, OutInv, Clean, RowInv
  <2>9. Covered'
    BY <2>5, <2>6, AmountsHeldNext
  <2>10. \A q \in Players : Held(q)' = 0 /\ Written(q)' = row.stakes[q]
    <3>1. \A q \in Players : InHand(q)' = 0 /\ Written(q)' = row.stakes[q]
      BY <1>1, <2>2, <2>3 DEF InHand, Written
    <3>2. \A q \in Players : Drafted(q)' = 0
      BY <1>2, <2>3 DEF Drafted
    <3> QED BY <3>1, <3>2 DEF Held
  <2>11. \A q \in Players : Holdings'[q] = 0 /\ row.stakes[q] \in Nat /\ Cover[q] \in Nat
    BY <1>2, <1>10, <2>10 DEF Holdings, Covered, Amounts
  <2>12. \A q \in Players : Cover'[q] = row.stakes[q]
    BY <2>9, <2>10, <2>11 DEF Covered
  <2>13. \A q \in Players : Holdings'[q] <= Cover[q] /\ Cover'[q] <= Cover[q]
    BY <1>11, <2>11, <2>12
  <2>14. MoneyInv'
    BY <1>1, <1>2, <1>9, <1>10, <1>11, <2>3, <2>9, <2>13, MoneyTakenUp DEF Core, Columns
  <2> QED BY <2>5, <2>6, <2>7, <2>8, <2>14 DEF Core
<1> QED BY <1>4, <1>6, <1>12, <1>13 DEF Recover

(***************************************************************************)
(* The invariant, and what follows from it.                                *)
(***************************************************************************)
\* A step that changes nothing.
LEMMA StutterKeeps == Core /\ UNCHANGED vars => Core'
<1> SUFFICES ASSUME Core, UNCHANGED vars PROVE Core'
  OBVIOUS
<1>1. UNCHANGED <<purse, row, events, charged, paid, unsaved, twice,
                  m, live, at, pend, making, draft, late, told, restarts>>
  BY DEF vars, db
<1>2. Columns' /\ MatchesInv' /\ OrderInv' /\ HandlerInv' /\ OutInv' /\ RowInv'
  BY <1>1 DEF Core, Columns, Purses, MatchesInv, OrderInv, HandlerInv, OutInv, Clean, RowInv
<1>3. Holdings' = Holdings /\ Cover' = Cover /\ Out' = Out
  BY <1>1 DEF Holdings, Cover, Held, InHand, Drafted, Written, Out
<1>4. MoneyInv'
  BY <1>1, <1>3 DEF Core, MoneyInv, Money
<1> QED BY <1>2, <1>4 DEF Core

\* Every step keeps the invariant.
LEMMA NextKeeps == Core /\ [Next]_vars => Core'
<1> SUFFICES ASSUME Core, [Next]_vars PROVE Core'
  OBVIOUS
<1>1. ASSUME NEW mode \in Modes, Create(mode) PROVE Core'
  BY <1>1, CreateKeeps
<1>2. CASE CallSave \/ FirstSave \/ RematchPays \/ RematchStarts
  BY <1>2, CallSaveKeeps, FirstSaveKeeps, RematchPaysKeeps, RematchStartsKeeps
<1>3. CASE SaveMatch \/ SettleReturns \/ SettleRaises \/ LeaveCredit
  BY <1>3, SaveMatchKeeps, SettleReturnsKeeps, SettleRaisesKeeps, LeaveCreditKeeps
<1>4. CASE Accept \/ Decline \/ Withdraw
  BY <1>4, AcceptKeeps, DeclineKeeps, WithdrawKeeps
<1>5. ASSUME NEW p \in Players, Join(p) \/ Leave(p) PROVE Core'
  BY <1>5, JoinKeeps, LeaveKeeps
<1>6. CASE Disband \/ LobbyTimeout \/ StartRoyale
  BY <1>6, DisbandKeeps, LobbyTimeoutKeeps, StartRoyaleKeeps
<1>7. CASE PullTrigger \/ DoubleDown \/ PassTurn \/ TurnTimeout
  BY <1>7, PullTriggerKeeps, DoubleDownKeeps, PassTurnKeeps, TurnTimeoutKeeps
<1>8. CASE Restart \/ Recover
  BY <1>8, RestartKeeps, RecoverKeeps
<1>9. CASE UNCHANGED vars
  BY <1>9, StutterKeeps
<1> QED BY <1>1, <1>2, <1>3, <1>4, <1>5, <1>6, <1>7, <1>8, <1>9 DEF Next

\* The inductive invariant of a match, in whichever order its first save comes:
\* the lists and the gun fit the phase and nothing settled is saved; unless an
\* overtaken save wrote its old payload, what memory or the row may still pay
\* was paid in and is not out yet, and who was eliminated is in neither.
THEOREM RouletteInvariant == Spec => []RInv
<1>1. Init => Core
  BY CoreAtStart
<1>2. Core /\ [Next]_vars => Core'
  BY NextKeeps
<1>3. Core => RInv
  BY CoreIsEnough
<1> QED BY <1>1, <1>2, <1>3, PTL DEF Spec

\* The columns, the matches and the handler's state keep their types.
THEOREM RouletteTypes == Spec => []TypeOK
<1>1. RInv => TypeOK
  BY DEF RInv
<1> QED BY <1>1, RouletteInvariant, PTL

\* A saved row never promises more than the stakes that are still out, except
\* for what a leaver was refunded before the list without them was saved, as
\* long as no overtaken save wrote the payload it had built before.
THEOREM RouletteRowIsBacked == Spec => []RowIsBacked
<1>1. Core => RowIsBacked
  <2> SUFFICES ASSUME Core, late # "yes" PROVE Backed
    BY DEF RowIsBacked
  <2>1. Covered /\ Money /\ Purses /\ Out \in Int
    BY CoreCovers, OutIsInt DEF Core, Columns, MoneyInv
  <2>2. Sum(Holdings) \in Nat /\ Sum(Cover) \in Nat /\ unsaved \in Nat
    BY <2>1, SumIsNat DEF Covered, Purses
  <2>3. Out >= 0
    BY <2>1, <2>2 DEF Money
  <2>4. ASSUME row # None PROVE Sum(row.stakes) <= Out + unsaved
    <3>1. row.stakes \in Amounts
      BY <2>4, MatchStakes DEF Core, MatchesInv
    <3>2. \A q \in Players : row.stakes[q] <= Cover[q]
      <4> SUFFICES ASSUME NEW q \in Players PROVE row.stakes[q] <= Cover[q]
        OBVIOUS
      <4>1. /\ Held(q) = Holdings[q] /\ Holdings[q] \in Nat /\ row.stakes[q] \in Nat
            /\ Cover[q] = IF Held(q) > row.stakes[q] THEN Held(q) ELSE row.stakes[q]
        BY <2>1, <2>4, <3>1 DEF Holdings, Covered, Amounts, Written
      <4> QED BY <4>1
    <3>3. Sum(row.stakes) <= Sum(Cover) /\ Sum(row.stakes) \in Nat
      BY <2>1, <3>1, <3>2, SumGrows, SumIsNat DEF Covered
    <3> QED BY <2>1, <2>2, <3>3 DEF Money
  <2> QED BY <2>3, <2>4 DEF Backed, Out
<1> QED BY <1>1, CoreAtStart, NextKeeps, PTL DEF Spec

\* Nobody whose elimination was committed is alive in a row a restart may
\* read, as long as no overtaken save wrote an older list.
THEOREM RouletteEliminatedStayOut == Spec => []EliminatedStayOut
<1>1. RInv => EliminatedStayOut
  BY DEF RInv, OutInv, Clean, RowInv, EliminatedStayOut
<1> QED BY <1>1, RouletteInvariant, PTL

\* An elimination that goes on always has as many bullets as players but one,
\* and a chamber for each of them.
THEOREM RouletteGunOutlasts == Spec => []GunOutlastsPlayers
<1>1. RInv => GunOutlastsPlayers
  <2> SUFFICES ASSUME RInv, NEW x \in {m, row}, x # None, Playing(x), ~x.settled, ~IsDuel(x)
      PROVE  x.chambers >= x.bullets /\ x.bullets >= Len(x.alive) - 1
    BY DEF GunOutlastsPlayers
  <2>1. MatchInv(x)
    BY DEF RInv, MatchesInv
  <2> QED BY <2>1 DEF MatchInv, ViewInv, GunInv
<1> QED BY <1>1, RouletteInvariant, PTL
=================================================================================
