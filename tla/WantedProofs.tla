----------------------------- MODULE WantedProofs -----------------------------
(***************************************************************************)
(* Theorems about Wanted: whoever plays, with any number of commands at    *)
(* once and locks that time out at any moment, prison, its records and the *)
(* pardons agree, so do the loot and what the police are paid for it, and  *)
(* whoever is wanted is a robber but for players whose lock was handed on. *)
(***************************************************************************)
EXTENDS Wanted, FiniteSetTheorems, FunctionTheorems, SequenceTheorems, TLAPS

USE InitialAssumption, SizesAssumption, PlayersAssumption, BoundsAssumption, NobodyAssumption

Loot == Seq(1 .. MaxSteal)

(***************************************************************************)
(* The sum of the robberies.                                               *)
(***************************************************************************)
LEMMA CoinsAreFinite ==
    ASSUME NEW loot \in Loot
    PROVE  IsFiniteSet(Coins(loot)) /\ Total(loot) \in Nat
<1> DEFINE all == (1 .. Len(loot)) \X (1 .. MaxSteal)
<1>1. Len(loot) \in Nat
  BY DEF Loot
<1>2. IsFiniteSet(1 .. Len(loot)) /\ IsFiniteSet(1 .. MaxSteal)
  BY <1>1, FS_Interval
<1>3. IsFiniteSet(all)
  BY <1>2, FS_Product
<1>4. Coins(loot) \in SUBSET all
  BY DEF Coins
<1>5. IsFiniteSet(Coins(loot))
  BY <1>3, <1>4, FS_Subset
<1> QED BY <1>5, FS_CardinalityType DEF Total

\* Nothing is remembered as loot.
LEMMA NothingIsNothing == <<>> \in Loot /\ Total(<<>>) = 0
<1>1. Coins(<<>>) = {}
  <2>1. 1 .. Len(<<>>) = {}
    OBVIOUS
  <2> QED BY <2>1 DEF Coins
<1>2. <<>> \in Loot
  BY EmptySeq DEF Loot
<1>3. Cardinality({}) = 0
  BY FS_EmptySet
<1> QED BY <1>1, <1>2, <1>3 DEF Total

\* A robbery adds its coins.
LEMMA AppendAdds ==
    ASSUME NEW loot \in Loot, NEW s \in 1 .. MaxSteal
    PROVE  Append(loot, s) \in Loot /\ Total(Append(loot, s)) = Total(loot) + s
<1> DEFINE k == Len(loot) + 1
           more == Append(loot, s)
           last == {k} \X (1 .. s)
<1>1. /\ more \in Loot /\ Len(more) = k /\ k \in Nat
      /\ more[k] = s /\ \A i \in 1 .. Len(loot) : more[i] = loot[i]
  BY DEF Loot
<1>2. Coins(more) = Coins(loot) \union last
  <2>1. ASSUME NEW c \in Coins(more) PROVE c \in Coins(loot) \union last
    <3>1. c \in (1 .. k) \X (1 .. MaxSteal) /\ c[2] <= more[c[1]]
      BY <1>1 DEF Coins
    <3>2. CASE c[1] = k
      BY <1>1, <3>1, <3>2
    <3>3. CASE c[1] # k
      <4>1. c[1] \in 1 .. Len(loot)
        BY <1>1, <3>1, <3>3
      <4> QED BY <1>1, <3>1, <4>1 DEF Coins
    <3> QED BY <3>2, <3>3
  <2>2. ASSUME NEW c \in Coins(loot) PROVE c \in Coins(more)
    <3>1. c \in (1 .. Len(loot)) \X (1 .. MaxSteal) /\ c[2] <= loot[c[1]]
      BY DEF Coins
    <3>2. c \in (1 .. k) \X (1 .. MaxSteal) /\ more[c[1]] = loot[c[1]]
      BY <1>1, <3>1
    <3> QED BY <1>1, <3>1, <3>2 DEF Coins
  <2>3. ASSUME NEW c \in last PROVE c \in Coins(more)
    <3>1. c \in (1 .. k) \X (1 .. MaxSteal) /\ c[1] = k /\ c[2] <= s
      BY <1>1, <2>3
    <3> QED BY <1>1, <3>1 DEF Coins
  <2> QED BY <2>1, <2>2, <2>3
<1>3. Coins(loot) \intersect last = {}
  <2>1. \A c \in Coins(loot) : c[1] \in 1 .. Len(loot)
    BY DEF Coins
  <2>2. \A c \in last : c[1] = k
    OBVIOUS
  <2> QED BY <1>1, <2>1, <2>2
<1>4. IsFiniteSet(last) /\ Cardinality(last) = s
  <2>1. IsFiniteSet({k}) /\ Cardinality({k}) = 1
    BY FS_Singleton
  <2>2. IsFiniteSet(1 .. s) /\ Cardinality(1 .. s) = s
    BY FS_Interval
  <2>3. IsFiniteSet(last) /\ Cardinality(last) = Cardinality({k}) * Cardinality(1 .. s)
    BY <2>1, <2>2, FS_Product
  <2> QED BY <2>1, <2>2, <2>3
<1>5. IsFiniteSet(Coins(loot)) /\ Total(loot) \in Nat
  BY CoinsAreFinite
<1>6. Cardinality(Coins(loot) \union last) =
        Cardinality(Coins(loot)) + Cardinality(last) - Cardinality(Coins(loot) \intersect last)
  BY <1>4, <1>5, FS_Union
<1>7. Cardinality(Coins(loot) \intersect last) = 0
  BY <1>3, FS_EmptySet
<1> QED BY <1>1, <1>2, <1>4, <1>5, <1>6, <1>7 DEF Total

\* Forgetting the first robberies adds no coin.
LEMMA SuffixIsLess ==
    ASSUME NEW loot \in Loot, NEW m \in 1 .. Len(loot)
    PROVE  /\ SubSeq(loot, m, Len(loot)) \in Loot
           /\ Total(SubSeq(loot, m, Len(loot))) <= Total(loot)
<1> DEFINE rest == SubSeq(loot, m, Len(loot))
           old(c) == <<c[1] + m - 1, c[2]>>
           f == [c \in Coins(rest) |-> old(c)]
<1>0. Len(loot) \in Nat /\ \A i \in 1 .. Len(loot) : loot[i] \in 1 .. MaxSteal
  BY ElementOfSeq DEF Loot
<1>1. /\ rest \in Loot /\ Len(rest) = Len(loot) - m + 1
      /\ \A i \in 1 .. Len(loot) - m + 1 : rest[i] = loot[m + i - 1]
  <2>1. \A i \in m .. Len(loot) : loot[i] \in 1 .. MaxSteal
    BY <1>0
  <2>2. m \in Int /\ Len(loot) \in Int /\ m <= Len(loot)
    BY <1>0
  <2>3. /\ rest \in Seq(1 .. MaxSteal)
        /\ Len(rest) = IF m <= Len(loot) THEN Len(loot) - m + 1 ELSE 0
        /\ \A i \in 1 .. Len(loot) - m + 1 : rest[i] = loot[m + i - 1]
    BY <2>1, <2>2, SubSeqProperties
  <2> QED BY <2>2, <2>3 DEF Loot
<1>2. ASSUME NEW c \in Coins(rest)
      PROVE  old(c) \in Coins(loot)
  <2>1. c \in (1 .. Len(rest)) \X (1 .. MaxSteal) /\ c[2] <= rest[c[1]]
    BY DEF Coins
  <2>2. c[1] + m - 1 \in 1 .. Len(loot) /\ rest[c[1]] = loot[c[1] + m - 1]
    <3>1. c[1] \in 1 .. Len(loot) - m + 1
      BY <1>1, <2>1
    <3>2. c[1] + m - 1 = m + c[1] - 1
      BY <1>0, <3>1
    <3>3. rest[c[1]] = loot[m + c[1] - 1]
      BY <1>1, <3>1
    <3> HIDE DEF rest
    <3> QED BY <1>0, <3>1, <3>2, <3>3
  <2> QED BY <2>1, <2>2 DEF Coins
<1>3. \A c, d \in Coins(rest) : f[c] = f[d] => c = d
  <2> SUFFICES ASSUME NEW c \in Coins(rest), NEW d \in Coins(rest), f[c] = f[d]
               PROVE  c = d
    OBVIOUS
  <2>1. c \in Nat \X Nat /\ d \in Nat \X Nat
    BY <1>0, <1>1 DEF Coins
  <2>2. c[1] + m - 1 = d[1] + m - 1 /\ c[2] = d[2]
    OBVIOUS
  <2> QED BY <2>1, <2>2
<1>4. f \in Injection(Coins(rest), Coins(loot))
  <2>1. f \in [Coins(rest) -> Coins(loot)]
    BY <1>2
  <2> QED BY <1>3, <2>1, Fun_IsInj
<1>5. IsFiniteSet(Coins(loot))
  BY CoinsAreFinite
<1> QED BY <1>1, <1>4, <1>5, FS_Injection DEF Total

\* What is remembered grows by the loot at most: the oldest is forgotten.
LEMMA RememberAdds ==
    ASSUME NEW loot \in Loot, NEW s \in 1 .. MaxSteal
    PROVE  Remember(loot, s) \in Loot /\ Total(Remember(loot, s)) <= Total(loot) + s
<1> DEFINE history == Append(loot, s)
           m == Greater(1, Len(history) - LootKept + 1)
<1>1. history \in Loot /\ Total(history) = Total(loot) + s
  BY AppendAdds
<1>2. Len(history) \in Nat /\ Len(history) >= 1
  BY DEF Loot
<1>3. m \in 1 .. Len(history)
  BY <1>2 DEF Greater
<1>4. Remember(loot, s) = SubSeq(history, m, Len(history))
  BY DEF Remember
<1> HIDE DEF history, m
<1> QED BY <1>1, <1>3, <1>4, SuffixIsLess

(***************************************************************************)
(* The rows: what each command makes of a sound row is sound.              *)
(***************************************************************************)
LEMMA RowTotals ==
    ASSUME NEW row, Row(row)
    PROVE  row.loot \in Loot /\ Total(row.loot) \in Nat
BY CoinsAreFinite DEF Row, Loot

\* A change that keeps the role and gives no star.
Tame(row, new) == new.role = row.role /\ new.wanted_stars \in {0, row.wanted_stars}

\* Coins come and go, and times are noted.
LEMMA PayKeeps ==
    ASSUME NEW row, NEW balance \in Nat,
           NEW n, NEW q \in Nat, NEW r, NEW h, NEW s, NEW b, Sound(row, n, q, r, h, s, b)
    PROVE  LET new == [row EXCEPT !.balance = balance]
           IN  Sound(new, n, q, r, h, s, b) /\ Tame(row, new) /\ new.balance = balance
BY DEF Sound, Row, Columns, Unhunted, Tame

\* The time of a robbery is noted.
LEMMA NoteRobKeeps ==
    ASSUME NEW row, NEW time,
           NEW n, NEW q \in Nat, NEW r, NEW h, NEW s, NEW b, Sound(row, n, q, r, h, s, b)
    PROVE  LET new == [row EXCEPT !.last_rob = time]
           IN  /\ Sound(new, n, q, r, h, s, b) /\ Tame(row, new)
               /\ new.balance = row.balance
BY DEF Sound, Row, Columns, Unhunted, Tame

\* The time of being robbed is noted.
LEMMA NoteRobbedKeeps ==
    ASSUME NEW row, NEW time,
           NEW n, NEW q \in Nat, NEW r, NEW h, NEW s, NEW b, Sound(row, n, q, r, h, s, b)
    PROVE  LET new == [row EXCEPT !.last_robbed = time]
           IN  /\ Sound(new, n, q, r, h, s, b) /\ Tame(row, new)
               /\ new.balance = row.balance
BY DEF Sound, Row, Columns, Unhunted, Tame

\* A robbery: a star, a hunt the police did not have, and the loot.
LEMMA LootKeeps ==
    ASSUME NEW row, NEW coins \in 1 .. MaxSteal, NEW now,
           NEW n, NEW q \in Nat, NEW r \in Nat, NEW h \in Nat, NEW s \in Nat, NEW b \in Nat,
           Sound(row, n, q, r, h, s, b)
    PROVE  LET new == LootedRow(row, coins, now)
           IN  /\ Sound(new, n, q, r + 1, h, s + coins, b)
               /\ new.role = row.role /\ new.balance = row.balance + coins
<1> DEFINE stars == Lesser(MaxStars, row.wanted_stars + 1)
           loot == Remember(row.loot, coins)
           new == LootedRow(row, coins, now)
<1>1. row.loot \in Loot /\ Total(row.loot) \in Nat
  BY RowTotals DEF Sound
<1>2. loot \in Loot /\ Total(loot) \in Nat /\ Total(loot) <= Total(row.loot) + coins
  BY <1>1, RememberAdds, CoinsAreFinite
<1>3. stars \in 0 .. MaxStars
  <2>1. MaxStars \in Nat /\ row.wanted_stars \in 0 .. MaxStars
    BY DEF Sound, Row
  <2> QED BY <2>1 DEF Lesser
<1>4. new = [row EXCEPT !.balance = row.balance + coins, !.last_rob = now,
                        !.wanted_stars = stars, !.wanted_hunted = FALSE, !.loot = loot]
  BY DEF LootedRow
<1> HIDE DEF loot, stars, new
<1>5. /\ DOMAIN new = Columns /\ new.balance = row.balance + coins /\ new.loot = loot
      /\ new.wanted_stars = stars /\ new.wanted_hunted = FALSE
      /\ new.role = row.role /\ new.cert = row.cert /\ new.in_prison = row.in_prison
      /\ new.bail_debt = row.bail_debt
  BY <1>4 DEF Sound, Row, Columns
<1>6. Row(new)
  <2>1. row.balance + coins \in Nat /\ row.bail_debt \in Nat
    BY DEF Sound, Row
  <2>2. {row.in_prison, row.cert, FALSE} \subseteq BOOLEAN
    BY DEF Sound, Row
  <2>3. loot \in Seq(1 .. MaxSteal)
    BY <1>2 DEF Loot
  <2> QED BY <1>3, <1>5, <2>1, <2>2, <2>3 DEF Row
<1>7. h + Unhunted(new) <= r + 1
  BY DEF Sound, Unhunted
<1>8. b + Total(new.loot) <= s + coins
  BY <1>1, <1>2, <1>5 DEF Sound
<1>9. Sound(new, n, q, r + 1, h, s + coins, b)
  BY <1>5, <1>6, <1>7, <1>8 DEF Sound
<1> QED BY <1>5, <1>9 DEF new

\* A robber who is struck back and left without a coin goes to prison.
LEMMA StrikeKeeps ==
    ASSUME NEW row, NEW coins \in 1 .. MaxSteal, NEW n \in Nat, NEW q \in Nat,
           NEW r, NEW h, NEW s, NEW b, Sound(row, n, q, r, h, s, b)
    PROVE  LET struck == StruckRow(row, coins)
               new == [struck EXCEPT !.in_prison = @ \/ Jails(struck)]
           IN  /\ Sound(new, IF Jails(struck) THEN n + 1 ELSE n, q, r, h, s, b)
               /\ Tame(row, new)
<1> DEFINE pays == Pays(row, coins)
           struck == StruckRow(row, coins)
           new == [struck EXCEPT !.in_prison = @ \/ Jails(struck)]
<1>1. row.balance \in Nat /\ row.bail_debt \in Nat /\ coins \in Nat
  BY DEF Sound, Row
<1>2. /\ pays \in Nat /\ row.balance - pays \in Nat /\ 2 * coins - pays \in Nat
      /\ 2 * coins - pays > 0 => row.balance - pays = 0
  BY <1>1 DEF Pays, Lesser
<1>3. struck = [row EXCEPT !.balance = row.balance - pays,
                           !.bail_debt = row.bail_debt + 2 * coins - pays]
  BY DEF StruckRow
<1> HIDE DEF pays, struck
<1>4. row.bail_debt + 2 * coins - pays \in Nat
  BY <1>1, <1>2
<1>5. /\ DOMAIN struck = Columns
      /\ struck.balance = row.balance - pays
      /\ struck.bail_debt = row.bail_debt + 2 * coins - pays
      /\ struck.in_prison = row.in_prison /\ struck.role = row.role
      /\ struck.cert = row.cert /\ struck.loot = row.loot
      /\ struck.wanted_stars = row.wanted_stars /\ struck.wanted_hunted = row.wanted_hunted
  BY <1>3 DEF Sound, Row, Columns
<1>6. /\ DOMAIN new = Columns /\ new.in_prison = (struck.in_prison \/ Jails(struck))
      /\ new.balance = struck.balance /\ new.bail_debt = struck.bail_debt
      /\ new.role = struck.role /\ new.cert = struck.cert /\ new.loot = struck.loot
      /\ new.wanted_stars = struck.wanted_stars /\ new.wanted_hunted = struck.wanted_hunted
  BY <1>5 DEF Columns
<1> HIDE DEF new
<1>7. Row(new)
  BY <1>2, <1>4, <1>5, <1>6 DEF Sound, Row
<1>8. new.bail_debt > 0 => new.in_prison \/ q > 0
  <2>1. CASE 2 * coins - pays > 0
    BY <1>2, <1>5, <1>6, <2>1 DEF Jails
  <2>2. CASE 2 * coins - pays = 0
    <3>1. row.bail_debt + 2 * coins - pays = row.bail_debt
      BY <1>1, <1>2, <2>2
    <3> QED BY <1>5, <1>6, <3>1 DEF Sound
  <2> QED BY <1>2, <2>1, <2>2
<1>9. Unhunted(new) = Unhunted(row)
  BY <1>5, <1>6 DEF Unhunted
<1>10. (IF Jails(struck) THEN n + 1 ELSE n) = (IF new.in_prison THEN 1 ELSE 0) + q
  <2>1. CASE Jails(struck)
    <3>1. ~row.in_prison /\ n = q
      BY <1>5, <2>1 DEF Sound, Jails
    <3>2. new.in_prison
      BY <1>6, <2>1, Zenon
    <3>3. (IF new.in_prison THEN 1 ELSE 0) = 1
      BY <3>2
    <3> HIDE DEF new
    <3>4. (IF Jails(struck) THEN n + 1 ELSE n) = n + 1
      BY <2>1
    <3> QED BY <3>1, <3>3, <3>4
  <2>2. CASE ~Jails(struck)
    BY <1>5, <1>6, <2>2 DEF Sound
  <2> QED BY <2>1, <2>2
<1>11. Sound(new, IF Jails(struck) THEN n + 1 ELSE n, q, r, h, s, b)
  BY <1>5, <1>6, <1>7, <1>8, <1>9, <1>10 DEF Sound
<1> QED BY <1>5, <1>6, <1>11 DEF new, struck, Tame

\* The prey got away; the hunt is used up.
LEMMA HuntKeeps ==
    ASSUME NEW row, NEW n, NEW q \in Nat, NEW r \in Nat, NEW h \in Nat, NEW s, NEW b,
           Sound(row, n, q, r, h, s, b), row.wanted_stars > 0, ~row.wanted_hunted
    PROVE  LET new == [row EXCEPT !.wanted_hunted = TRUE]
           IN  Sound(new, n, q, r, h + 1, s, b) /\ Tame(row, new)
BY DEF Sound, Row, Columns, Unhunted, Tame

\* The police caught the prey and are paid for its loot.
LEMMA CatchKeeps ==
    ASSUME NEW row, NEW n \in Nat, NEW q \in Nat,
           NEW r \in Nat, NEW h \in Nat, NEW s \in Nat, NEW b \in Nat,
           Sound(row, n, q, r, h, s, b), row.wanted_stars > 0, ~row.wanted_hunted, ~row.in_prison
    PROVE  /\ Sound(CaughtRow(row), n + 1, q, r, h + 1, s, b + Total(row.loot))
           /\ Tame(row, CaughtRow(row))
<1> DEFINE due == (6 * Total(row.loot)) \div 10
           got == Lesser(due, row.balance)
           new == CaughtRow(row)
<1>1. row.loot \in Loot /\ Total(row.loot) \in Nat /\ row.balance \in Nat /\ row.bail_debt \in Nat
  BY RowTotals DEF Sound, Row
<1>2. due \in Nat
  <2>1. \A k \in Nat : (6 * k) \div 10 \in Nat
    OBVIOUS
  <2> QED BY <1>1, <2>1
<1> HIDE DEF due
<1>3. got \in Nat /\ row.balance - got \in Nat /\ row.bail_debt + due - got \in Nat
  BY <1>1, <1>2 DEF Lesser
<1>4. new = [row EXCEPT !.balance = row.balance - got, !.bail_debt = row.bail_debt + due - got,
                        !.in_prison = TRUE, !.wanted_stars = 0, !.wanted_hunted = FALSE,
                        !.loot = <<>>]
  BY DEF CaughtRow, due
<1> HIDE DEF got, new
<1>5. /\ DOMAIN new = Columns /\ new.balance = row.balance - got
      /\ new.bail_debt = row.bail_debt + due - got /\ new.in_prison = TRUE
      /\ new.wanted_stars = 0 /\ new.wanted_hunted = FALSE /\ new.loot = <<>>
      /\ new.cert = row.cert /\ new.role = row.role
  BY <1>4 DEF Sound, Row, Columns
<1>6. <<>> \in Loot /\ Total(<<>>) = 0
  BY NothingIsNothing
<1>7. Row(new)
  <2>1. {TRUE, FALSE, row.cert} \subseteq BOOLEAN
    BY DEF Sound, Row
  <2>2. 0 \in 0 .. MaxStars
    OBVIOUS
  <2> QED BY <1>3, <1>5, <1>6, <2>1, <2>2 DEF Row, Loot
<1>8. n = q
  BY DEF Sound
<1>9. h + 1 + Unhunted(new) <= r
  BY <1>5 DEF Sound, Unhunted
<1>10. b + Total(row.loot) + Total(new.loot) <= s
  BY <1>1, <1>5, <1>6 DEF Sound
<1>11. new.cert => new.role = "civilian"
  BY <1>5 DEF Sound
<1>12. n + 1 = (IF new.in_prison THEN 1 ELSE 0) + q
  BY <1>5, <1>8
<1> QED BY <1>5, <1>7, <1>9, <1>10, <1>11, <1>12 DEF Sound, Tame, new

\* Stars, hunts and loot are wiped.
LEMMA WipeKeeps ==
    ASSUME NEW row, NEW n, NEW q \in Nat,
           NEW r \in Nat, NEW h \in Nat, NEW s \in Nat, NEW b \in Nat,
           Sound(row, n, q, r, h, s, b), NEW time,
           NEW role, role = row.role \/ ~row.cert
    PROVE  LET new == [row EXCEPT !.role = role, !.last_role_change = time, !.wanted_stars = 0,
                                  !.wanted_hunted = FALSE, !.loot = <<>>]
           IN  Sound(new, n, q, r, h, s, b)
<1> DEFINE new == [row EXCEPT !.role = role, !.last_role_change = time, !.wanted_stars = 0,
                              !.wanted_hunted = FALSE, !.loot = <<>>]
<1>1. Total(row.loot) \in Nat /\ <<>> \in Loot /\ Total(<<>>) = 0
  BY RowTotals, NothingIsNothing DEF Sound
<1>2. /\ DOMAIN new = Columns /\ new.balance = row.balance /\ new.bail_debt = row.bail_debt
      /\ new.in_prison = row.in_prison /\ new.wanted_stars = 0 /\ new.wanted_hunted = FALSE
      /\ new.loot = <<>> /\ new.cert = row.cert /\ new.role = role
  BY DEF Sound, Row, Columns
<1> HIDE DEF new
<1>3. Row(new)
  <2>1. {row.in_prison, FALSE, row.cert} \subseteq BOOLEAN
    BY DEF Sound, Row
  <2>2. 0 \in 0 .. MaxStars /\ row.balance \in Nat /\ row.bail_debt \in Nat
    BY DEF Sound, Row
  <2> QED BY <1>1, <1>2, <2>1, <2>2 DEF Row, Loot
<1>4. h + Unhunted(new) <= r
  BY <1>2 DEF Sound, Unhunted
<1>5. b + Total(new.loot) <= s
  BY <1>1, <1>2 DEF Sound
<1>6. new.cert => new.role = "civilian"
  BY <1>2 DEF Sound
<1>7. Sound(new, n, q, r, h, s, b)
  BY <1>2, <1>3, <1>4, <1>5, <1>6 DEF Sound
<1> QED BY <1>7 DEF new

\* A role is chosen.
LEMMA ChooseKeeps ==
    ASSUME NEW row, NEW n, NEW q \in Nat,
           NEW r \in Nat, NEW h \in Nat, NEW s \in Nat, NEW b \in Nat,
           Sound(row, n, q, r, h, s, b), NEW role, NEW now, MayChoose(row, role, now)
    PROVE  Sound(ChosenRow(row, role, now), n, q, r, h, s, b)
<1>1. role = row.role \/ ~row.cert
  BY DEF MayChoose
<1>2. CASE role = "criminal"
  <2> DEFINE new == [row EXCEPT !.role = role, !.last_role_change = now]
  <2>1. ChosenRow(row, role, now) = new
    BY <1>2 DEF ChosenRow
  <2>2. ~row.cert
    BY <1>1, <1>2 DEF Sound
  <2>3. /\ DOMAIN new = Columns /\ new.balance = row.balance /\ new.bail_debt = row.bail_debt
        /\ new.in_prison = row.in_prison /\ new.wanted_stars = row.wanted_stars
        /\ new.wanted_hunted = row.wanted_hunted
        /\ new.loot = row.loot /\ new.cert = row.cert /\ new.role = role
    BY DEF Sound, Row, Columns
  <2> HIDE DEF new
  <2>4. Row(new)
    BY <2>3 DEF Sound, Row
  <2> QED BY <1>2, <2>1, <2>2, <2>3, <2>4 DEF Sound, Unhunted
<1>3. CASE role # "criminal"
  <2>1. ChosenRow(row, role, now) =
          [row EXCEPT !.role = role, !.last_role_change = now, !.wanted_stars = 0,
                      !.wanted_hunted = FALSE, !.loot = <<>>]
    BY <1>3 DEF ChosenRow
  <2>2. Sound([row EXCEPT !.role = role, !.last_role_change = now, !.wanted_stars = 0,
                          !.wanted_hunted = FALSE, !.loot = <<>>], n, q, r, h, s, b)
    BY <1>1, WipeKeeps
  <2> QED BY <2>1, <2>2
<1> QED BY <1>2, <1>3

\* Whoever chooses another role than the robber's has no star then.
LEMMA ChooseUnstars ==
    ASSUME NEW row, Row(row), NEW role, NEW now
    PROVE  LET new == ChosenRow(row, role, now)
           IN  new.wanted_stars > 0 => new.role = "criminal"
<1> DEFINE new == ChosenRow(row, role, now)
<1>1. CASE role = "criminal"
  <2>1. new = [row EXCEPT !.role = role, !.last_role_change = now]
    BY <1>1 DEF ChosenRow
  <2>2. new.role = "criminal"
    BY <1>1, <2>1 DEF Row, Columns
  <2> QED BY <2>2
<1>2. CASE role # "criminal"
  <2>1. new = [row EXCEPT !.role = role, !.last_role_change = now, !.wanted_stars = 0,
                          !.wanted_hunted = FALSE, !.loot = <<>>]
    BY <1>2 DEF ChosenRow
  <2>2. new.wanted_stars = 0
    BY <2>1 DEF Row, Columns
  <2> HIDE DEF new
  <2>3. ~(new.wanted_stars > 0)
    BY <2>2
  <2> QED BY <2>3 DEF new
<1> QED BY <1>1, <1>2

\* The stars are bought off.
LEMMA BuyOutKeeps ==
    ASSUME NEW row, NEW n, NEW q \in Nat,
           NEW r \in Nat, NEW h \in Nat, NEW s \in Nat, NEW b \in Nat,
           Sound(row, n, q, r, h, s, b), NEW now, MayBuyOut(row, now)
    PROVE  /\ Sound(BoughtOutRow(row, now), n, q, r, h, s, b)
           /\ Tame(row, BoughtOutRow(row, now))
<1> DEFINE new == BoughtOutRow(row, now)
<1>1. Total(row.loot) \in Nat /\ <<>> \in Loot /\ Total(<<>>) = 0
  BY RowTotals, NothingIsNothing DEF Sound
<1>2. /\ DOMAIN new = Columns /\ new.balance = row.balance - 1 /\ new.bail_debt = row.bail_debt
      /\ new.in_prison = row.in_prison /\ new.wanted_stars = 0 /\ new.wanted_hunted = FALSE
      /\ new.loot = <<>> /\ new.cert = row.cert /\ new.role = row.role
  BY DEF Sound, Row, Columns, BoughtOutRow
<1> HIDE DEF new
<1>3. Row(new)
  <2>1. {row.in_prison, FALSE, row.cert} \subseteq BOOLEAN
    BY DEF Sound, Row
  <2>2. 0 \in 0 .. MaxStars /\ row.balance - 1 \in Nat /\ row.bail_debt \in Nat
    BY DEF Sound, Row, MayBuyOut
  <2> QED BY <1>1, <1>2, <2>1, <2>2 DEF Row, Loot
<1>4. h + Unhunted(new) <= r
  BY <1>2 DEF Sound, Unhunted
<1>5. b + Total(new.loot) <= s
  BY <1>1, <1>2 DEF Sound
<1>6. new.cert => new.role = "civilian"
  BY <1>2 DEF Sound
<1>7. Sound(new, n, q, r, h, s, b)
  BY <1>2, <1>3, <1>4, <1>5, <1>6 DEF Sound
<1> QED BY <1>2, <1>7 DEF new, Tame

\* The bail is paid.
LEMMA BailKeeps ==
    ASSUME NEW row, NEW n \in Nat, NEW q \in Nat, NEW r, NEW h, NEW s, NEW b,
           Sound(row, n, q, r, h, s, b), MayBail(row)
    PROVE  LET new == [row EXCEPT !.balance = @ - Bail(row), !.bail_debt = 0, !.in_prison = FALSE]
           IN  Sound(new, Greater(0, n - 1), q, r, h, s, b) /\ Tame(row, new)
<1>1. n = 1 + q /\ Greater(0, n - 1) = q
  BY DEF Sound, MayBail, Greater
<1>2. row.balance - Bail(row) \in Nat
  BY DEF Sound, Row, MayBail, Bail
<1> QED BY <1>1, <1>2 DEF Sound, Row, Columns, Unhunted, Tame

\* A certificate of good conduct is bought or given up.
LEMMA ToggleKeeps ==
    ASSUME NEW row, NEW n, NEW q \in Nat, NEW r, NEW h, NEW s, NEW b,
           Sound(row, n, q, r, h, s, b), NEW now, MayToggle(row, now)
    PROVE  /\ Sound(ToggledRow(row, now), n, q, r, h, s, b)
           /\ Tame(row, ToggledRow(row, now))
<1> DEFINE new == [row EXCEPT !.balance = row.balance - 1, !.cert = ~row.cert, !.cert_action = now]
<1>1. row.balance - 1 \in Nat /\ row.role = "civilian"
  BY DEF MayToggle, Sound, Row
<1>2. ToggledRow(row, now) = new
  BY DEF ToggledRow
<1>3. /\ DOMAIN new = Columns /\ new.balance = row.balance - 1 /\ new.bail_debt = row.bail_debt
      /\ new.in_prison = row.in_prison /\ new.wanted_stars = row.wanted_stars
      /\ new.wanted_hunted = row.wanted_hunted
      /\ new.loot = row.loot /\ new.cert = ~row.cert /\ new.role = row.role
  BY DEF Sound, Row, Columns
<1> HIDE DEF new
<1>4. Row(new)
  BY <1>1, <1>3 DEF Sound, Row
<1> QED BY <1>1, <1>2, <1>3, <1>4 DEF Sound, Unhunted, Tame

\* A certificate is broken.
LEMMA BreakKeeps ==
    ASSUME NEW row, NEW n, NEW q \in Nat, NEW r, NEW h, NEW s, NEW b,
           Sound(row, n, q, r, h, s, b), NEW now
    PROVE  Sound(BrokenRow(row, now), n, q, r, h, s, b) /\ Tame(row, BrokenRow(row, now))
BY DEF Sound, Row, Columns, Unhunted, BrokenRow, Tame

\* An administrator frees the player; who was in prison is one more who was
\* freed, and the record stays open.
LEMMA FreeKeeps ==
    ASSUME NEW row, NEW n, NEW q \in Nat,
           NEW r \in Nat, NEW h \in Nat, NEW s, NEW b,
           Sound(row, n, q, r, h, s, b), NEW debt \in BOOLEAN, NEW wanted \in BOOLEAN
    PROVE  LET new == FreedRow(row, debt, wanted)
           IN  /\ Sound(new, n, IF row.in_prison THEN q + 1 ELSE q, r, h, s, b)
               /\ Tame(row, new)
<1> DEFINE owed == IF debt THEN 0 ELSE row.bail_debt
           stars == IF wanted THEN 0 ELSE row.wanted_stars
           hunted == IF wanted THEN FALSE ELSE row.wanted_hunted
           new == FreedRow(row, debt, wanted)
<1>1. /\ owed \in Nat
      /\ owed > 0 => row.bail_debt > 0
      /\ stars \in {0, row.wanted_stars} /\ stars \in 0 .. MaxStars
      /\ hunted \in BOOLEAN
      /\ stars > 0 => hunted = row.wanted_hunted
  <2>1. /\ row.bail_debt \in Nat /\ row.wanted_stars \in 0 .. MaxStars
        /\ row.wanted_hunted \in BOOLEAN /\ 0 \in 0 .. MaxStars
    BY DEF Sound, Row
  <2>2. CASE wanted
    BY <2>1, <2>2
  <2>3. CASE ~wanted
    BY <2>1, <2>3
  <2> QED BY <2>2, <2>3
<1>2. new = [row EXCEPT !.in_prison = FALSE, !.bail_debt = owed, !.wanted_stars = stars,
                        !.wanted_hunted = hunted]
  BY DEF FreedRow
<1> HIDE DEF owed, stars, hunted, new
<1>3. /\ DOMAIN new = Columns /\ new.balance = row.balance /\ new.bail_debt = owed
      /\ new.in_prison = FALSE /\ new.wanted_stars = stars /\ new.wanted_hunted = hunted
      /\ new.loot = row.loot /\ new.cert = row.cert /\ new.role = row.role
  BY <1>2 DEF Sound, Row, Columns
<1>4. Row(new)
  BY <1>1, <1>3 DEF Sound, Row
<1>5. h + Unhunted(new) <= r
  BY <1>1, <1>3 DEF Sound, Unhunted
<1>6. /\ n = IF row.in_prison THEN q + 1 ELSE q
      /\ row.bail_debt > 0 => row.in_prison \/ q > 0
  BY DEF Sound
<1> DEFINE k == IF row.in_prison THEN q + 1 ELSE q
<1>7. n = (IF new.in_prison THEN 1 ELSE 0) + k
  BY <1>3, <1>6
<1>8. new.bail_debt > 0 => k > 0
  BY <1>1, <1>3, <1>6
<1> HIDE DEF k
<1>9. Sound(new, n, k, r, h, s, b)
  BY <1>3, <1>4, <1>5, <1>7, <1>8 DEF Sound
<1> QED BY <1>1, <1>3, <1>9 DEF new, k, Tame

(***************************************************************************)
(* The steps.                                                              *)
(***************************************************************************)
LEMMA InitEstablishes == Init => WInv
<1> SUFFICES ASSUME Init PROVE WInv
  OBVIOUS
<1>1. Tables
  BY DEF Init, Tables, LockInit, LockType, Free
<1>2. CallsAreSound /\ LocksGuard
  <2>1. \A c \in Calls : call[c].at = "idle"
    BY DEF Init, Idle
  <2>2. \A u \in Users : users[u].wanted_stars = 0
    BY DEF Init
  <2>3. ASSUME NEW u \in Users PROVE ~(users[u].wanted_stars > 0)
    <3>1. ~(0 > 0)
      OBVIOUS
    <3> QED BY <2>2, <3>1
  <2>4. Working = {}
    BY <2>1 DEF Working
  <2> QED BY <2>1, <2>3, <2>4 DEF CallsAreSound, LocksGuard
<1>3. ASSUME NEW u \in Users
      PROVE  Sound(users[u], open[u], pardoned[u], robs[u], hunts[u], stolen[u], bounty[u])
  <2>1. /\ DOMAIN users[u] = Columns
        /\ users[u].balance = Initial[u] /\ users[u].bail_debt = 0
        /\ users[u].wanted_stars = 0 /\ users[u].loot = <<>>
        /\ users[u].wanted_hunted = FALSE /\ users[u].in_prison = FALSE /\ users[u].cert = FALSE
    BY DEF Init, Columns
  <2>2. /\ open[u] = 0 /\ pardoned[u] = 0 /\ robs[u] = 0 /\ hunts[u] = 0
        /\ stolen[u] = 0 /\ bounty[u] = 0
    BY DEF Init
  <2>3. Initial[u] \in Nat /\ 0 \in 0 .. MaxStars
    OBVIOUS
  <2>4. <<>> \in Loot /\ Total(<<>>) = 0
    BY NothingIsNothing
  <2>5. Row(users[u])
    <3>1. {users[u].wanted_hunted, users[u].in_prison, users[u].cert} \subseteq BOOLEAN
      BY <2>1
    <3>2. /\ users[u].balance \in Nat /\ users[u].bail_debt \in Nat
          /\ users[u].wanted_stars \in 0 .. MaxStars /\ users[u].loot \in Seq(1 .. MaxSteal)
      BY <2>1, <2>3, <2>4 DEF Loot
    <3> QED BY <2>1, <3>1, <3>2 DEF Row
  <2> QED BY <2>1, <2>2, <2>4, <2>5 DEF Sound, Unhunted
<1>4. RowsAreSound
  BY <1>3 DEF RowsAreSound
<1> QED BY <1>1, <1>2, <1>4 DEF WInv

\* Two commands of one player are not at their database work together, unless
\* the lock was handed on.
LEMMA OneAtWork ==
    ASSUME LocksGuard, NEW c \in Working, NEW d \in Working, c # d,
           call[c].user \notin overrun
    PROVE  call[c].user # call[d].user
BY DEF LocksGuard

\* A command that ends its work disturbs no other.
LEMMA AnswerKeepsCalls ==
    ASSUME WInv, NEW c \in Working, Answers(c)
    PROVE  CallsAreSound' /\ Working' \subseteq Working \ {c}
<1>1. DOMAIN call = Calls /\ CallsAreSound /\ c \in Calls
  BY DEF WInv, Tables, Working
<1>2. \A d \in Calls : call'[d] = IF d = c THEN Replying(call[c].user) ELSE call[d]
  BY <1>1 DEF Answers
<1>3. Replying(call[c].user).at = "replying"
  BY DEF Replying
<1>4. Working' \subseteq Working \ {c}
  BY <1>2, <1>3 DEF Working
<1>5. CallsAreSound'
  BY <1>1, <1>2, <1>3, <1>4 DEF CallsAreSound
<1> QED BY <1>4, <1>5

\* The roles and stars a command may leave: it gives nobody a role but its own
\* player, and a star only to a robber, or to whom the locks do not guard.
RolesGuarded(c) ==
    /\ \A u \in Users \ {call[c].user} : users'[u].role = users[u].role
    /\ \A u \in Users \ overrun : users'[u].wanted_stars > 0 => users'[u].role = "criminal"

\* The locks guard what they guarded.
LEMMA AnswerKeepsGuard ==
    ASSUME WInv, NEW c \in Working, Answers(c), RolesGuarded(c)
    PROVE  LocksGuard'
<1>1. DOMAIN call = Calls /\ CallsAreSound /\ LocksGuard /\ c \in Calls
  BY DEF WInv, Tables, Working
<1>2. /\ \A d \in Calls : call'[d] = IF d = c THEN Replying(call[c].user) ELSE call[d]
      /\ lock' = lock /\ overrun' = overrun
  BY <1>1 DEF Answers, lockVars
<1>3. Working' \subseteq Working \ {c}
  BY AnswerKeepsCalls
<1>4. ASSUME NEW d \in Working'
      PROVE  call'[d].user \in overrun \/ lock[call'[d].user].holder = d
  <2>1. d \in Working /\ d # c /\ call'[d] = call[d]
    BY <1>2, <1>3, <1>4 DEF Working
  <2> QED BY <1>1, <2>1 DEF LocksGuard
<1>5. ASSUME NEW d \in Calls, call'[d].at = "aiming", call'[d].user \notin overrun
      PROVE  users'[call'[d].user].role = "criminal"
  <2>1. d \in Working'
    BY <1>5 DEF Working
  <2>2. d \in Working /\ d # c /\ call'[d] = call[d]
    BY <1>2, <1>3, <2>1
  <2>3. call[d].user \in Users \ {call[c].user} /\ users[call[d].user].role = "criminal"
    BY <1>1, <1>5, <2>2, OneAtWork DEF CallsAreSound, LocksGuard
  <2> QED BY <2>2, <2>3 DEF RolesGuarded
<1> QED BY <1>2, <1>4, <1>5 DEF LocksGuard, RolesGuarded

\* What a player is and has: the row is sound, and only a robber is wanted.
LEMMA Numbers ==
    ASSUME WInv, NEW u \in Users
    PROVE  /\ open[u] \in Nat /\ pardoned[u] \in Nat /\ robs[u] \in Nat /\ hunts[u] \in Nat
           /\ stolen[u] \in Nat /\ bounty[u] \in Nat
           /\ Sound(users[u], open[u], pardoned[u], robs[u], hunts[u], stolen[u], bounty[u])
           /\ users[u].balance \in Nat
           /\ u \notin overrun /\ users[u].wanted_stars > 0 => users[u].role = "criminal"
<1>1. /\ open[u] \in Nat /\ pardoned[u] \in Nat /\ robs[u] \in Nat /\ hunts[u] \in Nat
      /\ stolen[u] \in Nat /\ bounty[u] \in Nat
  BY DEF WInv, Tables
<1>2. /\ Sound(users[u], open[u], pardoned[u], robs[u], hunts[u], stolen[u], bounty[u])
      /\ users[u].balance \in Nat
  BY DEF WInv, RowsAreSound, Sound, Row
<1>3. u \notin overrun /\ users[u].wanted_stars > 0 => users[u].role = "criminal"
  BY DEF WInv, LocksGuard
<1> QED BY <1>1, <1>2, <1>3

\* A command that is refused changes no row.
LEMMA RefusedKeeps ==
    ASSUME WInv, NEW c \in Working, Refused(c)
    PROVE  WInv'
<1>1. UNCHANGED <<users, open, pardoned, robs, hunts, stolen, bounty>> /\ Answers(c)
  BY DEF Refused, books
<1>2. Tables'
  BY <1>1 DEF WInv, Tables, Answers, lockVars
<1>3. RowsAreSound'
  BY <1>1 DEF WInv, RowsAreSound
<1>4. RolesGuarded(c)
  BY <1>1, Numbers DEF RolesGuarded
<1> QED BY <1>1, <1>2, <1>3, <1>4, AnswerKeepsCalls, AnswerKeepsGuard DEF WInv

\* A command that only changes the row of its player.
LEMMA BecomesKeeps ==
    ASSUME WInv, NEW c \in Working, NEW row, Becomes(c, row),
           LET u == call[c].user
           IN  /\ Sound(row, open[u], pardoned[u], robs[u], hunts[u], stolen[u], bounty[u])
               /\ u \notin overrun /\ row.wanted_stars > 0 => row.role = "criminal"
    PROVE  WInv'
<1> DEFINE u == call[c].user
<1>1. u \in Users /\ DOMAIN users = Users
  BY DEF WInv, CallsAreSound, Tables, Working
<1>2. /\ users' = [users EXCEPT ![u] = row] /\ Answers(c)
      /\ UNCHANGED <<open, pardoned, robs, hunts, stolen, bounty>>
  BY DEF Becomes, books
<1>3. Tables'
  BY <1>1, <1>2 DEF WInv, Tables, Answers, lockVars
<1>4. \A v \in Users : users'[v] = IF v = u THEN row ELSE users[v]
  BY <1>1, <1>2
<1>5. RowsAreSound'
  BY <1>2, <1>4 DEF WInv, RowsAreSound
<1>6. RolesGuarded(c)
  BY <1>4, Numbers DEF RolesGuarded
<1> QED BY <1>2, <1>3, <1>5, <1>6, AnswerKeepsCalls, AnswerKeepsGuard DEF WInv

\* What the database work of a command leaves behind, /role_choose apart.
RowsKept ==
    /\ DOMAIN users' = Users
    /\ {open, pardoned, robs, hunts, stolen, bounty}' \subseteq [Users -> Nat]
    /\ RowsAreSound'
    /\ \A u \in Users : users'[u].role = users[u].role
    /\ \A u \in Users \ overrun : users'[u].wanted_stars > 0 => users'[u].role = "criminal"

\* A command that leaves sound rows and changes no role.
LEMMA WorkKeeps ==
    ASSUME WInv, NEW c \in Working, Answers(c), RowsKept
    PROVE  WInv'
<1>1. Tables'
  BY DEF WInv, Tables, Answers, RowsKept, lockVars
<1>2. RolesGuarded(c)
  BY DEF RolesGuarded, RowsKept
<1> QED BY <1>1, <1>2, AnswerKeepsCalls, AnswerKeepsGuard DEF WInv, RowsKept

\* A row that may follow the one of u.
Fits(u, row) ==
    /\ row.role = users[u].role
    /\ u \notin overrun /\ row.wanted_stars > 0 => row.role = "criminal"

LEMMA TameFits ==
    ASSUME WInv, NEW u \in Users, NEW old, Fits(u, old) \/ old = users[u],
           NEW new, Tame(old, new)
    PROVE  Fits(u, new)
BY Numbers DEF Fits, Tame

\* The rows of two players changed, and their numbers with them.
LEMMA TwoRows ==
    ASSUME WInv, NEW u \in Users, NEW t \in Users, u # t,
           NEW mine, NEW theirs,
           users' = [users EXCEPT ![t] = theirs, ![u] = mine],
           Fits(u, mine), Fits(t, theirs),
           {open, pardoned, robs, hunts, stolen, bounty}' \subseteq [Users -> Nat],
           Sound(mine, open'[u], pardoned'[u], robs'[u], hunts'[u], stolen'[u], bounty'[u]),
           Sound(theirs, open'[t], pardoned'[t], robs'[t], hunts'[t], stolen'[t], bounty'[t]),
           \A v \in Users \ {u, t} :
               /\ open'[v] = open[v] /\ pardoned'[v] = pardoned[v]
               /\ robs'[v] = robs[v] /\ hunts'[v] = hunts[v]
               /\ stolen'[v] = stolen[v] /\ bounty'[v] = bounty[v]
    PROVE  RowsKept
<1>1. DOMAIN users = Users
  BY DEF WInv, Tables
<1>2. /\ DOMAIN users' = Users /\ users'[u] = mine /\ users'[t] = theirs
      /\ \A v \in Users \ {u, t} : users'[v] = users[v]
  BY <1>1
<1>3. RowsAreSound'
  <2> SUFFICES ASSUME NEW v \in Users
               PROVE  Sound(users[v], open[v], pardoned[v], robs[v], hunts[v], stolen[v],
                            bounty[v])'
    BY DEF RowsAreSound
  <2>1. CASE v \notin {u, t}
    BY <1>2, <2>1, Numbers
  <2>2. CASE v \in {u, t}
    BY <1>2, <2>2
  <2> QED BY <2>1, <2>2
<1>4. \A v \in Users : Fits(v, users'[v])
  BY <1>2, Numbers DEF Fits
<1> QED BY <1>2, <1>3, <1>4 DEF RowsKept, Fits

\* The row of one player changed, and the numbers with it.
LEMMA OneRow ==
    ASSUME WInv, NEW u \in Users, NEW row,
           users' = [users EXCEPT ![u] = row], Fits(u, row),
           {open, pardoned, robs, hunts, stolen, bounty}' \subseteq [Users -> Nat],
           Sound(row, open'[u], pardoned'[u], robs'[u], hunts'[u], stolen'[u], bounty'[u]),
           \A v \in Users \ {u} :
               /\ open'[v] = open[v] /\ pardoned'[v] = pardoned[v]
               /\ robs'[v] = robs[v] /\ hunts'[v] = hunts[v]
               /\ stolen'[v] = stolen[v] /\ bounty'[v] = bounty[v]
    PROVE  RowsKept
<1>1. DOMAIN users = Users
  BY DEF WInv, Tables
<1>2. /\ DOMAIN users' = Users /\ users'[u] = row
      /\ \A v \in Users \ {u} : users'[v] = users[v]
  BY <1>1
<1>3. RowsAreSound'
  <2> SUFFICES ASSUME NEW v \in Users
               PROVE  Sound(users[v], open[v], pardoned[v], robs[v], hunts[v], stolen[v],
                            bounty[v])'
    BY DEF RowsAreSound
  <2>1. CASE v # u
    BY <1>2, <2>1, Numbers
  <2>2. CASE v = u
    BY <1>2, <2>2
  <2> QED BY <2>1, <2>2
<1>4. \A v \in Users : Fits(v, users'[v])
  BY <1>2, Numbers DEF Fits
<1> QED BY <1>2, <1>3, <1>4 DEF RowsKept, Fits

\* A robbery changes the rows of two.
LEMMA StealKeeps ==
    ASSUME WInv, NEW u \in Users, NEW t \in Users, u # t,
           u \notin overrun => users[u].role = "criminal",
           NEW s \in 1 .. MaxSteal, s <= users[t].balance, NEW now, Steal(u, t, s, now),
           UNCHANGED pardoned
    PROVE  RowsKept
<1> DEFINE paid == [users[t] EXCEPT !.balance = users[t].balance - s]
           victim == [paid EXCEPT !.last_robbed = now]
           avenged == [victim EXCEPT !.balance = victim.balance + 2 * s]
           robber == LootedRow(users[u], s, now)
           struck == StruckRow(robber, s)
           jailed == [struck EXCEPT !.in_prison = @ \/ Jails(struck)]
<1>1. s \in Nat /\ users[t].balance - s \in Nat
  BY Numbers
<1>2. Sound(paid, open[t], pardoned[t], robs[t], hunts[t], stolen[t], bounty[t])
      /\ Fits(t, paid) /\ paid.balance = users[t].balance - s
  <2>1. /\ Sound(paid, open[t], pardoned[t], robs[t], hunts[t], stolen[t], bounty[t])
        /\ Tame(users[t], paid) /\ paid.balance = users[t].balance - s
    BY <1>1, Numbers, PayKeeps
  <2> HIDE DEF paid
  <2> QED BY <2>1, TameFits
<1>3. Sound(victim, open[t], pardoned[t], robs[t], hunts[t], stolen[t], bounty[t])
      /\ Fits(t, victim) /\ victim.balance = paid.balance
  <2> HIDE DEF paid
  <2> QED BY <1>2, Numbers, NoteRobbedKeeps, TameFits
<1>4. victim = [users[t] EXCEPT !.balance = @ - s, !.last_robbed = now]
  BY Numbers DEF Sound, Row, Columns
<1>5. Sound(avenged, open[t], pardoned[t], robs[t], hunts[t], stolen[t], bounty[t])
      /\ Fits(t, avenged)
  <2>1. victim.balance + 2 * s \in Nat
    BY <1>1, <1>2, <1>3
  <2> HIDE DEF victim
  <2> QED BY <1>3, <2>1, Numbers, PayKeeps, TameFits
<1>6. Sound(robber, open[u], pardoned[u], robs[u] + 1, hunts[u], stolen[u] + s, bounty[u])
      /\ Fits(u, robber)
  <2>1. /\ Sound(robber, open[u], pardoned[u], robs[u] + 1, hunts[u], stolen[u] + s, bounty[u])
        /\ robber.role = users[u].role
    <3>1. /\ robs[u] \in Nat /\ hunts[u] \in Nat /\ stolen[u] \in Nat /\ bounty[u] \in Nat
          /\ pardoned[u] \in Nat
          /\ Sound(users[u], open[u], pardoned[u], robs[u], hunts[u], stolen[u], bounty[u])
      BY Numbers
    <3> QED BY <3>1, LootKeeps, ZenonT(60)
  <2> HIDE DEF robber
  <2> QED BY <2>1 DEF Fits
<1>7. Sound(jailed, IF Jails(struck) THEN open[u] + 1 ELSE open[u],
            pardoned[u], robs[u] + 1, hunts[u], stolen[u] + s, bounty[u])
      /\ Fits(u, jailed)
  <2> HIDE DEF robber
  <2> QED BY <1>6, Numbers, StrikeKeeps, TameFits
<1>8. /\ robs' = [robs EXCEPT ![u] = @ + 1] /\ stolen' = [stolen EXCEPT ![u] = @ + s]
      /\ UNCHANGED <<hunts, bounty>>
  BY DEF Steal
<1>9. {open, pardoned, robs, hunts, stolen, bounty} \subseteq [Users -> Nat]
  BY DEF WInv, Tables
<1>10. /\ robs' \in [Users -> Nat] /\ stolen' \in [Users -> Nat]
       /\ robs'[u] = robs[u] + 1 /\ stolen'[u] = stolen[u] + s
       /\ \A v \in Users \ {u} : robs'[v] = robs[v] /\ stolen'[v] = stolen[v]
  BY <1>1, <1>8, <1>9
<1>11. \/ /\ users' = [users EXCEPT ![t] = victim, ![u] = robber]
          /\ open' = open
       \/ /\ users' = [users EXCEPT ![t] = avenged, ![u] = jailed]
          /\ open' = [open EXCEPT ![u] = IF Jails(struck) THEN @ + 1 ELSE @]
  BY <1>4 DEF Steal
<1> HIDE DEF paid, victim, avenged, robber, struck, jailed
<1>12. CASE users' = [users EXCEPT ![t] = victim, ![u] = robber] /\ open' = open
  <2>1. Sound(robber, open'[u], pardoned'[u], robs'[u], hunts'[u], stolen'[u], bounty'[u])
    BY <1>6, <1>8, <1>10, <1>12
  <2>2. Sound(victim, open'[t], pardoned'[t], robs'[t], hunts'[t], stolen'[t], bounty'[t])
    BY <1>3, <1>8, <1>10, <1>12
  <2>3. {open, pardoned, robs, hunts, stolen, bounty}' \subseteq [Users -> Nat]
    BY <1>8, <1>9, <1>10, <1>12
  <2>4. \A v \in Users \ {u, t} :
          /\ open'[v] = open[v] /\ robs'[v] = robs[v] /\ hunts'[v] = hunts[v]
          /\ pardoned'[v] = pardoned[v]
          /\ stolen'[v] = stolen[v] /\ bounty'[v] = bounty[v]
    BY <1>8, <1>9, <1>10, <1>12
  <2> QED BY <1>3, <1>6, <1>12, <2>1, <2>2, <2>3, <2>4, TwoRows
<1>13. CASE /\ users' = [users EXCEPT ![t] = avenged, ![u] = jailed]
            /\ open' = [open EXCEPT ![u] = IF Jails(struck) THEN @ + 1 ELSE @]
  <2>1. /\ open' \in [Users -> Nat]
        /\ open'[u] = (IF Jails(struck) THEN open[u] + 1 ELSE open[u])
        /\ \A v \in Users \ {u} : open'[v] = open[v]
    BY <1>9, <1>13
  <2>2. Sound(jailed, open'[u], pardoned'[u], robs'[u], hunts'[u], stolen'[u], bounty'[u])
    BY <1>7, <1>8, <1>10, <2>1
  <2>3. Sound(avenged, open'[t], pardoned'[t], robs'[t], hunts'[t], stolen'[t], bounty'[t])
    BY <1>5, <1>8, <1>10, <2>1
  <2>4. {open, pardoned, robs, hunts, stolen, bounty}' \subseteq [Users -> Nat]
    BY <1>8, <1>9, <1>10, <2>1
  <2>5. \A v \in Users \ {u, t} :
          /\ open'[v] = open[v] /\ robs'[v] = robs[v] /\ hunts'[v] = hunts[v]
          /\ pardoned'[v] = pardoned[v]
          /\ stolen'[v] = stolen[v] /\ bounty'[v] = bounty[v]
    BY <1>8, <1>9, <1>10, <2>1
  <2> QED BY <1>5, <1>7, <1>13, <2>2, <2>3, <2>4, <2>5, TwoRows
<1> QED BY <1>11, <1>12, <1>13

\* /rob judges what it reads.
LEMMA ContextKeeps ==
    ASSUME WInv, NEW c \in Calls, LoadRobContext(c)
    PROVE  WInv'
<1> DEFINE u == call[c].user
           t == call[c].job.target
<1>0. call[c].at = "running" /\ call[c].job.cmd = "rob" /\ c \in Working
  BY DEF LoadRobContext, Runs, Working
<1>1. CASE ~MayRob(u, t) /\ Refused(c)
  BY <1>0, <1>1, RefusedKeeps
<1>2. CASE /\ MayRob(u, t)
           /\ call' = [call EXCEPT ![c] = Aiming(u, t)]
           /\ UNCHANGED <<clock, begun, users, open, lockVars, pardoned, books>>
  <2>1. Tables' /\ RowsAreSound'
    BY <1>2 DEF WInv, Tables, RowsAreSound, books, lockVars
  <2>2. u \in Users /\ call[c].job \in Command(u)
    BY <1>0 DEF WInv, CallsAreSound
  <2>3. t \in Users \ {u}
    BY <1>0, <2>2 DEF Command
  <2>4. users[u].role = "criminal"
    BY <1>2 DEF MayRob
  <2>5. DOMAIN call = Calls
    BY DEF WInv, Tables
  <2>6. \A d \in Calls : call'[d] = IF d = c THEN Aiming(u, t) ELSE call[d]
    BY <1>2, <2>5
  <2>7. users' = users /\ lock' = lock /\ overrun' = overrun
    BY <1>2 DEF lockVars
  <2>8. /\ Aiming(u, t).at = "aiming" /\ Aiming(u, t).user = u
        /\ Aiming(u, t).target = t
    BY DEF Aiming
  <2>9. Working' = Working
    <3> HIDE DEF u, t
    <3> QED BY <1>0, <2>6, <2>8 DEF Working
  <2>10. CallsAreSound'
    <3>1. u \in Users /\ t \in Users \ {u}
      BY <2>2, <2>3
    <3> HIDE DEF u, t
    <3> QED BY <2>6, <2>8, <2>9, <3>1 DEF WInv, CallsAreSound
  <2>11. LocksGuard'
    <3>1. \A d \in Calls : call'[d].user = call[d].user
      BY <2>6, <2>8
    <3>2. \A d \in Calls : call'[d].at = "aiming" => d = c \/ call[d].at = "aiming"
      BY <2>6
    <3>3. \A d \in Working : call[d].user \in overrun \/ lock[call[d].user].holder = d
      BY DEF WInv, LocksGuard
    <3>4. \A d \in Working' : call'[d].user \in overrun' \/ lock'[call'[d].user].holder = d
      BY <2>7, <2>9, <3>1, <3>3 DEF Working
    <3>5. ASSUME NEW d \in Calls, call'[d].at = "aiming", call'[d].user \notin overrun'
          PROVE  users'[call'[d].user].role = "criminal"
      BY <2>4, <2>7, <3>1, <3>2, <3>5 DEF WInv, LocksGuard
    <3> QED BY <2>7, <3>4, <3>5 DEF WInv, LocksGuard
  <2> QED BY <2>1, <2>10, <2>11 DEF WInv
<1> QED BY <1>1, <1>2 DEF LoadRobContext

\* The second transaction of /rob.
LEMMA RobKeeps ==
    ASSUME WInv, NEW c \in Calls, RobSucceeds(c) \/ RobFails(c)
    PROVE  WInv'
<1> DEFINE u == call[c].user
           t == call[c].target
           now == call[c].now
<1>1. call[c].at = "aiming" /\ c \in Working /\ Answers(c) /\ pardoned' = pardoned
  BY DEF RobSucceeds, RobFails, Working
<1>2. /\ u \in Users /\ t \in Users /\ u # t
      /\ u \notin overrun => users[u].role = "criminal"
  BY <1>1 DEF WInv, CallsAreSound, LocksGuard
<1>3. /\ DOMAIN users = Users
      /\ {open, pardoned, robs, hunts, stolen, bounty} \subseteq [Users -> Nat]
  BY DEF WInv, Tables
<1>4. CASE RobSucceeds(c)
  <2>1. PICK s \in 1 .. Greater(1, Lesser(users[t].balance, MaxSteal)) :
          \/ /\ users[t].balance < s
             /\ users' = [users EXCEPT ![u].last_rob = now]
             /\ UNCHANGED <<open, books>>
          \/ users[t].balance >= s /\ Steal(u, t, s, now)
    BY <1>4 DEF RobSucceeds
  <2>2. s \in 1 .. MaxSteal
    <3>1. users[t].balance \in Nat /\ MaxSteal \in Nat \ {0}
      BY <1>2, Numbers
    <3> QED BY <2>1, <3>1 DEF Greater, Lesser
  <2>3. CASE /\ users' = [users EXCEPT ![u].last_rob = now]
             /\ UNCHANGED <<open, books>>
    <3> DEFINE new == [users[u] EXCEPT !.last_rob = now]
    <3>1. /\ Sound(new, open[u], pardoned[u], robs[u], hunts[u], stolen[u], bounty[u])
          /\ Fits(u, new)
      BY <1>2, Numbers, NoteRobKeeps, TameFits
    <3>2. users' = [users EXCEPT ![u] = new]
      BY <2>3
    <3>3. UNCHANGED <<open, pardoned, robs, hunts, stolen, bounty>>
      BY <1>1, <2>3 DEF books
    <3> HIDE DEF new
    <3>4. /\ Sound(new, open'[u], pardoned'[u], robs'[u], hunts'[u], stolen'[u], bounty'[u])
          /\ {open, pardoned, robs, hunts, stolen, bounty}' \subseteq [Users -> Nat]
      BY <1>3, <3>1, <3>3
    <3> HIDE DEF u
    <3>5. RowsKept
      BY <1>2, <3>1, <3>2, <3>3, <3>4, OneRow
    <3> QED BY <1>1, <3>5, WorkKeeps
  <2>4. CASE users[t].balance >= s /\ Steal(u, t, s, now)
    <3>1. users[t].balance \in Nat /\ s <= users[t].balance
      BY <1>2, <2>2, <2>4, Numbers
    <3>2. RowsKept
      BY <1>1, <1>2, <2>2, <2>4, <3>1, StealKeeps
    <3> QED BY <1>1, <3>2, WorkKeeps
  <2> QED BY <2>1, <2>3, <2>4
<1>5. CASE RobFails(c)
  <2> DEFINE pays == Lesser(1, users[u].balance)
             noted == [users[u] EXCEPT !.last_rob = now]
             mine == [noted EXCEPT !.balance = users[u].balance - pays]
             theirs == [users[t] EXCEPT !.balance = users[t].balance + pays]
  <2>1. users[u].balance - pays \in Nat /\ users[t].balance + pays \in Nat
    BY <1>2, Numbers DEF Lesser
  <2>2. /\ Sound(noted, open[u], pardoned[u], robs[u], hunts[u], stolen[u], bounty[u])
        /\ Fits(u, noted)
    BY <1>2, Numbers, NoteRobKeeps, TameFits
  <2> HIDE DEF noted, pays
  <2>3. /\ Sound(mine, open[u], pardoned[u], robs[u], hunts[u], stolen[u], bounty[u])
        /\ Fits(u, mine)
    BY <1>2, <2>1, <2>2, Numbers, PayKeeps, TameFits
  <2>4. /\ Sound(theirs, open[t], pardoned[t], robs[t], hunts[t], stolen[t], bounty[t])
        /\ Fits(t, theirs)
    BY <1>2, <2>1, Numbers, PayKeeps, TameFits
  <2>5. mine = [users[u] EXCEPT !.last_rob = now, !.balance = @ - pays]
    BY <1>2, Numbers DEF Sound, Row, Columns, noted
  <2>6. /\ users' = [users EXCEPT ![u].last_rob = now, ![u].balance = @ - pays,
                                  ![t].balance = @ + pays]
        /\ UNCHANGED <<open, pardoned, robs, hunts, stolen, bounty>>
    BY <1>1, <1>5 DEF RobFails, Penalize, books, pays
  <2>7. users' = [users EXCEPT ![t] = theirs, ![u] = mine]
    BY <1>2, <1>3, <2>5, <2>6
  <2> HIDE DEF mine, theirs
  <2>8. /\ Sound(mine, open'[u], pardoned'[u], robs'[u], hunts'[u], stolen'[u], bounty'[u])
        /\ Sound(theirs, open'[t], pardoned'[t], robs'[t], hunts'[t], stolen'[t], bounty'[t])
    BY <2>3, <2>4, <2>6
  <2>9. {open, pardoned, robs, hunts, stolen, bounty}' \subseteq [Users -> Nat]
    BY <1>3, <2>6
  <2> HIDE DEF u, t
  <2>10. RowsKept
    BY <1>2, <2>3, <2>4, <2>6, <2>7, <2>8, <2>9, TwoRows
  <2> QED BY <1>1, <2>10, WorkKeeps
<1> QED BY <1>4, <1>5

\* The commands that change only the row of their player.
LEMMA OwnRowKeeps ==
    ASSUME WInv, NEW c \in Calls, ChooseRole(c) \/ WantedBuyout(c) \/ ToggleGoodCitizen(c)
    PROVE  WInv'
<1> DEFINE u == call[c].user
           now == call[c].now
<1>1. c \in Working /\ u \in Users
  BY DEF ChooseRole, WantedBuyout, ToggleGoodCitizen, Runs, WInv, CallsAreSound, Working
<1>2. CASE ChooseRole(c)
  <2> DEFINE role == call[c].job.role
             new == ChosenRow(users[u], role, now)
  <2>1. \/ Refused(c)
        \/ MayChoose(users[u], role, now) /\ Becomes(c, new)
    BY <1>2, Zenon DEF ChooseRole
  <2>2. MayChoose(users[u], role, now) =>
          Sound(new, open[u], pardoned[u], robs[u], hunts[u], stolen[u], bounty[u])
    BY <1>1, Numbers, ChooseKeeps
  <2>3. new.wanted_stars > 0 => new.role = "criminal"
    BY <1>1, Numbers, ChooseUnstars DEF Sound
  <2> HIDE DEF new
  <2> QED BY <1>1, <2>1, <2>2, <2>3, RefusedKeeps, BecomesKeeps
<1>3. CASE WantedBuyout(c)
  <2> DEFINE new == BoughtOutRow(users[u], now)
  <2>1. \/ Refused(c)
        \/ MayBuyOut(users[u], now) /\ Becomes(c, new)
    BY <1>3, Zenon DEF WantedBuyout
  <2>2. MayBuyOut(users[u], now) =>
          /\ Sound(new, open[u], pardoned[u], robs[u], hunts[u], stolen[u], bounty[u])
          /\ Tame(users[u], new)
    BY <1>1, Numbers, BuyOutKeeps
  <2> HIDE DEF new
  <2>3. Tame(users[u], new) => Fits(u, new)
    BY <1>1, TameFits
  <2> QED BY <1>1, <2>1, <2>2, <2>3, RefusedKeeps, BecomesKeeps DEF Fits
<1>4. CASE ToggleGoodCitizen(c)
  <2> DEFINE new == ToggledRow(users[u], now)
  <2>1. \/ Refused(c)
        \/ MayToggle(users[u], now) /\ Becomes(c, new)
    BY <1>4, Zenon DEF ToggleGoodCitizen
  <2>2. MayToggle(users[u], now) =>
          /\ Sound(new, open[u], pardoned[u], robs[u], hunts[u], stolen[u], bounty[u])
          /\ Tame(users[u], new)
    BY <1>1, Numbers, ToggleKeeps
  <2> HIDE DEF new
  <2>3. Tame(users[u], new) => Fits(u, new)
    BY <1>1, TameFits
  <2> QED BY <1>1, <2>1, <2>2, <2>3, RefusedKeeps, BecomesKeeps DEF Fits
<1> QED BY <1>2, <1>3, <1>4

\* The bail as a step of its command.
LEMMA BailStepKeeps ==
    ASSUME WInv, NEW c \in Calls, PayBail(c)
    PROVE  WInv'
<1> DEFINE u == call[c].user
           new == [users[u] EXCEPT !.balance = @ - Bail(users[u]), !.bail_debt = 0,
                                   !.in_prison = FALSE]
<1>1. c \in Working /\ u \in Users
  BY DEF PayBail, Runs, WInv, CallsAreSound, Working
<1>2. CASE Refused(c)
  BY <1>1, <1>2, RefusedKeeps
<1>3. CASE /\ MayBail(users[u])
           /\ users' = [users EXCEPT ![u] = new]
           /\ open' = [open EXCEPT ![u] = Greater(0, @ - 1)]
           /\ Answers(c)
           /\ UNCHANGED <<pardoned, books>>
  <2>1. {open, pardoned, robs, hunts, stolen, bounty} \subseteq [Users -> Nat]
    BY DEF WInv, Tables
  <2>2. /\ Sound(new, Greater(0, open[u] - 1), pardoned[u], robs[u], hunts[u], stolen[u],
                 bounty[u])
        /\ Tame(users[u], new)
    BY <1>1, <1>3, Numbers, BailKeeps
  <2> HIDE DEF new
  <2>3. Fits(u, new)
    BY <1>1, <2>2, TameFits
  <2>4. /\ open' \in [Users -> Nat] /\ open'[u] = Greater(0, open[u] - 1)
        /\ \A v \in Users \ {u} : open'[v] = open[v]
    <3>1. Greater(0, open[u] - 1) \in Nat
      BY <1>1, Numbers DEF Greater
    <3> QED BY <1>1, <1>3, <2>1, <3>1
  <2>5. UNCHANGED <<pardoned, robs, hunts, stolen, bounty>>
    BY <1>3 DEF books
  <2>6. /\ {open, pardoned, robs, hunts, stolen, bounty}' \subseteq [Users -> Nat]
        /\ Sound(new, open'[u], pardoned'[u], robs'[u], hunts'[u], stolen'[u], bounty'[u])
        /\ users' = [users EXCEPT ![u] = new]
    BY <1>3, <2>1, <2>2, <2>4, <2>5
  <2> HIDE DEF u
  <2>7. RowsKept
    BY <1>1, <2>3, <2>4, <2>5, <2>6, OneRow
  <2> QED BY <1>1, <1>3, <2>7, WorkKeeps
<1> QED BY <1>2, <1>3 DEF PayBail

\* The broken certificate as a step of its command.
LEMMA BreakStepKeeps ==
    ASSUME WInv, NEW c \in Calls, BreakCitizen(c)
    PROVE  WInv'
<1> DEFINE u == call[c].user
           t == call[c].job.target
           mine == [users[u] EXCEPT !.balance = users[u].balance - 1]
           theirs == BrokenRow(users[t], call[c].now)
<1>1. c \in Working /\ u \in Users /\ t \in Users /\ u # t
  BY DEF BreakCitizen, Runs, WInv, CallsAreSound, Command, Working
<1>2. CASE Refused(c)
  BY <1>1, <1>2, RefusedKeeps
<1>3. CASE /\ MayBreak(u, t)
           /\ users' = [users EXCEPT ![u].balance = @ - 1, ![t] = BrokenRow(@, call[c].now)]
           /\ Answers(c)
           /\ UNCHANGED <<open, pardoned, books>>
  <2>1. DOMAIN users = Users /\ {open, pardoned, robs, hunts, stolen, bounty} \subseteq [Users -> Nat]
    BY DEF WInv, Tables
  <2>2. users[u].balance - 1 \in Nat
    BY <1>1, <1>3, Numbers DEF MayBreak
  <2>3. /\ Sound(mine, open[u], pardoned[u], robs[u], hunts[u], stolen[u], bounty[u])
        /\ Fits(u, mine)
    <3>1. /\ Sound(mine, open[u], pardoned[u], robs[u], hunts[u], stolen[u], bounty[u])
          /\ Tame(users[u], mine)
      BY <1>1, <2>2, Numbers, PayKeeps
    <3> HIDE DEF mine
    <3> QED BY <1>1, <3>1, TameFits
  <2>4. /\ Sound(theirs, open[t], pardoned[t], robs[t], hunts[t], stolen[t], bounty[t])
        /\ Fits(t, theirs)
    BY <1>1, Numbers, BreakKeeps, TameFits
  <2>5. users' = [users EXCEPT ![t] = theirs, ![u] = mine]
    BY <1>1, <1>3, <2>1
  <2> HIDE DEF mine, theirs
  <2>6. UNCHANGED <<open, pardoned, robs, hunts, stolen, bounty>>
    BY <1>3 DEF books
  <2>7. /\ Sound(mine, open'[u], pardoned'[u], robs'[u], hunts'[u], stolen'[u], bounty'[u])
        /\ Sound(theirs, open'[t], pardoned'[t], robs'[t], hunts'[t], stolen'[t], bounty'[t])
    BY <2>3, <2>4, <2>6
  <2>8. /\ {open, pardoned, robs, hunts, stolen, bounty}' \subseteq [Users -> Nat]
        /\ \A v \in Users \ {u, t} :
              /\ open'[v] = open[v] /\ robs'[v] = robs[v] /\ hunts'[v] = hunts[v]
              /\ pardoned'[v] = pardoned[v]
              /\ stolen'[v] = stolen[v] /\ bounty'[v] = bounty[v]
    BY <2>1, <2>6
  <2> HIDE DEF u, t
  <2>9. RowsKept
    BY <1>1, <2>3, <2>4, <2>5, <2>7, <2>8, TwoRows
  <2> QED BY <1>1, <1>3, <2>9, WorkKeeps
<1> QED BY <1>2, <1>3 DEF BreakCitizen

\* The hunt as a step of its command.
LEMMA HuntStepKeeps ==
    ASSUME WInv, NEW c \in Calls, CopHunt(c)
    PROVE  WInv'
<1> DEFINE u == call[c].user
           t == call[c].job.target
           reward == Total(users[t].loot)
           paid == [users[u] EXCEPT !.balance = users[u].balance - 1]
           rich == [users[u] EXCEPT !.balance = users[u].balance - 1 + reward]
           away == [users[t] EXCEPT !.wanted_hunted = TRUE]
           caught == CaughtRow(users[t])
<1>1. c \in Working /\ u \in Users /\ t \in Users /\ u # t
  BY DEF CopHunt, Runs, WInv, CallsAreSound, Command, Working
<1>2. CASE Refused(c)
  BY <1>1, <1>2, RefusedKeeps
<1>3. CASE /\ MayHunt(u, t)
           /\ hunts' = [hunts EXCEPT ![t] = @ + 1]
           /\ \/ /\ users' = [users EXCEPT ![u].balance = @ - 1, ![t].wanted_hunted = TRUE]
                 /\ UNCHANGED <<open, bounty>>
              \/ /\ users' = [users EXCEPT ![u].balance = @ - 1 + reward, ![t] = CaughtRow(@)]
                 /\ open' = [open EXCEPT ![t] = @ + 1]
                 /\ bounty' = [bounty EXCEPT ![t] = @ + reward]
           /\ Answers(c)
           /\ UNCHANGED <<pardoned, robs, stolen>>
  <2>1. DOMAIN users = Users /\ {open, pardoned, robs, hunts, stolen, bounty} \subseteq [Users -> Nat]
    BY DEF WInv, Tables
  <2>2. reward \in Nat
    BY <1>1, Numbers, RowTotals DEF Sound
  <2>3. users[u].balance - 1 \in Nat /\ users[u].balance - 1 + reward \in Nat
    <3>1. users[u].balance \in Nat /\ users[u].balance >= 1
      BY <1>1, <1>3, Numbers DEF MayHunt
    <3> HIDE DEF reward, u
    <3> QED BY <2>2, <3>1
  <2>4. /\ users[t].wanted_stars > 0 /\ ~users[t].wanted_hunted /\ ~users[t].in_prison
    BY <1>3 DEF MayHunt
  <2>5. /\ Sound(paid, open[u], pardoned[u], robs[u], hunts[u], stolen[u], bounty[u])
        /\ Fits(u, paid)
    <3>1. /\ Sound(paid, open[u], pardoned[u], robs[u], hunts[u], stolen[u], bounty[u])
          /\ Tame(users[u], paid)
      BY <1>1, <2>3, Numbers, PayKeeps
    <3> HIDE DEF paid
    <3> QED BY <1>1, <3>1, TameFits
  <2>6. /\ Sound(rich, open[u], pardoned[u], robs[u], hunts[u], stolen[u], bounty[u])
        /\ Fits(u, rich)
    <3>1. /\ Sound(rich, open[u], pardoned[u], robs[u], hunts[u], stolen[u], bounty[u])
          /\ Tame(users[u], rich)
      BY <1>1, <2>3, Numbers, PayKeeps
    <3> HIDE DEF rich
    <3> QED BY <1>1, <3>1, TameFits
  <2>7. /\ Sound(away, open[t], pardoned[t], robs[t], hunts[t] + 1, stolen[t], bounty[t])
        /\ Fits(t, away)
    BY <1>1, <2>4, Numbers, HuntKeeps, TameFits
  <2>8. /\ Sound(caught, open[t] + 1, pardoned[t], robs[t], hunts[t] + 1, stolen[t],
                 bounty[t] + reward)
        /\ Fits(t, caught)
    BY <1>1, <2>4, Numbers, CatchKeeps, TameFits
  <2>9. /\ hunts' \in [Users -> Nat] /\ hunts'[t] = hunts[t] + 1
        /\ \A v \in Users \ {t} : hunts'[v] = hunts[v]
    <3>1. hunts' = [hunts EXCEPT ![t] = @ + 1] /\ hunts \in [Users -> Nat] /\ t \in Users
      BY <1>1, <1>3, <2>1
    <3> HIDE DEF t
    <3> QED BY <3>1
  <2>10. UNCHANGED <<pardoned, robs, stolen>>
    BY <1>3
  <2>11. CASE /\ users' = [users EXCEPT ![u].balance = @ - 1, ![t].wanted_hunted = TRUE]
              /\ UNCHANGED <<open, bounty>>
    <3>1. users' = [users EXCEPT ![t] = away, ![u] = paid]
      BY <1>1, <2>1, <2>11
    <3> HIDE DEF away, paid
    <3>2. /\ Sound(paid, open'[u], pardoned'[u], robs'[u], hunts'[u], stolen'[u], bounty'[u])
          /\ Sound(away, open'[t], pardoned'[t], robs'[t], hunts'[t], stolen'[t], bounty'[t])
      BY <1>1, <2>5, <2>7, <2>9, <2>10, <2>11
    <3>3. /\ {open, pardoned, robs, hunts, stolen, bounty}' \subseteq [Users -> Nat]
          /\ \A v \in Users \ {u, t} :
                /\ open'[v] = open[v] /\ robs'[v] = robs[v] /\ hunts'[v] = hunts[v]
                /\ pardoned'[v] = pardoned[v]
                /\ stolen'[v] = stolen[v] /\ bounty'[v] = bounty[v]
      BY <2>1, <2>9, <2>10, <2>11
    <3> HIDE DEF u, t
    <3>4. RowsKept
      BY <1>1, <2>5, <2>7, <3>1, <3>2, <3>3, TwoRows
    <3> QED BY <1>1, <1>3, <3>4, WorkKeeps
  <2>12. CASE /\ users' = [users EXCEPT ![u].balance = @ - 1 + reward, ![t] = CaughtRow(@)]
              /\ open' = [open EXCEPT ![t] = @ + 1]
              /\ bounty' = [bounty EXCEPT ![t] = @ + reward]
    <3>1. users' = [users EXCEPT ![t] = caught, ![u] = rich]
      BY <1>1, <2>1, <2>12
    <3> HIDE DEF caught, rich, reward
    <3>2. /\ open' \in [Users -> Nat] /\ open'[t] = open[t] + 1
          /\ \A v \in Users \ {t} : open'[v] = open[v]
      BY <1>1, <2>1, <2>12
    <3>3. /\ bounty' \in [Users -> Nat] /\ bounty'[t] = bounty[t] + reward
          /\ \A v \in Users \ {t} : bounty'[v] = bounty[v]
      BY <1>1, <2>1, <2>2, <2>12
    <3>4. /\ Sound(rich, open'[u], pardoned'[u], robs'[u], hunts'[u], stolen'[u], bounty'[u])
          /\ Sound(caught, open'[t], pardoned'[t], robs'[t], hunts'[t], stolen'[t], bounty'[t])
      BY <1>1, <2>6, <2>8, <2>9, <2>10, <3>2, <3>3
    <3>5. /\ {open, pardoned, robs, hunts, stolen, bounty}' \subseteq [Users -> Nat]
          /\ \A v \in Users \ {u, t} :
                /\ open'[v] = open[v] /\ robs'[v] = robs[v] /\ hunts'[v] = hunts[v]
                /\ pardoned'[v] = pardoned[v]
                /\ stolen'[v] = stolen[v] /\ bounty'[v] = bounty[v]
      BY <2>1, <2>9, <2>10, <3>2, <3>3
    <3> HIDE DEF u, t
    <3>6. RowsKept
      BY <1>1, <2>6, <2>8, <3>1, <3>4, <3>5, TwoRows
    <3> QED BY <1>1, <1>3, <3>6, WorkKeeps
  <2> QED BY <1>3, <2>11, <2>12
<1> QED BY <1>2, <1>3 DEF CopHunt

\* An administrator's command: the player is free, and the record stays.
LEMMA UnjailKeeps ==
    ASSUME WInv, NEW c \in Calls, Unjail(c)
    PROVE  WInv'
<1> DEFINE u == call[c].user
           t == call[c].job.target
           new == FreedRow(users[t], call[c].job.debt, call[c].job.wanted)
           more == IF users[t].in_prison THEN pardoned[t] + 1 ELSE pardoned[t]
<1>1. c \in Working /\ Answers(c) /\ UNCHANGED <<open, robs, hunts, stolen, bounty>>
  BY DEF Unjail, Working, books
<1>2. t \in Users /\ call[c].job.debt \in BOOLEAN /\ call[c].job.wanted \in BOOLEAN
  <2>1. call[c].job \in Command(u) /\ call[c].job.cmd = "admin_unjail"
    BY DEF Unjail, WInv, CallsAreSound
  <2> QED BY <2>1 DEF Command
<1>3. users' = [users EXCEPT ![t] = new]
  BY DEF Unjail
<1>4. pardoned' = [pardoned EXCEPT ![t] = more]
  BY DEF Unjail
<1>5. /\ Sound(new, open[t], more, robs[t], hunts[t], stolen[t], bounty[t])
      /\ Tame(users[t], new)
  BY <1>2, Numbers, FreeKeeps
<1>6. more \in Nat
  BY <1>2, Numbers
<1> HIDE DEF new, more
<1>7. Fits(t, new)
  BY <1>2, <1>5, TameFits
<1>8. /\ pardoned' \in [Users -> Nat] /\ pardoned'[t] = more
      /\ \A v \in Users \ {t} : pardoned'[v] = pardoned[v]
  BY <1>2, <1>4, <1>6 DEF WInv, Tables
<1>9. /\ {open, pardoned, robs, hunts, stolen, bounty}' \subseteq [Users -> Nat]
      /\ Sound(new, open'[t], pardoned'[t], robs'[t], hunts'[t], stolen'[t], bounty'[t])
  BY <1>1, <1>5, <1>8 DEF WInv, Tables
<1> HIDE DEF t
<1>10. RowsKept
  BY <1>1, <1>2, <1>3, <1>7, <1>8, <1>9, OneRow
<1> QED BY <1>1, <1>10, WorkKeeps

\* It read the row before, without a lock.
LEMMA PrisonerKeeps ==
    ASSUME WInv, NEW c \in Calls, ReadPrisoner(c)
    PROVE  WInv'
<1> DEFINE u == call[c].user
           job == call[c].job
<1>0. call[c].at = "running" /\ job.cmd = "admin_unjail" /\ c \in Working
  BY DEF ReadPrisoner, Runs, Working
<1>1. CASE Refused(c)
  BY <1>0, <1>1, RefusedKeeps
<1>2. CASE /\ call' = [call EXCEPT ![c] = Unjailing(u, job)]
           /\ UNCHANGED <<clock, begun, users, open, lockVars, pardoned, books>>
  <2>1. Tables' /\ RowsAreSound'
    BY <1>2 DEF WInv, Tables, RowsAreSound, books, lockVars
  <2>2. u \in Users /\ job \in Command(u)
    BY <1>0 DEF WInv, CallsAreSound
  <2>3. DOMAIN call = Calls
    BY DEF WInv, Tables
  <2>4. \A d \in Calls : call'[d] = IF d = c THEN Unjailing(u, job) ELSE call[d]
    BY <1>2, <2>3
  <2>5. users' = users /\ lock' = lock /\ overrun' = overrun
    BY <1>2 DEF lockVars
  <2>6. /\ Unjailing(u, job).at = "unjailing" /\ Unjailing(u, job).user = u
        /\ Unjailing(u, job).job = job
    BY DEF Unjailing
  <2>7. Working' = Working
    <3> HIDE DEF u, job
    <3> QED BY <1>0, <2>4, <2>6 DEF Working
  <2>8. CallsAreSound'
    <3>1. job.cmd = "admin_unjail"
      BY <1>0
    <3> HIDE DEF u, job
    <3> QED BY <2>2, <2>4, <2>6, <2>7, <3>1 DEF WInv, CallsAreSound
  <2>9. LocksGuard'
    <3>1. \A d \in Calls : call'[d].user = call[d].user
      BY <2>4, <2>6
    <3>2. \A d \in Calls : call'[d].at = "aiming" => call[d].at = "aiming"
      BY <2>4, <2>6
    <3> QED BY <2>5, <2>7, <3>1, <3>2 DEF WInv, LocksGuard, Working
  <2> QED BY <2>1, <2>8, <2>9 DEF WInv
<1> QED BY <1>1, <1>2 DEF ReadPrisoner

\* A command starts: it holds the lock, and who was still at work without
\* ending is on record.
LEMMA StartKeeps ==
    ASSUME WInv, NEW c \in Calls, NEW u \in Players, NEW job \in Command(u), Start(c, u, job)
    PROVE  WInv'
<1>1. DOMAIN call = Calls /\ lock \in LockType /\ overrun \subseteq Users
  BY DEF WInv, Tables
<1>2. /\ u \in Users /\ call[c] = Idle /\ call' = [call EXCEPT ![c] = Running(u, job)]
      /\ lock' = [lock EXCEPT ![u] = [holder |-> c, stale |-> FALSE]]
      /\ overrun' = IF lock[u].holder \in Working THEN overrun \union {u} ELSE overrun
      /\ UNCHANGED <<users, open, pardoned, robs, hunts, stolen, bounty>>
  BY DEF Start, Take, books
<1>3. lock' \in LockType /\ overrun' \subseteq Users /\ overrun \subseteq overrun'
  BY <1>1, <1>2 DEF LockType
<1>4. Tables' /\ RowsAreSound'
  BY <1>1, <1>2, <1>3 DEF WInv, Tables, RowsAreSound
<1>5. \A d \in Calls : call'[d] = IF d = c THEN Running(u, job) ELSE call[d]
  BY <1>1, <1>2
<1>6. /\ Running(u, job).at = "running" /\ Running(u, job).user = u
      /\ Running(u, job).job = job
  BY DEF Running
<1>7. c \notin Working /\ Working' = Working \union {c}
  BY <1>2, <1>5, <1>6 DEF Working, Idle
<1>8. CallsAreSound'
  BY <1>2, <1>5, <1>6, <1>7 DEF WInv, CallsAreSound
<1>9. \A v \in Users : lock'[v] = IF v = u THEN [holder |-> c, stale |-> FALSE] ELSE lock[v]
  BY <1>1, <1>2 DEF LockType
<1>10. ASSUME NEW d \in Working'
       PROVE  call'[d].user \in overrun' \/ lock'[call'[d].user].holder = d
  <2>1. CASE d = c
    <3>1. call'[d].user = u /\ lock'[u] = [holder |-> c, stale |-> FALSE]
      BY <1>2, <1>5, <1>6, <1>9, <2>1
    <3> QED BY <2>1, <3>1
  <2>2. CASE d # c
    <3>1. d \in Working /\ d \in Calls /\ call'[d] = call[d] /\ call[d].user \in Users
      BY <1>5, <1>7, <1>10, <2>2 DEF WInv, CallsAreSound, Working
    <3>2. call[d].user \in overrun \/ lock[call[d].user].holder = d
      BY <3>1 DEF WInv, LocksGuard
    <3>3. CASE call[d].user = u
      BY <1>2, <1>3, <3>1, <3>2, <3>3
    <3>4. CASE call[d].user # u
      BY <1>3, <1>9, <3>1, <3>2, <3>4
    <3> QED BY <3>3, <3>4
  <2> QED BY <2>1, <2>2
<1>11. ASSUME NEW d \in Calls, call'[d].at = "aiming", call'[d].user \notin overrun'
       PROVE  users'[call'[d].user].role = "criminal"
  <2>1. d # c /\ call'[d] = call[d]
    BY <1>5, <1>6, <1>11
  <2> QED BY <1>2, <1>3, <1>11, <2>1 DEF WInv, LocksGuard
<1>12. \A v \in Users \ overrun' : users'[v].wanted_stars > 0 => users'[v].role = "criminal"
  BY <1>2, <1>3 DEF WInv, LocksGuard
<1> QED BY <1>4, <1>8, <1>10, <1>11, <1>12 DEF WInv, LocksGuard

\* A command ends and gives back the lock, if it holds it.
LEMMA EndKeeps ==
    ASSUME WInv, NEW c \in Calls, EndCommand(c)
    PROVE  WInv'
<1> DEFINE u == call[c].user
<1>1. DOMAIN call = Calls /\ lock \in LockType
  BY DEF WInv, Tables
<1>2. /\ call[c].at = "replying" /\ call' = [call EXCEPT ![c] = Idle]
      /\ lock' = [lock EXCEPT ![u] = IF @.holder = c THEN Free ELSE @] /\ overrun' = overrun
      /\ UNCHANGED <<users, open, pardoned, robs, hunts, stolen, bounty>>
  BY DEF EndCommand, Release, books
<1>3. lock' \in LockType
  BY <1>1, <1>2 DEF LockType, Free
<1>4. Tables' /\ RowsAreSound'
  BY <1>1, <1>2, <1>3 DEF WInv, Tables, RowsAreSound
<1>5. \A d \in Calls : call'[d] = IF d = c THEN Idle ELSE call[d]
  BY <1>1, <1>2
<1>6. c \notin Working /\ Working' = Working /\ Idle.at = "idle"
  BY <1>2, <1>5 DEF Working, Idle
<1>7. CallsAreSound'
  BY <1>5, <1>6 DEF WInv, CallsAreSound
<1>8. ASSUME NEW d \in Working'
      PROVE  call'[d].user \in overrun \/ lock'[call'[d].user].holder = d
  <2>1. d \in Working /\ d # c /\ d \in Calls /\ call'[d] = call[d] /\ call[d].user \in Users
    BY <1>5, <1>6, <1>8 DEF WInv, CallsAreSound, Working
  <2>2. call[d].user \in overrun \/ lock[call[d].user].holder = d
    BY <2>1 DEF WInv, LocksGuard
  <2>3. ASSUME lock[call[d].user].holder = d
        PROVE  lock'[call[d].user] = lock[call[d].user]
    BY <1>1, <1>2, <2>1, <2>3 DEF LockType
  <2> QED BY <2>1, <2>2, <2>3
<1>9. ASSUME NEW d \in Calls, call'[d].at = "aiming"
      PROVE  call'[d] = call[d]
  BY <1>5, <1>6, <1>9
<1> QED BY <1>2, <1>4, <1>7, <1>8, <1>9 DEF WInv, LocksGuard

\* The steps of the lock and of the clock.
LEMMA LockStepKeeps ==
    ASSUME WInv,
           \/ \E c \in Calls : \/ \E u \in Players : \E job \in Command(u) : Start(c, u, job)
                               \/ EndCommand(c)
           \/ \E u \in Players : CommandHangs(u)
           \/ Tick
           \/ UNCHANGED vars
    PROVE  WInv'
<1>1. ASSUME NEW u \in Players, CommandHangs(u) PROVE WInv'
  <2>1. /\ lock' = [lock EXCEPT ![u].stale = TRUE] /\ u \in Users /\ lock \in LockType
        /\ UNCHANGED <<users, call, overrun, open, pardoned, robs, hunts, stolen, bounty>>
    BY <1>1 DEF CommandHangs, Outlive, books, WInv, Tables
  <2>2. lock' \in LockType /\ \A v \in Users : lock'[v].holder = lock[v].holder
    BY <2>1 DEF LockType
  <2>3. Tables' /\ RowsAreSound' /\ CallsAreSound' /\ Working' = Working
    BY <2>1, <2>2 DEF WInv, Tables, RowsAreSound, CallsAreSound, Working
  <2>4. \A c \in Working : call[c].user \in Users
    BY DEF WInv, CallsAreSound, Working
  <2>5. LocksGuard'
    BY <2>1, <2>2, <2>3, <2>4 DEF WInv, LocksGuard
  <2> QED BY <2>3, <2>5 DEF WInv
<1>2. CASE Tick \/ UNCHANGED vars
  <2>1. UNCHANGED <<users, call, lock, overrun, open, pardoned, robs, hunts, stolen, bounty>>
    BY <1>2 DEF Tick, vars, lockVars, books
  <2> QED BY <2>1 DEF WInv, Tables, RowsAreSound, CallsAreSound, LocksGuard, Working
<1> QED BY <1>1, <1>2, StartKeeps, EndKeeps

\* The induction step.
LEMMA NextKeeps == WInv /\ [Next]_vars => WInv'
<1> SUFFICES ASSUME WInv, [Next]_vars PROVE WInv'
  OBVIOUS
<1>1. ASSUME NEW c \in Calls, FailCommand(c) PROVE WInv'
  BY <1>1, RefusedKeeps DEF FailCommand
<1>2. \/ \E c \in Calls :
           \/ LoadRobContext(c) \/ RobSucceeds(c) \/ RobFails(c)
           \/ ChooseRole(c) \/ WantedBuyout(c) \/ ToggleGoodCitizen(c)
           \/ CopHunt(c) \/ PayBail(c) \/ BreakCitizen(c)
           \/ ReadPrisoner(c) \/ Unjail(c) \/ FailCommand(c)
      \/ \/ \E c \in Calls : \/ \E u \in Players : \E job \in Command(u) : Start(c, u, job)
                             \/ EndCommand(c)
         \/ \E u \in Players : CommandHangs(u)
         \/ Tick
         \/ UNCHANGED vars
  BY DEF Next
<1> QED BY <1>1, <1>2, ContextKeeps, RobKeeps, OwnRowKeeps, HuntStepKeeps, BailStepKeeps,
           BreakStepKeeps, PrisonerKeeps, UnjailKeeps, LockStepKeeps

(***************************************************************************)
(* The theorems.                                                           *)
(***************************************************************************)

\* Every row is sound, whatever commands run at once and however long they
\* hang: its prison and its certificate, its loot and its debt fit together and
\* fit what happened, and the locks guard whoever is at work, unless they were
\* handed on (app_lock.py:47).
THEOREM WantedInvariance == Spec => []WInv
<1> QED BY InitEstablishes, NextKeeps, PTL DEF Spec

\* Only civilians are certified, and only robbers are wanted, but for players
\* whose lock was handed on while a command was at work (rob_repo.py:131).
THEOREM RolesKept == Spec => []RolesKeptUnderLock
<1>1. ASSUME WInv, NEW u \in Users
      PROVE  /\ u \notin overrun /\ users[u].wanted_stars > 0 => users[u].role = "criminal"
             /\ users[u].cert => users[u].role = "civilian"
  BY <1>1, Numbers DEF Sound
<1>2. WInv => RolesKeptUnderLock
  BY <1>1 DEF RolesKeptUnderLock
<1> QED BY <1>2, WantedInvariance, PTL

\* The prison column, the open records, the debts of the bail and the pardons of
\* the administrators agree.
THEOREM PrisonIsBooked == Spec => []PrisonBooksAgree
<1>1. WInv => PrisonBooksAgree
  BY DEF WInv, RowsAreSound, Sound, PrisonBooksAgree
<1> QED BY <1>1, WantedInvariance, PTL

\* No robbery is hunted twice, and no robbed coin is paid to the police twice.
THEOREM LootPaysOnce == Spec => []LootIsPaidOnce
<1>1. WInv => LootIsPaidOnce
  <2> SUFFICES ASSUME WInv, NEW u \in Users
               PROVE  hunts[u] <= robs[u] /\ bounty[u] <= stolen[u]
    BY DEF LootIsPaidOnce
  <2>1. /\ hunts[u] + Unhunted(users[u]) <= robs[u]
        /\ bounty[u] + Total(users[u].loot) <= stolen[u]
    BY Numbers DEF Sound
  <2>2. Unhunted(users[u]) \in Nat
    BY DEF Unhunted
  <2>3. Total(users[u].loot) \in Nat
    BY Numbers, RowTotals DEF Sound
  <2> QED BY <2>1, <2>2, <2>3, Numbers
<1> QED BY <1>1, WantedInvariance, PTL

(***************************************************************************)
(* The types.                                                              *)
(***************************************************************************)
\* What /rob writes of a success: the loot, a star and when it was.
LEMMA LootedStamped ==
    ASSUME NEW row, Stamped(row), NEW now \in Time, NEW s
    PROVE  Stamped(LootedRow(row, s, now))
<1> DEFINE a == row.balance + s
           b == Lesser(MaxStars, row.wanted_stars + 1)
           d == Remember(row.loot, s)
           new == LootedRow(row, s, now)
<1>1. DOMAIN row = Columns /\ row = [f \in Columns |-> row[f]]
  BY Zenon DEF Stamped
<1>2. new = [row EXCEPT !.balance = a, !.last_rob = now, !.wanted_stars = b,
                         !.wanted_hunted = FALSE, !.loot = d]
  BY <1>1 DEF LootedRow, Columns
<1> HIDE DEF a, b, d, new
<1>3. new = [f \in Columns |-> new[f]]
  BY <1>1, <1>2
<1>4. /\ new.role = row.role /\ new.cert_action = row.cert_action /\ new.last_rob = now
      /\ new.last_robbed = row.last_robbed /\ new.last_role_change = row.last_role_change
      /\ new.last_buyout = row.last_buyout /\ new.broken_until = row.broken_until
  BY <1>1, <1>2 DEF Columns
<1> QED BY <1>3, <1>4 DEF Stamped, new

\* The balance, the debt and the prison are not stamps.
LEMMA PaidStamped ==
    ASSUME NEW row, Stamped(row), NEW a, NEW b, NEW d
    PROVE  /\ Stamped([row EXCEPT !.balance = a])
           /\ Stamped([row EXCEPT !.wanted_hunted = a])
           /\ Stamped([row EXCEPT !.in_prison = a])
           /\ Stamped([row EXCEPT !.balance = a, !.bail_debt = b])
           /\ Stamped([row EXCEPT !.balance = a, !.bail_debt = b, !.in_prison = d])
BY DEF Stamped, Columns

\* A robbery is dated.
LEMMA RobbedStamped ==
    ASSUME NEW row, Stamped(row), NEW now \in Time, NEW a
    PROVE  /\ Stamped([row EXCEPT !.balance = a, !.last_robbed = now])
           /\ Stamped([row EXCEPT !.last_rob = now])
           /\ Stamped([row EXCEPT !.last_rob = now, !.balance = a])
BY DEF Stamped, Columns

\* A role is one of the three, and dated.
LEMMA ChosenStamped ==
    ASSUME NEW row, Stamped(row), NEW now \in Time, NEW role \in Roles
    PROVE  Stamped(ChosenRow(row, role, now))
<1> DEFINE new == [row EXCEPT !.role = role, !.last_role_change = now]
<1>1. Stamped(new)
  BY DEF Stamped, Columns
<1> HIDE DEF new
<1>2. Stamped([new EXCEPT !.wanted_stars = 0, !.wanted_hunted = FALSE, !.loot = <<>>])
  BY <1>1 DEF Stamped, Columns
<1> QED BY <1>1, <1>2 DEF ChosenRow, new

\* The police take coins and loot.
LEMMA CaughtStamped ==
    ASSUME NEW row, Stamped(row)
    PROVE  Stamped(CaughtRow(row))
<1> DEFINE due == (6 * Total(row.loot)) \div 10
           got == Lesser(due, row.balance)
           a == row.balance - got
           b == row.bail_debt + due - got
           new == CaughtRow(row)
<1>1. DOMAIN row = Columns /\ row = [f \in Columns |-> row[f]]
  BY Zenon DEF Stamped
<1>2. new = [row EXCEPT !.balance = a, !.bail_debt = b, !.in_prison = TRUE,
                         !.wanted_stars = 0, !.wanted_hunted = FALSE, !.loot = <<>>]
  BY <1>1 DEF CaughtRow, Columns
<1> HIDE DEF due, got, a, b, new
<1>3. new = [f \in Columns |-> new[f]]
  BY <1>1, <1>2
<1>4. /\ new.role = row.role /\ new.cert_action = row.cert_action /\ new.last_rob = row.last_rob
      /\ new.last_robbed = row.last_robbed /\ new.last_role_change = row.last_role_change
      /\ new.last_buyout = row.last_buyout /\ new.broken_until = row.broken_until
  BY <1>1, <1>2 DEF Columns
<1> QED BY <1>3, <1>4 DEF Stamped, new

\* A buy-out is dated.
LEMMA BoughtOutStamped ==
    ASSUME NEW row, Stamped(row), NEW now \in Time
    PROVE  Stamped(BoughtOutRow(row, now))
<1> DEFINE a == row.balance - 1
           new == BoughtOutRow(row, now)
<1>1. DOMAIN row = Columns /\ row = [f \in Columns |-> row[f]]
  BY Zenon DEF Stamped
<1>2. new = [row EXCEPT !.balance = a, !.wanted_stars = 0, !.wanted_hunted = FALSE,
                         !.loot = <<>>, !.last_buyout = now]
  BY <1>1 DEF BoughtOutRow, Columns
<1> HIDE DEF a, new
<1>3. new = [f \in Columns |-> new[f]]
  BY <1>1, <1>2
<1>4. /\ new.role = row.role /\ new.cert_action = row.cert_action /\ new.last_rob = row.last_rob
      /\ new.last_robbed = row.last_robbed /\ new.last_role_change = row.last_role_change
      /\ new.last_buyout = now /\ new.broken_until = row.broken_until
  BY <1>1, <1>2 DEF Columns
<1> QED BY <1>3, <1>4 DEF Stamped, new

\* A certificate is dated.
LEMMA ToggledStamped ==
    ASSUME NEW row, Stamped(row), NEW now \in Time
    PROVE  Stamped(ToggledRow(row, now))
<1> DEFINE a == row.balance - 1
           b == ~row.cert
           new == ToggledRow(row, now)
<1>1. DOMAIN row = Columns /\ row = [f \in Columns |-> row[f]]
  BY Zenon DEF Stamped
<1>2. new = [row EXCEPT !.balance = a, !.cert = b, !.cert_action = now]
  BY <1>1 DEF ToggledRow, Columns
<1> HIDE DEF a, b, new
<1>3. new = [f \in Columns |-> new[f]]
  BY <1>1, <1>2
<1>4. /\ new.role = row.role /\ new.cert_action = now /\ new.last_rob = row.last_rob
      /\ new.last_robbed = row.last_robbed /\ new.last_role_change = row.last_role_change
      /\ new.last_buyout = row.last_buyout /\ new.broken_until = row.broken_until
  BY <1>1, <1>2 DEF Columns
<1> QED BY <1>3, <1>4 DEF Stamped, new

\* A broken certificate is dated, and so is the end of the ban.
LEMMA BrokenStamped ==
    ASSUME NEW row, Stamped(row), NEW now \in Time
    PROVE  Stamped(BrokenRow(row, now))
<1> DEFINE until == now + 1
           new == BrokenRow(row, now)
<1>1. DOMAIN row = Columns /\ row = [f \in Columns |-> row[f]]
  BY Zenon DEF Stamped
<1>2. new = [row EXCEPT !.cert = FALSE, !.broken_until = until, !.cert_action = now]
  BY <1>1 DEF BrokenRow, Columns
<1> HIDE DEF until, new
<1>3. new = [f \in Columns |-> new[f]]
  BY <1>1, <1>2
<1>4. /\ new.role = row.role /\ new.cert_action = now /\ new.last_rob = row.last_rob
      /\ new.last_robbed = row.last_robbed /\ new.last_role_change = row.last_role_change
      /\ new.last_buyout = row.last_buyout /\ new.broken_until = until
  BY <1>1, <1>2 DEF Columns
<1>5. until \in Time \union {Never, MaxTime + 1}
  BY BoundsAssumption DEF Time, until
<1> QED BY <1>3, <1>4, <1>5 DEF Stamped, new

\* A pardon is not dated.
LEMMA FreedStamped ==
    ASSUME NEW row, Stamped(row), NEW debt, NEW wanted
    PROVE  Stamped(FreedRow(row, debt, wanted))
<1> DEFINE a == IF debt THEN 0 ELSE row.bail_debt
           b == IF wanted THEN 0 ELSE row.wanted_stars
           d == IF wanted THEN FALSE ELSE row.wanted_hunted
           new == FreedRow(row, debt, wanted)
<1>1. DOMAIN row = Columns /\ row = [f \in Columns |-> row[f]]
  BY Zenon DEF Stamped
<1>2. new = [row EXCEPT !.in_prison = FALSE, !.bail_debt = a, !.wanted_stars = b,
                         !.wanted_hunted = d]
  BY <1>1 DEF FreedRow, Columns
<1> HIDE DEF a, b, d, new
<1>3. new = [f \in Columns |-> new[f]]
  BY <1>1, <1>2
<1>4. /\ new.role = row.role /\ new.cert_action = row.cert_action /\ new.last_rob = row.last_rob
      /\ new.last_robbed = row.last_robbed /\ new.last_role_change = row.last_role_change
      /\ new.last_buyout = row.last_buyout /\ new.broken_until = row.broken_until
  BY <1>1, <1>2 DEF Columns
<1> QED BY <1>3, <1>4 DEF Stamped, new

\* What the database work of a command leaves behind.
RowsStamped == users' = [u \in Users |-> users'[u]] /\ \A u \in Users : Stamped(users'[u])

\* The rows of two players changed, or of one.
LEMMA TwoStamped ==
    ASSUME StampsFit, NEW u \in Users, NEW t \in Users, NEW mine, NEW theirs,
           Stamped(mine), Stamped(theirs),
           users' = [users EXCEPT ![t] = theirs, ![u] = mine]
    PROVE  RowsStamped
BY DEF StampsFit, RowsStamped

\* One row changes.
LEMMA OneStamped ==
    ASSUME StampsFit, NEW u \in Users, NEW mine, Stamped(mine),
           users' = [users EXCEPT ![u] = mine]
    PROVE  RowsStamped
BY DEF StampsFit, RowsStamped

\* u robs t: the victim gets the double back, or the robber keeps the loot.
LEMMA StealStamped ==
    ASSUME StampsFit, NEW u \in Users, NEW t \in Users, NEW s, NEW now \in Time,
           Steal(u, t, s, now)
    PROVE  RowsStamped
<1> DEFINE victim == [users[t] EXCEPT !.balance = users[t].balance - s, !.last_robbed = now]
           robber == LootedRow(users[u], s, now)
           struck == StruckRow(robber, s)
           avenged == [victim EXCEPT !.balance = victim.balance + 2 * s]
           jailed == [struck EXCEPT !.in_prison = struck.in_prison \/ Jails(struck)]
<1>1. Stamped(users[u]) /\ Stamped(users[t])
  BY DEF StampsFit
<1>2. Stamped(victim) /\ Stamped(robber)
  <2> DEFINE a == users[t].balance - s
  <2>1. victim = [users[t] EXCEPT !.balance = a, !.last_robbed = now]
    OBVIOUS
  <2> HIDE DEF a, victim
  <2> QED BY <1>1, <2>1, RobbedStamped, LootedStamped
<1>3. Stamped(avenged)
  <2> DEFINE a == victim.balance + 2 * s
  <2> HIDE DEF victim, a
  <2> QED BY <1>2, PaidStamped
<1>4. Stamped(struck)
  <2> HIDE DEF robber
  <2> DEFINE a == robber.balance - Pays(robber, s)
             b == robber.bail_debt + 2 * s - Pays(robber, s)
  <2>1. struck = [robber EXCEPT !.balance = a, !.bail_debt = b]
    BY <1>2 DEF StruckRow, Stamped, Columns
  <2> HIDE DEF a, b, struck
  <2> QED BY <1>2, <2>1, PaidStamped
<1>5. Stamped(jailed)
  <2> DEFINE a == struck.in_prison \/ Jails(struck)
  <2> HIDE DEF struck, a
  <2> QED BY <1>4, PaidStamped
<1>6. \/ users' = [users EXCEPT ![t] = victim, ![u] = robber]
      \/ users' = [users EXCEPT ![t] = avenged, ![u] = jailed]
  BY DEF Steal
<1> HIDE DEF victim, robber, avenged, jailed
<1> QED BY <1>2, <1>3, <1>5, <1>6, TwoStamped

\* What a command at its database work has in hand.
LEMMA WorkersHave ==
    ASSUME WInv, StampsFit, NEW c \in Working
    PROVE  /\ c \in Calls /\ call[c].user \in Users
           /\ call[c].at \in {"running", "aiming"} => call[c].now \in Time
           /\ call[c].at \in {"running", "unjailing"} => call[c].job \in Command(call[c].user)
           /\ call[c].at = "unjailing" => call[c].job.cmd = "admin_unjail"
           /\ call[c].at = "aiming" => call[c].target \in Users \ {call[c].user}
           /\ \A u \in Users : Stamped(users[u])
<1>1. c \in Calls /\ CallType(call[c]) /\ \A u \in Users : Stamped(users[u])
  BY DEF StampsFit, Working
<1>2. /\ call[c].user \in Users
      /\ call[c].at \in {"running", "unjailing"} => call[c].job \in Command(call[c].user)
      /\ call[c].at = "unjailing" => call[c].job.cmd = "admin_unjail"
      /\ call[c].at = "aiming" => call[c].target \in Users \ {call[c].user}
  BY <1>1 DEF WInv, CallsAreSound
<1> QED BY <1>1, <1>2 DEF CallType, Idle

\* The answer follows the database work.
LEMMA AnswerStamped ==
    ASSUME WInv, StampsFit, NEW c \in Working, Answers(c),
           RowsStamped
    PROVE  StampsFit'
<1>1. /\ DOMAIN call = Calls /\ call[c].user \in Users
      /\ call' = [call EXCEPT ![c] = Replying(call[c].user)]
      /\ UNCHANGED <<clock, begun>>
  BY DEF WInv, Tables, CallsAreSound, Answers, Working
<1>2. \A d \in Calls : call'[d] = IF d = c THEN Replying(call[c].user) ELSE call[d]
  BY <1>1
<1>3. CallType(Replying(call[c].user))
  BY <1>1 DEF CallType, Replying
<1>4. \A d \in Calls : CallType(call'[d])
  BY <1>2, <1>3 DEF StampsFit
<1> QED BY <1>1, <1>4 DEF StampsFit, RowsStamped

\* A command that changes nothing, or the row of its player.
LEMMA OwnStamped ==
    ASSUME WInv, StampsFit, NEW c \in Working,
           Refused(c) \/ \E row : Becomes(c, row) /\ Stamped(row)
    PROVE  StampsFit'
<1>1. CASE Refused(c)
  <2>1. RowsStamped /\ Answers(c)
    BY <1>1 DEF Refused, RowsStamped, StampsFit
  <2> QED BY <2>1, AnswerStamped
<1>2. ASSUME NEW row, Becomes(c, row), Stamped(row) PROVE StampsFit'
  <2>1. /\ Answers(c) /\ users' = [users EXCEPT ![call[c].user] = row]
        /\ call[c].user \in Users
    BY <1>2, WorkersHave DEF Becomes
  <2>2. RowsStamped
    BY <1>2, <2>1, OneStamped
  <2> QED BY <2>1, <2>2, AnswerStamped
<1> QED BY <1>1, <1>2

\* /role_choose, /wanted_buyout and /good_citizen.
LEMMA OwnRowStamped ==
    ASSUME WInv, StampsFit, NEW c \in Calls,
           \/ ChooseRole(c) \/ WantedBuyout(c) \/ ToggleGoodCitizen(c) \/ FailCommand(c)
    PROVE  StampsFit'
<1>1. CASE FailCommand(c)
  BY <1>1, OwnStamped DEF FailCommand
<1>2. ASSUME ChooseRole(c) \/ WantedBuyout(c) \/ ToggleGoodCitizen(c)
      PROVE  /\ c \in Working /\ call[c].at = "running" /\ call[c].user \in Users
             /\ call[c].now \in Time /\ Stamped(users[call[c].user])
             /\ call[c].job \in Command(call[c].user)
  <2>1. c \in Working /\ call[c].at = "running"
    BY <1>2 DEF ChooseRole, WantedBuyout, ToggleGoodCitizen, Runs, Working
  <2> QED BY <2>1, WorkersHave
<1>3. CASE ChooseRole(c)
  <2>1. call[c].job.cmd = "role_choose"
    BY <1>3 DEF ChooseRole, Runs
  <2>2. call[c].job.role \in Roles
    BY <1>2, <1>3, <2>1 DEF Command
  <2>3. Stamped(ChosenRow(users[call[c].user], call[c].job.role, call[c].now))
    BY <1>2, <1>3, <2>2, ChosenStamped
  <2>4. \/ Refused(c)
        \/ Becomes(c, ChosenRow(users[call[c].user], call[c].job.role, call[c].now))
    BY <1>3 DEF ChooseRole
  <2> QED BY <1>2, <1>3, <2>3, <2>4, OwnStamped
<1>4. CASE WantedBuyout(c) \/ ToggleGoodCitizen(c)
  <2>1. \/ Refused(c)
        \/ Becomes(c, BoughtOutRow(users[call[c].user], call[c].now))
        \/ Becomes(c, ToggledRow(users[call[c].user], call[c].now))
    BY <1>4 DEF WantedBuyout, ToggleGoodCitizen
  <2> QED BY <1>2, <1>4, <2>1, BoughtOutStamped, ToggledStamped, OwnStamped
<1> QED BY <1>1, <1>3, <1>4

\* The two transactions of /rob.
LEMMA RobStamped ==
    ASSUME WInv, StampsFit, NEW c \in Calls, LoadRobContext(c) \/ RobSucceeds(c) \/ RobFails(c)
    PROVE  StampsFit'
<1> DEFINE u == call[c].user
<1>1. c \in Working /\ call[c].at \in {"running", "aiming"}
  BY DEF LoadRobContext, RobSucceeds, RobFails, Runs, Working
<1>2. u \in Users /\ call[c].now \in Time /\ \A v \in Users : Stamped(users[v])
  BY <1>1, WorkersHave
<1>3. CASE LoadRobContext(c)
  <2> DEFINE t == call[c].job.target
  <2>1. CASE Refused(c)
    BY <1>1, <2>1, OwnStamped
  <2>2. CASE call' = [call EXCEPT ![c] = Aiming(u, t)] /\ UNCHANGED <<clock, begun, users>>
    <3>1. call[c].at = "running" /\ call[c].job.cmd = "rob" /\ DOMAIN call = Calls
      BY <1>3 DEF LoadRobContext, Runs, WInv, Tables
    <3>2. call[c].job \in Command(u)
      BY <1>1, <3>1, WorkersHave
    <3>3. t \in Users
      BY <3>1, <3>2 DEF Command
    <3>4. CallType(Aiming(u, t))
      BY <1>2, <3>3 DEF CallType, Aiming, StampsFit
    <3>5. \A d \in Calls : call'[d] = IF d = c THEN Aiming(u, t) ELSE call[d]
      BY <2>2, <3>1
    <3>6. \A d \in Calls : CallType(call'[d])
      BY <3>4, <3>5 DEF StampsFit
    <3> QED BY <2>2, <3>6 DEF StampsFit
  <2> QED BY <1>3, <2>1, <2>2 DEF LoadRobContext
<1>4. CASE RobSucceeds(c) \/ RobFails(c)
  <2> DEFINE t == call[c].target
             now == call[c].now
  <2>1. t \in Users /\ Answers(c)
    BY <1>1, <1>4, WorkersHave DEF RobSucceeds, RobFails
  <2>2. CASE users' = [users EXCEPT ![u].last_rob = now]
    <3> DEFINE mine == [users[u] EXCEPT !.last_rob = now]
    <3>1. Stamped(mine)
      BY <1>2, RobbedStamped
    <3>2. users' = [users EXCEPT ![u] = mine]
      BY <2>2
    <3> HIDE DEF mine
    <3>3. RowsStamped
      BY <1>2, <3>1, <3>2, OneStamped
    <3> QED BY <1>1, <2>1, <3>3, AnswerStamped
  <2>3. CASE \E s : Steal(u, t, s, now)
    <3>1. RowsStamped
      BY <1>2, <2>1, <2>3, StealStamped
    <3> QED BY <1>1, <2>1, <3>1, AnswerStamped
  <2>4. CASE Penalize(u, t, now)
    <3> DEFINE paid == Lesser(1, users[u].balance)
               a == users[u].balance - paid
               b == users[t].balance + paid
               mine == [users[u] EXCEPT !.last_rob = now, !.balance = a]
               theirs == [users[t] EXCEPT !.balance = b]
    <3>1. users' = [users EXCEPT ![t] = theirs, ![u] = mine]
      <4>1. users' = [users EXCEPT ![u].last_rob = now, ![u].balance = @ - paid,
                                   ![t].balance = @ + paid]
        BY <2>4 DEF Penalize
      <4>2. t \in Users \ {u} /\ DOMAIN users = Users
        BY <1>1, <1>4, WorkersHave DEF RobSucceeds, RobFails, WInv, Tables
      <4>3. DOMAIN users[u] = Columns /\ DOMAIN users[t] = Columns
        BY <1>2, <4>2, Numbers DEF Sound, Row
      <4> QED BY <1>2, <4>1, <4>2, <4>3 DEF Columns
    <3>2. Stamped(mine)
      <4> HIDE DEF a
      <4> QED BY <1>2, RobbedStamped
    <3>3. Stamped(theirs)
      <4> HIDE DEF b
      <4> QED BY <1>2, <2>1, PaidStamped
    <3> HIDE DEF mine, theirs
    <3>4. RowsStamped
      BY <1>2, <2>1, <3>1, <3>2, <3>3, TwoStamped
    <3> QED BY <1>1, <2>1, <3>4, AnswerStamped
  <2> QED BY <1>4, <2>2, <2>3, <2>4 DEF RobSucceeds, RobFails
<1> QED BY <1>3, <1>4

\* /cop_hunt: the prey gets away or is caught.
LEMMA HuntStamped ==
    ASSUME WInv, StampsFit, NEW c \in Calls, CopHunt(c)
    PROVE  StampsFit'
<1> DEFINE u == call[c].user
           t == call[c].job.target
<1>1. call[c].at = "running" /\ call[c].job.cmd = "cop_hunt" /\ c \in Working
  BY DEF CopHunt, Runs, Working
<1>2. u \in Users /\ \A v \in Users : Stamped(users[v])
  BY <1>1, WorkersHave
<1>3. t \in Users /\ t # u
  <2>1. call[c].job \in Command(u)
    BY <1>1, WorkersHave
  <2> QED BY <1>1, <2>1 DEF Command
<1>4. CASE Refused(c)
  BY <1>1, <1>4, OwnStamped
<1>5. CASE /\ Answers(c)
           /\ \/ users' = [users EXCEPT ![u].balance = @ - 1, ![t].wanted_hunted = TRUE]
              \/ users' = [users EXCEPT ![u].balance = @ - 1 + Total(users[t].loot),
                                        ![t] = CaughtRow(@)]
  <2> DEFINE a == users[u].balance - 1
             b == users[u].balance - 1 + Total(users[t].loot)
             poor == [users[u] EXCEPT !.balance = a]
             rich == [users[u] EXCEPT !.balance = b]
             prey == [users[t] EXCEPT !.wanted_hunted = TRUE]
             caught == CaughtRow(users[t])
  <2>1. users = [v \in Users |-> users[v]] /\ Stamped(users[u]) /\ Stamped(users[t])
    BY <1>2, <1>3 DEF StampsFit
  <2>2. \/ users' = [users EXCEPT ![u] = poor, ![t] = prey]
        \/ users' = [users EXCEPT ![u] = rich, ![t] = caught]
    BY <1>2, <1>3, <1>5, <2>1 DEF Stamped, Columns
  <2>3. Stamped(poor) /\ Stamped(rich) /\ Stamped(prey)
    <3> HIDE DEF a, b
    <3> QED BY <2>1, PaidStamped
  <2>4. Stamped(caught)
    BY <2>1, CaughtStamped
  <2> HIDE DEF poor, rich, prey, caught
  <2>5. RowsStamped
    BY <1>2, <1>3, <2>2, <2>3, <2>4, TwoStamped
  <2> QED BY <1>1, <1>5, <2>5, AnswerStamped
<1> QED BY <1>4, <1>5 DEF CopHunt

\* /bail and /break_citizen.
LEMMA BailAndBreakStamped ==
    ASSUME WInv, StampsFit, NEW c \in Calls, PayBail(c) \/ BreakCitizen(c)
    PROVE  StampsFit'
<1> DEFINE u == call[c].user
<1>1. call[c].at = "running" /\ c \in Working
  BY DEF PayBail, BreakCitizen, Runs, Working
<1>2. /\ u \in Users /\ call[c].now \in Time /\ \A v \in Users : Stamped(users[v])
      /\ users = [v \in Users |-> users[v]]
  BY <1>1, WorkersHave DEF StampsFit
<1>3. CASE Refused(c)
  BY <1>1, <1>3, OwnStamped
<1>4. CASE /\ Answers(c)
           /\ users' = [users EXCEPT ![u] = [users[u] EXCEPT
                            !.balance = @ - Bail(users[u]), !.bail_debt = 0, !.in_prison = FALSE]]
  <2> DEFINE a == users[u].balance - Bail(users[u])
             freed == [users[u] EXCEPT !.balance = a, !.bail_debt = 0, !.in_prison = FALSE]
  <2>1. users' = [users EXCEPT ![u] = freed]
    BY <1>4
  <2>2. Stamped(freed)
    <3> HIDE DEF a
    <3> QED BY <1>2, PaidStamped
  <2> HIDE DEF freed
  <2>3. RowsStamped
    BY <1>2, <2>1, <2>2, OneStamped
  <2> QED BY <1>1, <1>4, <2>3, AnswerStamped
<1>5. CASE BreakCitizen(c) /\ ~Refused(c)
  <2> DEFINE t == call[c].job.target
             a == users[u].balance - 1
             poor == [users[u] EXCEPT !.balance = a]
             broken == BrokenRow(users[t], call[c].now)
  <2>1. /\ Answers(c)
        /\ users' = [users EXCEPT ![u].balance = @ - 1, ![t] = BrokenRow(@, call[c].now)]
        /\ call[c].job.cmd = "break_citizen"
    BY <1>5 DEF BreakCitizen, Runs
  <2>2. t \in Users /\ t # u
    <3>1. call[c].job \in Command(u)
      BY <1>1, WorkersHave
    <3> QED BY <2>1, <3>1 DEF Command
  <2>3. users' = [users EXCEPT ![u] = poor, ![t] = broken]
    BY <1>2, <2>1, <2>2
  <2>4. Stamped(poor) /\ Stamped(broken)
    <3> HIDE DEF a
    <3> QED BY <1>2, <2>2, PaidStamped, BrokenStamped
  <2> HIDE DEF poor, broken
  <2>5. RowsStamped
    BY <1>2, <2>2, <2>3, <2>4, TwoStamped
  <2> QED BY <1>1, <2>1, <2>5, AnswerStamped
<1> QED BY <1>3, <1>4, <1>5 DEF PayBail

\* The two steps of admin_unjail.
LEMMA UnjailStamped ==
    ASSUME WInv, StampsFit, NEW c \in Calls, ReadPrisoner(c) \/ Unjail(c)
    PROVE  StampsFit'
<1> DEFINE u == call[c].user
           job == call[c].job
<1>1. c \in Working /\ call[c].at \in {"running", "unjailing"} /\ job.cmd = "admin_unjail"
  <2>1. c \in Working /\ call[c].at \in {"running", "unjailing"}
    BY DEF ReadPrisoner, Unjail, Runs, Working
  <2>2. CASE ReadPrisoner(c)
    BY <2>1, <2>2 DEF ReadPrisoner, Runs
  <2>3. CASE Unjail(c)
    BY <2>1, <2>3, WorkersHave DEF Unjail
  <2> QED BY <2>1, <2>2, <2>3
<1>2. u \in Users /\ job \in Command(u) /\ \A v \in Users : Stamped(users[v])
  BY <1>1, WorkersHave
<1>3. CASE Refused(c)
  BY <1>1, <1>3, OwnStamped
<1>4. CASE call' = [call EXCEPT ![c] = Unjailing(u, job)] /\ UNCHANGED <<clock, begun, users>>
  <2>1. DOMAIN call = Calls
    BY DEF WInv, Tables
  <2>2. \A d \in Calls : call'[d] = IF d = c THEN Unjailing(u, job) ELSE call[d]
    BY <1>4, <2>1
  <2>3. CallType(Unjailing(u, job))
    BY <1>1, <1>2 DEF CallType, Unjailing
  <2>4. \A d \in Calls : CallType(call'[d])
    BY <2>2, <2>3 DEF StampsFit
  <2> QED BY <1>4, <2>4 DEF StampsFit
<1>5. CASE Unjail(c)
  <2> DEFINE t == job.target
             new == FreedRow(users[t], job.debt, job.wanted)
  <2>1. t \in Users /\ Answers(c)
    BY <1>1, <1>2, <1>5 DEF Command, Unjail
  <2>2. Stamped(new)
    BY <1>2, <2>1, FreedStamped
  <2>3. users' = [users EXCEPT ![t] = new]
    BY <1>5 DEF Unjail
  <2> HIDE DEF new, t
  <2>4. RowsStamped
    BY <2>1, <2>2, <2>3, OneStamped
  <2> QED BY <1>1, <2>1, <2>4, AnswerStamped
<1> QED BY <1>3, <1>4, <1>5 DEF ReadPrisoner

\* The steps of the lock and of the clock.
LEMMA LockStepStamped ==
    ASSUME WInv, StampsFit,
           \/ \E c \in Calls : \/ \E u \in Players : \E job \in Command(u) : Start(c, u, job)
                               \/ EndCommand(c)
           \/ \E u \in Players : CommandHangs(u)
           \/ Tick
           \/ UNCHANGED vars
    PROVE  StampsFit'
<1>1. DOMAIN call = Calls /\ clock \in Time /\ begun \in 0 .. MaxCommands
  BY DEF WInv, Tables, StampsFit
<1>2. users' = users
  BY DEF Start, EndCommand, CommandHangs, Tick, vars
<1>3. ASSUME NEW c \in Calls, NEW u \in Players, NEW job \in Command(u), Start(c, u, job)
      PROVE  StampsFit'
  <2>1. /\ call' = [call EXCEPT ![c] = Running(u, job)] /\ clock' = clock
        /\ begun' = begun + 1 /\ begun < MaxCommands /\ u \in Users
    BY <1>3, PlayersAssumption DEF Start
  <2>2. begun' \in 0 .. MaxCommands
    BY <1>1, <2>1, BoundsAssumption
  <2>3. CallType(Running(u, job))
    BY <1>1, <1>3, <2>1 DEF CallType, Running
  <2>4. \A d \in Calls : call'[d] = IF d = c THEN Running(u, job) ELSE call[d]
    BY <1>1, <2>1
  <2> QED BY <1>2, <2>1, <2>2, <2>3, <2>4 DEF StampsFit
<1>4. ASSUME NEW c \in Calls, EndCommand(c)
      PROVE  StampsFit'
  <2>1. call' = [call EXCEPT ![c] = Idle] /\ UNCHANGED <<clock, begun>>
    BY <1>4 DEF EndCommand
  <2>2. \A d \in Calls : call'[d] = IF d = c THEN Idle ELSE call[d]
    BY <1>1, <2>1
  <2>3. CallType(Idle)
    BY DEF CallType
  <2> QED BY <1>2, <2>1, <2>2, <2>3 DEF StampsFit
<1>5. CASE \E u \in Players : CommandHangs(u)
  BY <1>2, <1>5 DEF CommandHangs, StampsFit
<1>6. CASE Tick
  <2>1. clock' \in Time
    BY <1>1, <1>6, BoundsAssumption DEF Tick, Time
  <2> QED BY <1>2, <1>6, <2>1 DEF Tick, StampsFit
<1>7. CASE UNCHANGED vars
  BY <1>7 DEF vars, StampsFit
<1> QED BY <1>3, <1>4, <1>5, <1>6, <1>7

\* Every row keeps its columns and its cooldowns in time, no balance or debt
\* is negative, no more stars than MaxStars are given, and every command is
\* in a phase of its own with what it needs (rob_repo.py, wanted_repo.py).
THEOREM WantedTypes == Spec => []TypeOK
<1>1. Init => StampsFit
  <2> SUFFICES ASSUME Init PROVE StampsFit
    OBVIOUS
  <2>1. clock \in Time /\ begun \in 0 .. MaxCommands
    BY BoundsAssumption DEF Init, Time
  <2>2. \A u \in Users : Stamped(users[u])
    BY InitialAssumption DEF Init, Stamped, Columns
  <2>3. \A c \in Calls : CallType(call[c])
    BY DEF Init, CallType
  <2>4. users = [u \in Users |-> users[u]]
    BY DEF Init
  <2> QED BY <2>1, <2>2, <2>3, <2>4 DEF StampsFit
<1>2. WInv /\ StampsFit /\ [Next]_vars => StampsFit'
  <2> SUFFICES ASSUME WInv, StampsFit, [Next]_vars PROVE StampsFit'
    OBVIOUS
  <2>1. ASSUME NEW c \in Calls,
               \/ LoadRobContext(c) \/ RobSucceeds(c) \/ RobFails(c)
               \/ ChooseRole(c) \/ WantedBuyout(c) \/ ToggleGoodCitizen(c)
               \/ CopHunt(c) \/ PayBail(c) \/ BreakCitizen(c)
               \/ ReadPrisoner(c) \/ Unjail(c) \/ FailCommand(c)
        PROVE  StampsFit'
    BY <2>1, OwnRowStamped, RobStamped, HuntStamped, BailAndBreakStamped, UnjailStamped
  <2> QED BY <2>1, LockStepStamped DEF Next
<1>3. ASSUME WInv, StampsFit PROVE TypeOK
  <2>1. ASSUME NEW u \in Users PROVE users[u] \in UserRow
    <3> DEFINE row == users[u]
    <3>1. Row(row) /\ Stamped(row)
      BY <1>3, Numbers DEF Sound, StampsFit
    <3> HIDE DEF row
    <3>2. row \in UserRow
      BY <3>1 DEF Row, Stamped, Columns, UserRow
    <3> QED BY <3>2 DEF row
  <2>2. users \in [Users -> UserRow]
    BY <1>3, <2>1 DEF StampsFit
  <2> QED BY <1>3, <2>2 DEF TypeOK, StampsFit, WInv, Tables
<1> QED BY <1>1, <1>2, <1>3, WantedInvariance, InitEstablishes, PTL DEF Spec
===============================================================================
