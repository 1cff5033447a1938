---------------------------- MODULE RewardsProofs ----------------------------
(***************************************************************************)
(* Theorems about Rewards: with any number of players, commands, messages  *)
(* and voice rounds at once, a day is paid once to whoever kept his lock,  *)
(* every message is counted and experience waits for its cooldown.         *)
(***************************************************************************)
EXTENDS Rewards, FiniteSetTheorems, TLAPS

USE DayLenAssumption, MaxLevelAssumption, PlayersAssumption, BoundsAssumption,
    CountsAssumption, MessagesAssumption, NobodyAssumption

(***************************************************************************)
(* Days.                                                                   *)
(***************************************************************************)
LEMMA DaysGoOn ==
    ASSUME NEW s \in Nat, NEW t \in Nat, s <= t
    PROVE  Day(s) \in Nat /\ Day(t) \in Nat /\ Day(s) <= Day(t)
<1> DEFINE a == s \div DayLen
           b == t \div DayLen
<1>1. a \in Int /\ DayLen * a <= s /\ s < DayLen * (a + 1)
  OBVIOUS
<1>2. b \in Int /\ DayLen * b <= t /\ t < DayLen * (b + 1)
  OBVIOUS
<1> HIDE DEF a, b
<1>3. \A x, y \in Int : x > y => DayLen * x >= DayLen * (y + 1)
  OBVIOUS
<1>4. ~(a > b)
  BY <1>1, <1>2, <1>3
<1>5. ~(0 > a) /\ ~(0 > b)
  BY <1>1, <1>2, <1>3
<1> QED BY <1>1, <1>2, <1>4, <1>5 DEF Day, a, b

\* No day was paid and no last day changed.
DaysKept ==
    /\ dailies' = dailies
    /\ DOMAIN users' = Users
    /\ \A u \in Users :
        "last_claim" \in DOMAIN users'[u] /\ users'[u].last_claim = users[u].last_claim

\* A step that pays no day and starts no command.
LEMMA DaysKeptKeeps ==
    ASSUME DailyInv, DaysKept, UNCHANGED lockVars, clock' \in Nat, clock <= clock',
           DOMAIN call' = Calls,
           \A c \in Calls : \/ call'[c] = call[c]
                            \/ call'[c].at \in {"idle", "replying"}
                            \/ call'[c].at = "seen" /\ call'[c].user \in Users
    PROVE  DailyInv'
<1>1. Day(clock) \in Nat /\ Day(clock') \in Nat /\ Day(clock) <= Day(clock')
  BY DaysGoOn DEF DailyInv
<1>2. DaysAreOrdered'
  <2>1. \A d \in Days : d \in Int
    BY DEF Days
  <2> QED BY <1>1, <2>1 DEF DailyInv, DaysAreOrdered, DaysKept, lockVars
<1>3. CallsHoldLocks'
  <2> SUFFICES ASSUME NEW c \in Calls
               PROVE  /\ call'[c].at \in {"running", "seen"} => call'[c].user \in Users
                      /\ call'[c].at = "running" /\ call'[c].cmd \notin ReadOnly =>
                            call'[c].user \in overrun' \/ lock'[call'[c].user].holder = c
                      /\ call'[c].at = "running" /\ call'[c].cmd = "daily" =>
                            /\ call'[c].now \in Nat /\ call'[c].now <= clock'
                            /\ \/ call'[c].user \in overrun'
                               \/ users'[call'[c].user].last_claim <= Day(call'[c].now)
    BY DEF DailyInv, CallsHoldLocks, Runs, lockVars
  <2>1. CASE call'[c] = call[c]
    <3>1. call[c].now \in Nat /\ call[c].now <= clock => call[c].now <= clock'
      BY DEF DailyInv
    <3> QED BY <2>1, <3>1 DEF DailyInv, CallsHoldLocks, Runs, DaysKept, lockVars
  <2>2. CASE \/ call'[c].at \in {"idle", "replying"}
             \/ call'[c].at = "seen" /\ call'[c].user \in Users
    BY <2>2
  <2> QED BY <2>1, <2>2
<1> QED BY <1>2, <1>3 DEF DailyInv

\* A command that leaves the last day of its player alone.
LEMMA CommitKeeps ==
    ASSUME DailyInv, NEW c \in Calls, call[c].at \in {"running", "seen"},
           NEW row, Commits(c, row), dailies' = dailies,
           "last_claim" \in DOMAIN row,
           row.last_claim = users[call[c].user].last_claim
    PROVE  DailyInv'
<1>1. call[c].user \in Users /\ DOMAIN users = Users /\ DOMAIN call = Calls
      /\ clock \in Nat /\ \A u \in Users : "last_claim" \in DOMAIN users[u]
  BY DEF DailyInv, DaysAreOrdered, CallsHoldLocks
<1>2. /\ users' = [users EXCEPT ![call[c].user] = row]
      /\ call' = [call EXCEPT ![c] = Replying(call[c].user)]
      /\ UNCHANGED <<clock, lockVars>>
  BY DEF Commits
<1>3. DaysKept
  BY <1>1, <1>2 DEF DaysKept
<1>4. \A d \in Calls : call'[d] = call[d] \/ call'[d].at \in {"idle", "replying"}
  BY <1>1, <1>2 DEF Replying
<1>5. DOMAIN call' = Calls
  BY <1>1, <1>2
<1> QED BY <1>1, <1>2, <1>3, <1>4, <1>5, DaysKeptKeeps

\* /hourly, /beg, /rescue and the second step of /cooldowns.
LEMMA ClaimKeeps ==
    ASSUME DailyInv, NEW c \in Calls,
           \/ ClaimHourlyReward(c) \/ ClaimBeg(c) \/ ClaimRescue(c) \/ RefreshHourlyBank(c)
    PROVE  DailyInv'
<1> DEFINE u == call[c].user
<1>1. call[c].at \in {"running", "seen"}
  BY DEF ClaimHourlyReward, ClaimBeg, ClaimRescue, RefreshHourlyBank, Runs
<1>2. u \in Users /\ "last_claim" \in DOMAIN users[u]
  BY <1>1 DEF DailyInv, DaysAreOrdered, CallsHoldLocks
<1>3. CASE ClaimHourlyReward(c)
  <2>1. Commits(c, PaidRow(users[u], call[c].now)) /\ dailies' = dailies
    BY <1>3 DEF ClaimHourlyReward
  <2>2. /\ "last_claim" \in DOMAIN PaidRow(users[u], call[c].now)
        /\ PaidRow(users[u], call[c].now).last_claim = users[u].last_claim
    BY <1>2 DEF PaidRow
  <2> QED BY <1>1, <2>1, <2>2, CommitKeeps
<1>4. CASE ClaimBeg(c)
  <2>1. PICK row \in Begs(users[u]) : Commits(c, row) /\ dailies' = dailies
    BY <1>4 DEF ClaimBeg
  <2>2. "last_claim" \in DOMAIN row /\ row.last_claim = users[u].last_claim
    BY <1>2 DEF Begs
  <2> QED BY <1>1, <2>1, <2>2, CommitKeeps
<1>5. CASE ClaimRescue(c)
  <2>1. Commits(c, Rescued(users[u])) /\ dailies' = dailies
    BY <1>5 DEF ClaimRescue
  <2>2. /\ "last_claim" \in DOMAIN Rescued(users[u])
        /\ Rescued(users[u]).last_claim = users[u].last_claim
    BY <1>2 DEF Rescued
  <2> QED BY <1>1, <2>1, <2>2, CommitKeeps
<1>6. CASE RefreshHourlyBank(c)
  <2> DEFINE s == call[c]
             noted == [users[u] EXCEPT !.last_hourly_claim = s.now]
             saved == [users[u] EXCEPT
                          !.hourly_bank = Saved(s.bank, s.last, s.now, s.level),
                          !.last_hourly_claim = s.now]
  <2>1. /\ Commits(c, noted) \/ Commits(c, users[u]) \/ Commits(c, saved)
        /\ dailies' = dailies
    BY <1>6 DEF RefreshHourlyBank
  <2>2. \A row \in {noted, users[u], saved} :
          "last_claim" \in DOMAIN row /\ row.last_claim = users[u].last_claim
    BY <1>2
  <2> HIDE DEF noted, saved
  <2> QED BY <1>1, <2>1, <2>2, CommitKeeps
<1> QED BY <1>3, <1>4, <1>5, <1>6

\* The other steps of the commands that pay no day.
LEMMA OtherStepKeeps ==
    ASSUME DailyInv, NEW c \in Calls, ReadHourlyBank(c) \/ Transfer(c) \/ FailCommand(c)
    PROVE  DailyInv'
<1>1. DOMAIN users = Users /\ DOMAIN call = Calls /\ clock \in Nat
      /\ \A u \in Users : "last_claim" \in DOMAIN users[u]
  BY DEF DailyInv, DaysAreOrdered, CallsHoldLocks
<1>2. call[c].user \in Users
  BY DEF ReadHourlyBank, Transfer, FailCommand, Runs, DailyInv, CallsHoldLocks
<1>3. UNCHANGED <<clock, lockVars, dailies>>
  BY DEF ReadHourlyBank, Transfer, FailCommand
<1>4. DaysKept
  <2>1. CASE Transfer(c)
    <3>1. PICK receiver \in Users : TransferUsers(call[c].user, receiver)
      BY <2>1 DEF Transfer
    <3> QED BY <1>1, <1>2, <1>3, <3>1 DEF TransferUsers, DaysKept
  <2>2. CASE ReadHourlyBank(c) \/ FailCommand(c)
    BY <1>1, <2>2 DEF ReadHourlyBank, FailCommand, DaysKept
  <2> QED BY <2>1, <2>2
<1>5. /\ DOMAIN call' = Calls
      /\ \A d \in Calls : \/ call'[d] = call[d]
                          \/ call'[d].at \in {"idle", "replying"}
                          \/ call'[d].at = "seen" /\ call'[d].user \in Users
  <2>1. CASE ReadHourlyBank(c)
    BY <1>1, <1>2, <2>1 DEF ReadHourlyBank, Seen
  <2>2. CASE Transfer(c) \/ FailCommand(c)
    <3>1. call' = [call EXCEPT ![c] = Replying(call[c].user)]
      BY <2>2 DEF Transfer, FailCommand
    <3> QED BY <1>1, <3>1 DEF Replying
  <2> QED BY <2>1, <2>2
<1> QED BY <1>1, <1>3, <1>4, <1>5, DaysKeptKeeps

\* The command takes the time before it waits for the row.
LEMMA TakeTimeKeeps ==
    ASSUME DailyInv, NEW c \in Calls, TakeTime(c)
    PROVE  DailyInv'
<1>1. /\ DOMAIN call = Calls /\ clock \in Nat /\ lock \in LockType
      /\ overrun \subseteq Users /\ call[c].at = "running" /\ call[c].user \in Users
      /\ users[call[c].user].last_claim <= Day(clock)
  BY DEF TakeTime, DailyInv, CallsHoldLocks, DaysAreOrdered
<1>2. /\ UNCHANGED <<clock, users, dailies, lock, overrun>>
      /\ call' = [call EXCEPT ![c] = Running(call[c].user, call[c].cmd)]
  BY DEF TakeTime, lockVars
<1>3. DaysAreOrdered'
  BY <1>2 DEF DailyInv, DaysAreOrdered, Day
<1>4. /\ DOMAIN call' = Calls
      /\ \A d \in Calls \ {c} : call'[d] = call[d]
  BY <1>1, <1>2
<1>5. /\ call'[c].at = call[c].at /\ call'[c].user = call[c].user
      /\ call'[c].cmd = call[c].cmd /\ call'[c].now = clock
  BY <1>1, <1>2 DEF Running
<1>6. CallsHoldLocks'
  <2> SUFFICES ASSUME NEW d \in Calls
               PROVE  /\ call'[d].at \in {"running", "seen"} => call'[d].user \in Users
                      /\ call'[d].at = "running" /\ call'[d].cmd \notin ReadOnly =>
                            call'[d].user \in overrun' \/ lock'[call'[d].user].holder = d
                      /\ call'[d].at = "running" /\ call'[d].cmd = "daily" =>
                            /\ call'[d].now \in Nat /\ call'[d].now <= clock'
                            /\ \/ call'[d].user \in overrun'
                               \/ users'[call'[d].user].last_claim <= Day(call'[d].now)
    BY <1>1, <1>2, <1>4 DEF CallsHoldLocks, Runs
  <2>1. CASE d = c
    BY <1>1, <1>2, <1>5, <2>1 DEF DailyInv, CallsHoldLocks, Runs
  <2>2. CASE d # c
    BY <1>2, <1>4, <2>2 DEF DailyInv, CallsHoldLocks, Runs
  <2> QED BY <2>1, <2>2
<1> QED BY <1>1, <1>2, <1>3, <1>6 DEF DailyInv

\* No other command of a player who was not overrun is at the database.
LEMMA OneWithLock ==
    ASSUME DailyInv, NEW c \in Calls, NEW d \in Calls, call[c].user \notin overrun,
           Runs(c, "daily"), Runs(d, "daily"), call[c].user = call[d].user
    PROVE  c = d
<1>1. "daily" \notin ReadOnly
  BY DEF ReadOnly
<1>2. lock[call[c].user].holder = c /\ lock[call[d].user].holder = d
  BY <1>1 DEF DailyInv, CallsHoldLocks, Runs
<1> QED BY <1>2

\* /daily pays a day that is later than the last that was paid.
LEMMA DailyKeeps ==
    ASSUME DailyInv, NEW c \in Calls, ClaimDailyReward(c)
    PROVE  DailyInv'
<1> DEFINE u == call[c].user
           today == Day(call[c].now)
           row == [users[u] EXCEPT !.last_claim = today, !.balance = @ + 1]
<1>0. Runs(c, "daily") /\ call[c].at = "running"
  BY DEF ClaimDailyReward, Runs
<1>1. u \in Users /\ "last_claim" \in DOMAIN users[u] /\ DOMAIN users = Users
      /\ DOMAIN call = Calls
  BY <1>0 DEF DailyInv, DaysAreOrdered, CallsHoldLocks
<1>2. CASE Commits(c, users[u]) /\ dailies' = dailies
  BY <1>0, <1>1, <1>2, CommitKeeps
<1>3. CASE /\ Unclaimed(users[u], today)
           /\ Commits(c, row)
           /\ dailies' = [dailies EXCEPT ![u][today] = @ + 1]
  <2>1. /\ call[c].now \in Nat /\ call[c].now <= clock
        /\ u \in overrun \/ users[u].last_claim <= today
        /\ users[u].last_claim # today
    BY <1>0, <1>3 DEF DailyInv, CallsHoldLocks, Unclaimed
  <2>2. /\ users' = [users EXCEPT ![u] = row]
        /\ call' = [call EXCEPT ![c] = Replying(u)]
        /\ clock' = clock /\ lock' = lock /\ overrun' = overrun
    BY <1>3 DEF Commits, lockVars
  <2>3. "last_claim" \in DOMAIN row /\ row.last_claim = today
    BY <1>1
  <2> HIDE DEF row
  <2>4. /\ DOMAIN users' = Users /\ users'[u] = row
        /\ \A v \in Users \ {u} : users'[v] = users[v]
    BY <1>1, <2>2
  <2>5. today \in Nat /\ Day(clock) \in Nat /\ today <= Day(clock)
    BY <2>1, DaysGoOn DEF DailyInv
  <2> HIDE DEF today
  <2>6. /\ dailies \in [Users -> [Days -> Nat]]
        /\ \A d \in Days : d \in Int
        /\ \A d \in Days : u \notin overrun =>
              dailies[u][d] <= 1 /\ (dailies[u][d] = 1 => d <= users[u].last_claim)
        /\ users[u].last_claim \in Int
    BY <1>1 DEF DailyInv, DaysAreOrdered, Days
  <2>7. /\ dailies' \in [Users -> [Days -> Nat]]
        /\ \A v \in Users \ {u} : dailies'[v] = dailies[v]
        /\ \A d \in Days : dailies'[u][d] = IF d = today THEN dailies[u][d] + 1 ELSE dailies[u][d]
    <3> DEFINE old == dailies[u]
               new == [old EXCEPT ![today] = old[today] + 1]
    <3>1. dailies' = [dailies EXCEPT ![u] = new] /\ u \in Users
      BY <1>1, <1>3
    <3>2. old \in [Days -> Nat]
      BY <1>1, <2>6
    <3> HIDE DEF old
    <3>3. /\ new \in [Days -> Nat]
          /\ \A d \in Days : new[d] = IF d = today THEN old[d] + 1 ELSE old[d]
      <4> DEFINE more == old[today] + 1
      <4>1. DOMAIN new = Days /\ \A d \in Days : new[d] = IF d = today THEN more ELSE old[d]
        <5> HIDE DEF more
        <5>1. new = [old EXCEPT ![today] = more]
          BY DEF more
        <5> HIDE DEF new
        <5> QED BY <3>2, <5>1
      <4>2. today \in Days => more \in Nat
        BY <3>2
      <4>3. new = [d \in Days |-> IF d = today THEN more ELSE old[d]]
        BY <3>2
      <4> HIDE DEF more, new
      <4>4. \A d \in Days : new[d] \in Nat
        BY <3>2, <4>1, <4>2
      <4>5. new \in [Days -> Nat]
        BY <4>3, <4>1, <4>4
      <4> QED BY <4>1, <4>5 DEF more
    <3> HIDE DEF u, new
    <3>4. /\ dailies' \in [Users -> [Days -> Nat]] /\ dailies'[u] = new
          /\ \A v \in Users \ {u} : dailies'[v] = dailies[v]
      BY <2>6, <3>1, <3>3
    <3> QED BY <3>3, <3>4 DEF old
  <2>8. ASSUME NEW d \in Days, u \notin overrun
        PROVE  dailies'[u][d] <= 1 /\ (dailies'[u][d] = 1 => d <= today)
    <3>0. dailies[u][d] <= 1 /\ (dailies[u][d] = 1 => d <= users[u].last_claim)
      <4> HIDE DEF u
      <4> QED BY <2>6, <2>8
    <3>1. CASE d = today
      <4>1. dailies[u][d] = 0
        <5>1. dailies[u][d] \in Nat
          BY <1>1, <2>6
        <5>2. ~(d <= users[u].last_claim)
          BY <2>1, <2>5, <2>6, <2>8, <3>1
        <5>3. dailies[u][d] <= 1 /\ dailies[u][d] # 1
          BY <3>0, <5>2
        <5> HIDE DEF u
        <5> QED BY <5>1, <5>3
      <4> QED BY <2>5, <2>7, <3>1, <4>1
    <3>2. CASE d # today
      <4>1. dailies'[u][d] = dailies[u][d]
        BY <2>7, <3>2
      <4> QED BY <2>1, <2>5, <2>6, <2>8, <3>0, <4>1
    <3> QED BY <3>1, <3>2
  <2>9. DaysAreOrdered'
    <3> SUFFICES ASSUME NEW v \in Users
                 PROVE  /\ "last_claim" \in DOMAIN users'[v]
                        /\ users'[v].last_claim \in Int /\ users'[v].last_claim <= Day(clock)
                        /\ v \notin overrun => \A d \in Days :
                            /\ dailies'[v][d] <= 1
                            /\ dailies'[v][d] = 1 => d <= users'[v].last_claim
      BY <2>2, <2>4, <2>7 DEF DaysAreOrdered, Day
    <3>1. CASE v = u
      BY <2>3, <2>4, <2>5, <2>8, <3>1
    <3>2. CASE v # u
      BY <2>4, <2>7, <3>2 DEF DailyInv, DaysAreOrdered
    <3> QED BY <3>1, <3>2
  <2>10. CallsHoldLocks'
    <3>1. \A d \in Calls : call'[d] = IF d = c THEN Replying(u) ELSE call[d]
      BY <1>1, <2>2
    <3>2. Replying(u).at = "replying"
      BY DEF Replying
    <3>3. ASSUME NEW d \in Calls, d # c, Runs(d, "daily"), call[d].user \notin overrun
          PROVE  users'[call[d].user] = users[call[d].user]
      <4>1. call[d].user \in Users /\ call[d].user # u
        BY <1>0, <3>3, OneWithLock DEF DailyInv, CallsHoldLocks, Runs
      <4> QED BY <2>4, <4>1
    <3>4. DOMAIN call' = Calls /\ lock' \in LockType /\ clock' = clock
          /\ overrun' \subseteq Users
      BY <1>1, <2>2 DEF DailyInv, CallsHoldLocks
    <3> HIDE DEF u
    <3> SUFFICES ASSUME NEW d \in Calls
                 PROVE  /\ call'[d].at \in {"running", "seen"} => call'[d].user \in Users
                        /\ call'[d].at = "running" /\ call'[d].cmd \notin ReadOnly =>
                              call'[d].user \in overrun' \/ lock'[call'[d].user].holder = d
                        /\ call'[d].at = "running" /\ call'[d].cmd = "daily" =>
                              /\ call'[d].now \in Nat /\ call'[d].now <= clock'
                              /\ \/ call'[d].user \in overrun'
                                 \/ users'[call'[d].user].last_claim <= Day(call'[d].now)
      BY <3>4 DEF CallsHoldLocks, Runs
    <3>5. CASE d = c
      BY <3>1, <3>2, <3>5
    <3>6. CASE d # c
      <4>1. call'[d] = call[d]
        BY <3>1, <3>6
      <4> QED BY <2>2, <3>3, <3>6, <4>1 DEF DailyInv, CallsHoldLocks, Runs
    <3> QED BY <3>5, <3>6
  <2> QED BY <2>2, <2>9, <2>10 DEF DailyInv
<1> QED BY <1>2, <1>3 DEF ClaimDailyReward

\* The steps of the lock and of the clock.
LEMMA StartKeeps ==
    ASSUME DailyInv, NEW c \in Calls, NEW u \in Players, NEW cmd \in Commands, Start(c, u, cmd)
    PROVE  DailyInv'
<1>1. /\ DOMAIN call = Calls /\ lock \in LockType /\ clock \in Nat /\ u \in Users
      /\ users[u].last_claim <= Day(clock)
  BY DEF DailyInv, DaysAreOrdered, CallsHoldLocks
<1>2. /\ call' = [call EXCEPT ![c] = Running(u, cmd)]
      /\ IF cmd \in ReadOnly THEN UNCHANGED <<lock, overrun>>
         ELSE Admits(u) /\ Take(u, c, Working)
      /\ UNCHANGED <<clock, users, dailies>>
  BY DEF Start, lockVars
<1>3. /\ Running(u, cmd).at = "running" /\ Running(u, cmd).user = u
      /\ Running(u, cmd).cmd = cmd /\ Running(u, cmd).now = clock
  BY DEF Running
<1>4. overrun \subseteq overrun'
  BY <1>2 DEF Take
<1>5. /\ \A d \in Calls : call'[d] = IF d = c THEN Running(u, cmd) ELSE call[d]
      /\ DOMAIN call' = Calls
  BY <1>1, <1>2
<1>6. /\ lock' \in LockType
      /\ cmd \notin ReadOnly => lock'[u].holder = c
  <2>1. CASE cmd \in ReadOnly
    BY <1>1, <1>2, <2>1
  <2>2. CASE cmd \notin ReadOnly
    <3>1. lock' = [lock EXCEPT ![u] = [holder |-> c, stale |-> FALSE]]
      BY <1>2, <2>2 DEF Take
    <3> QED BY <1>1, <3>1 DEF LockType
  <2> QED BY <2>1, <2>2
<1>7. ASSUME NEW v \in Users, NEW d \in Calls, lock[v].holder = d, call[d].at = "running"
      PROVE  v \in overrun' \/ lock'[v].holder = d
  <2>1. CASE lock' = lock
    BY <1>7, <2>1
  <2>2. CASE Take(u, c, Working)
    <3>1. d \in Working
      BY <1>7 DEF Working
    <3>2. CASE v = u
      BY <1>7, <2>2, <3>1, <3>2 DEF Take
    <3>3. CASE v # u
      BY <1>1, <1>7, <2>2, <3>3 DEF Take, LockType
    <3> QED BY <3>2, <3>3
  <2> QED BY <1>2, <2>1, <2>2
<1>8. DaysAreOrdered' /\ overrun' \subseteq Users
  BY <1>1, <1>2, <1>4 DEF DailyInv, DaysAreOrdered, CallsHoldLocks, Take, Day
<1>9. CallsHoldLocks'
  <2> SUFFICES ASSUME NEW d \in Calls
               PROVE  /\ call'[d].at \in {"running", "seen"} => call'[d].user \in Users
                      /\ call'[d].at = "running" /\ call'[d].cmd \notin ReadOnly =>
                            call'[d].user \in overrun' \/ lock'[call'[d].user].holder = d
                      /\ call'[d].at = "running" /\ call'[d].cmd = "daily" =>
                            /\ call'[d].now \in Nat /\ call'[d].now <= clock'
                            /\ \/ call'[d].user \in overrun'
                               \/ users'[call'[d].user].last_claim <= Day(call'[d].now)
    BY <1>5, <1>6, <1>8 DEF CallsHoldLocks, Runs
  <2>1. CASE d = c
    BY <1>1, <1>2, <1>3, <1>5, <1>6, <2>1
  <2>2. CASE d # c
    <3>1. call'[d] = call[d] /\ users' = users /\ clock' = clock
      BY <1>2, <1>5, <2>2
    <3> QED BY <1>4, <1>7, <3>1 DEF DailyInv, CallsHoldLocks, Runs
  <2> QED BY <2>1, <2>2
<1> QED BY <1>1, <1>2, <1>8, <1>9 DEF DailyInv

\* The lock is given back by its holder, or grows stale.
LEMMA LockKeeps ==
    ASSUME DailyInv,
           (\E c \in Calls : EndCommand(c)) \/ (\E u \in Players : CommandHangs(u))
    PROVE  DailyInv'
<1>1. DOMAIN call = Calls /\ lock \in LockType
  BY DEF DailyInv, CallsHoldLocks
<1>2. UNCHANGED <<clock, users, dailies, overrun>>
  BY DEF EndCommand, Release, CommandHangs, Outlive
<1>3. DaysAreOrdered'
  BY <1>2 DEF DailyInv, DaysAreOrdered, Day
<1>4. /\ DOMAIN call' = Calls /\ lock' \in LockType
      /\ \A d \in Calls : call'[d] = call[d] \/ call'[d].at = "idle"
      /\ \A v \in Users, d \in Calls :
            lock[v].holder = d /\ call[d].at = "running" => lock'[v].holder = d
  <2>1. ASSUME NEW c \in Calls, EndCommand(c)
        PROVE  <1>4!:
    <3>1. /\ call' = [call EXCEPT ![c] = Idle] /\ call[c].at = "replying"
          /\ lock' = [lock EXCEPT ![call[c].user] = IF @.holder = c THEN Free ELSE @]
      BY <2>1 DEF EndCommand, Release
    <3>2. DOMAIN call' = Calls /\ lock' \in LockType
      BY <1>1, <3>1 DEF LockType, Free
    <3>3. \A d \in Calls : call'[d] = call[d] \/ call'[d].at = "idle"
      BY <1>1, <3>1 DEF Idle
    <3>4. ASSUME NEW v \in Users, NEW d \in Calls, lock[v].holder = d, call[d].at = "running"
          PROVE  lock'[v].holder = d
      <4>1. lock[v].holder # c
        BY <3>1, <3>4
      <4> QED BY <1>1, <3>1, <3>4, <4>1 DEF LockType
    <3> QED BY <3>2, <3>3, <3>4
  <2>2. ASSUME NEW u \in Players, CommandHangs(u)
        PROVE  <1>4!:
    <3>1. lock' = [lock EXCEPT ![u].stale = TRUE] /\ call' = call /\ u \in Users
      BY <2>2 DEF CommandHangs, Outlive
    <3>2. lock' \in LockType /\ \A v \in Users : lock'[v].holder = lock[v].holder
      BY <1>1, <3>1 DEF LockType
    <3> QED BY <1>1, <3>1, <3>2
  <2> QED BY <2>1, <2>2
<1>5. CallsHoldLocks'
  BY <1>2, <1>4 DEF DailyInv, CallsHoldLocks, Runs, Day
<1> QED BY <1>2, <1>3, <1>5 DEF DailyInv

(***************************************************************************)
(* The tasks of the messages.                                              *)
(***************************************************************************)
LEMMA TasksAreFinite ==
    ASSUME NEW u PROVE IsFiniteSet(Tasks(u)) /\ Cardinality(Tasks(u)) \in Nat
<1>1. Tasks(u) \in SUBSET Messages
  BY DEF Tasks
<1>2. IsFiniteSet(Tasks(u))
  BY <1>1, FS_Subset
<1> QED BY <1>2, FS_CardinalityType

\* Only the task of message m moves.
Moves(m) == DOMAIN msg' = Messages /\ \A o \in Messages \ {m} : msg'[o] = msg[o]

\* A task moves on inside the lock, or into it.
LEMMA StayKeeps ==
    ASSUME ChatTables, EntriesOutlive, NEW m \in Messages, Moves(m), entry' = entry,
           msg[m].at # "none", msg'[m].at \in {"exp", "count"},
           msg'[m].user = msg[m].user, msg'[m].lk = msg[m].lk,
           \A o \in Messages \ {m} : Inside(o) => msg[o].user # msg[m].user
    PROVE  EntriesOutlive'
<1>1. \A o \in Messages : /\ msg'[o].at # "none" <=> msg[o].at # "none"
                          /\ msg'[o].user = msg[o].user \/ msg[o].at = "none"
  BY DEF Moves
<1>2. ASSUME NEW u \in Users PROVE Tasks(u)' = Tasks(u)
  BY <1>1 DEF Tasks, Moves
<1>3. \A u \in Users : entry'[u].users = Cardinality(Tasks(u)')
  BY <1>2 DEF EntriesOutlive
<1>4. \A o \in Messages :
        /\ msg'[o].at \in {"none", "waiting", "exp", "count"}
        /\ msg'[o].at # "none" =>
              /\ msg'[o].user \in Users /\ msg'[o].lk = entry'[msg'[o].user].lk
              /\ msg'[o].lk # NoLock
  BY DEF EntriesOutlive, Moves
<1>5. \A o, q \in Messages :
        Inside(o)' /\ Inside(q)' /\ msg'[o].user = msg'[q].user => o = q
  BY DEF EntriesOutlive, Moves, Inside
<1> QED BY <1>3, <1>4, <1>5 DEF EntriesOutlive

\* A task leaves; the last one drops the entry.
LEMMA LeaveKeeps ==
    ASSUME ChatTables, EntriesOutlive, NEW m \in Messages, msg[m].at # "none",
           NEW u, u = msg[m].user, Leave(u), msg' = [msg EXCEPT ![m] = None]
    PROVE  /\ EntriesOutlive' /\ Moves(m) /\ msg'[m].at = "none"
           /\ entry' \in [Users -> [lk: Nat, users: Nat]]
<1>1. u \in Users /\ DOMAIN msg = Messages /\ entry \in [Users -> [lk: Nat, users: Nat]]
      /\ entry[u].users = Cardinality(Tasks(u))
  BY DEF ChatTables, EntriesOutlive
<1>2. Moves(m) /\ msg'[m].at = "none"
  BY <1>1 DEF Moves, None
<1>3. m \in Tasks(u)
  BY DEF Tasks
<1>4. /\ Cardinality(Tasks(u) \ {m}) = Cardinality(Tasks(u)) - 1
      /\ Cardinality(Tasks(u) \ {m}) \in Nat
  <2>1. IsFiniteSet(Tasks(u) \ {m})
    BY TasksAreFinite, FS_RemoveElement
  <2> QED BY <1>3, <2>1, TasksAreFinite, FS_RemoveElement, FS_CardinalityType
<1>5. /\ entry' \in [Users -> [lk: Nat, users: Nat]]
      /\ entry'[u].users = Cardinality(Tasks(u)) - 1
      /\ entry'[u].lk = IF entry[u].users = 1 THEN NoLock ELSE entry[u].lk
      /\ \A v \in Users \ {u} : entry'[v] = entry[v]
  <2> DEFINE new == [lk |-> IF entry[u].users = 1 THEN NoLock ELSE entry[u].lk,
                     users |-> entry[u].users - 1]
  <2>1. entry' = [entry EXCEPT ![u] = new]
    BY DEF Leave
  <2>2. new \in [lk: Nat, users: Nat] /\ new.users = entry[u].users - 1
        /\ new.lk = IF entry[u].users = 1 THEN NoLock ELSE entry[u].lk
    <3>1. entry[u].lk \in Nat /\ entry[u].users - 1 \in Nat /\ NoLock \in Nat
      BY <1>1, <1>4 DEF NoLock
    <3> QED BY <3>1
  <2> HIDE DEF new
  <2> QED BY <1>1, <2>1, <2>2
<1>6. Tasks(u)' = Tasks(u) \ {m}
  BY <1>2 DEF Tasks, Moves
<1>7. \A v \in Users \ {u} : Tasks(v)' = Tasks(v)
  BY <1>2 DEF Tasks, Moves
<1>8. \A v \in Users : entry'[v].users = Cardinality(Tasks(v)')
  <2> SUFFICES ASSUME NEW v \in Users PROVE entry'[v].users = Cardinality(Tasks(v)')
    OBVIOUS
  <2>1. CASE v = u
    BY <1>1, <1>4, <1>5, <1>6, <2>1
  <2>2. CASE v # u
    BY <1>5, <1>7, <2>2 DEF EntriesOutlive
  <2> QED BY <2>1, <2>2
<1>9. ASSUME NEW o \in Messages, o # m, msg[o].at # "none", msg[o].user = u
      PROVE  entry'[u].lk = entry[u].lk
  <2>1. o \in Tasks(u)
    BY <1>9 DEF Tasks
  <2>2. Cardinality(Tasks(u)) # 1
    <3>1. ~ \E x : Tasks(u) = {x}
      BY <1>3, <1>9, <2>1
    <3> QED BY <3>1, TasksAreFinite, FS_Singleton
  <2> QED BY <1>1, <1>5, <2>2
<1>10. \A o \in Messages :
         /\ msg'[o].at \in {"none", "waiting", "exp", "count"}
         /\ msg'[o].at # "none" =>
               /\ msg'[o].user \in Users /\ msg'[o].lk = entry'[msg'[o].user].lk
               /\ msg'[o].lk # NoLock
  <2> SUFFICES ASSUME NEW o \in Messages
               PROVE  /\ msg'[o].at \in {"none", "waiting", "exp", "count"}
                      /\ msg'[o].at # "none" =>
                            /\ msg'[o].user \in Users /\ msg'[o].lk = entry'[msg'[o].user].lk
                            /\ msg'[o].lk # NoLock
    OBVIOUS
  <2>1. CASE o = m
    BY <1>2, <2>1
  <2>2. CASE o # m
    <3>1. msg'[o] = msg[o]
      BY <1>2, <2>2 DEF Moves
    <3>2. msg[o].at # "none" =>
             msg[o].user \in Users /\ entry'[msg[o].user].lk = entry[msg[o].user].lk
      BY <1>5, <1>9, <2>2 DEF EntriesOutlive
    <3> QED BY <3>1, <3>2 DEF EntriesOutlive
  <2> QED BY <2>1, <2>2
<1>11. \A o, q \in Messages :
         Inside(o)' /\ Inside(q)' /\ msg'[o].user = msg'[q].user => o = q
  BY <1>2 DEF EntriesOutlive, Moves, Inside
<1>12. EntriesOutlive'
  BY <1>8, <1>10, <1>11 DEF EntriesOutlive
<1> QED BY <1>2, <1>5, <1>12

\* Nobody else of the player is inside.
LEMMA AloneInside ==
    ASSUME EntriesOutlive, NEW m \in Messages, msg[m].at # "none",
           Inside(m) \/ LockFree(msg[m].user, msg[m].lk)
    PROVE  \A o \in Messages \ {m} : Inside(o) => msg[o].user # msg[m].user
<1> SUFFICES ASSUME NEW o \in Messages \ {m}, Inside(o), msg[o].user = msg[m].user
             PROVE  FALSE
  OBVIOUS
<1>1. CASE Inside(m)
  BY <1>1 DEF EntriesOutlive
<1>2. CASE LockFree(msg[m].user, msg[m].lk)
  <2>1. msg[o].lk = msg[m].lk
    BY DEF EntriesOutlive, Inside
  <2> QED BY <1>2, <2>1 DEF LockFree
<1> QED BY <1>1, <1>2

\* The experience of a player is noted, or not, as before.
LEMMA UnnotedStays ==
    ASSUME NEW m \in Messages, Moves(m), NEW v \in Users,
           exp'[v].last = exp[v].last, gained'[v] = gained[v],
           msg[m].at # "count" \/ msg[m].user # v \/ ~msg[m].due,
           msg'[m].at # "count" \/ msg'[m].user # v \/ ~msg'[m].due
    PROVE  Unnoted(v)' = Unnoted(v)
<1>1. (\E o \in Messages : msg'[o].at = "count" /\ msg'[o].user = v /\ msg'[o].due)
        <=> (\E o \in Messages : msg[o].at = "count" /\ msg[o].user = v /\ msg[o].due)
  BY DEF Moves
<1> QED BY <1>1 DEF Unnoted

\* on_message: a message comes.
LEMMA ArriveKeeps ==
    ASSUME ChatInv, NEW m \in Messages, NEW u \in Players, Arrive(m, u)
    PROVE  ChatInv'
<1> DEFINE fresh == entry[u].lk = NoLock
           lk == IF fresh THEN born[u] + 1 ELSE entry[u].lk
<1>1. /\ u \in Users /\ DOMAIN msg = Messages /\ entry \in [Users -> [lk: Nat, users: Nat]]
      /\ born \in [Users -> Nat] /\ entry[u].users = Cardinality(Tasks(u))
      /\ msg[m].at = "none"
  BY DEF ChatInv, ChatTables, EntriesOutlive, Arrive, None
<1>2. lk \in Nat /\ lk # NoLock
  BY <1>1 DEF NoLock
<1>3. fresh => \A o \in Messages : msg[o].at # "none" => msg[o].user # u
  BY DEF ChatInv, EntriesOutlive
<1>4. ~fresh => lk = entry[u].lk
  OBVIOUS
<1>5. /\ entry' = [entry EXCEPT ![u] = [lk |-> lk, users |-> @.users + 1]]
      /\ born' = [born EXCEPT ![u] = lk]
      /\ msg' = [msg EXCEPT ![m] = Waiting(u, lk)]
      /\ UNCHANGED <<clock, pending, gained, handled, counted, recounted, exp, unsettled>>
  BY DEF Arrive
<1> HIDE DEF lk, fresh
<1>6. /\ entry' \in [Users -> [lk: Nat, users: Nat]]
      /\ entry'[u].lk = lk /\ entry'[u].users = entry[u].users + 1
      /\ \A v \in Users \ {u} : entry'[v] = entry[v]
  <2> DEFINE new == [lk |-> lk, users |-> entry[u].users + 1]
  <2>1. new \in [lk: Nat, users: Nat] /\ new.lk = lk /\ new.users = entry[u].users + 1
    BY <1>1, <1>2
  <2>2. entry' = [entry EXCEPT ![u] = new]
    BY <1>5
  <2> HIDE DEF new
  <2> QED BY <1>1, <2>1, <2>2
<1>7. born' \in [Users -> Nat]
  BY <1>1, <1>2, <1>5
<1>8. Moves(m) /\ msg'[m].at = "waiting" /\ msg'[m].user = u /\ msg'[m].lk = lk
  BY <1>1, <1>5 DEF Moves, Waiting
<1>9. ChatTables'
  BY <1>5, <1>6, <1>7, <1>8 DEF ChatInv, ChatTables, Moves
<1>10. EntriesOutlive'
  <2>1. \A o \in Messages :
          /\ msg'[o].at \in {"none", "waiting", "exp", "count"}
          /\ msg'[o].at # "none" =>
                /\ msg'[o].user \in Users /\ msg'[o].lk = entry'[msg'[o].user].lk
                /\ msg'[o].lk # NoLock
    <3> SUFFICES ASSUME NEW o \in Messages
                 PROVE  /\ msg'[o].at \in {"none", "waiting", "exp", "count"}
                        /\ msg'[o].at # "none" =>
                              /\ msg'[o].user \in Users
                              /\ msg'[o].lk = entry'[msg'[o].user].lk
                              /\ msg'[o].lk # NoLock
      OBVIOUS
    <3>1. CASE o = m
      BY <1>1, <1>2, <1>6, <1>8, <3>1
    <3>2. CASE o # m
      <4>1. msg'[o] = msg[o]
        BY <1>8, <3>2 DEF Moves
      <4>2. msg[o].at # "none" =>
               msg[o].user \in Users /\ entry'[msg[o].user].lk = entry[msg[o].user].lk
        BY <1>3, <1>4, <1>6 DEF ChatInv, EntriesOutlive
      <4> QED BY <4>1, <4>2 DEF ChatInv, EntriesOutlive
    <3> QED BY <3>1, <3>2
  <2>2. \A o, q \in Messages :
          Inside(o)' /\ Inside(q)' /\ msg'[o].user = msg'[q].user => o = q
    BY <1>8 DEF ChatInv, EntriesOutlive, Moves, Inside
  <2>3. ASSUME NEW v \in Users PROVE entry'[v].users = Cardinality(Tasks(v)')
    <3>1. CASE v = u
      <4>1. Tasks(u)' = Tasks(u) \union {m} /\ m \notin Tasks(u)
        BY <1>1, <1>8 DEF Tasks, Moves
      <4>2. Cardinality(Tasks(u) \union {m}) = Cardinality(Tasks(u)) + 1
        BY <4>1, TasksAreFinite, FS_AddElement
      <4> QED BY <1>1, <1>6, <3>1, <4>1, <4>2
    <3>2. CASE v # u
      <4>1. Tasks(v)' = Tasks(v)
        BY <1>1, <1>8, <3>2 DEF Tasks, Moves
      <4> QED BY <1>6, <3>2, <4>1 DEF ChatInv, EntriesOutlive
    <3> QED BY <3>1, <3>2
  <2> QED BY <2>1, <2>2, <2>3 DEF EntriesOutlive
<1>11. TasksAreCurrent'
  BY <1>5, <1>8 DEF ChatInv, TasksAreCurrent, Moves, Inside
<1>12. CountsAgree'
  <2>1. \A v \in Users : Unnoted(v)' = Unnoted(v)
    BY <1>1, <1>5, <1>8, UnnotedStays
  <2> QED BY <1>5, <2>1 DEF ChatInv, CountsAgree
<1> QED BY <1>5, <1>9, <1>10, <1>11, <1>12 DEF ChatInv

\* The task gets the lock and counts its message.
LEMMA EnterKeeps ==
    ASSUME ChatInv, NEW m \in Messages, Enter(m)
    PROVE  ChatInv'
<1>0. PICK u : u = msg[m].user
  OBVIOUS
<1>1. /\ u \in Users /\ DOMAIN msg = Messages /\ msg[m].at = "waiting" /\ msg[m].user = u
      /\ pending \in [Users -> Nat] /\ handled \in [Users -> Nat] /\ gained \in [Users -> Int]
      /\ clock \in Nat
  BY <1>0 DEF Enter, ChatInv, ChatTables, EntriesOutlive
<1>2. \A o \in Messages \ {m} : Inside(o) => msg[o].user # u
  BY <1>1, AloneInside DEF Enter, ChatInv
<1>3. /\ pending' = [pending EXCEPT ![u] = pending[u] + 1]
      /\ handled' = [handled EXCEPT ![u] = handled[u] + 1]
      /\ UNCHANGED <<clock, born, gained, counted, recounted, exp, unsettled>>
  BY <1>1 DEF Enter, claimVars
<1>4. \/ /\ msg' = [msg EXCEPT ![m] = None]
         /\ Leave(u)
      \/ /\ msg' = [msg EXCEPT ![m] = Flushing(u, msg[m].lk, Rested(gained[u]), pending[u] + 1)]
         /\ entry' = entry
  BY <1>1 DEF Enter
<1>5. /\ pending' \in [Users -> Nat] /\ pending'[u] = pending[u] + 1
      /\ handled' \in [Users -> Nat] /\ handled'[u] = handled[u] + 1
      /\ \A v \in Users \ {u} : pending'[v] = pending[v] /\ handled'[v] = handled[v]
  BY <1>1, <1>3
<1>6. ASSUME Moves(m), EntriesOutlive', entry' \in [Users -> [lk: Nat, users: Nat]],
             Inside(m)' => /\ DOMAIN msg'[m] = {"at", "user", "lk", "now", "due", "n"}
                           /\ msg'[m].user = u /\ msg'[m].n = pending[u] + 1
                           /\ msg'[m].now \in Int
                           /\ msg'[m].at = "exp" => msg'[m].due
                           /\ msg'[m].due => msg'[m].now > gained[u]
                           /\ ~(msg'[m].due /\ msg'[m].at = "count")
      PROVE  ChatInv'
  <2>1. ChatTables'
    BY <1>3, <1>5, <1>6 DEF ChatInv, ChatTables, Moves
  <2>2. TasksAreCurrent'
    <3> SUFFICES ASSUME NEW o \in Messages, Inside(o)'
                 PROVE  /\ DOMAIN msg'[o] = {"at", "user", "lk", "now", "due", "n"}
                        /\ msg'[o].n = pending'[msg'[o].user]
                        /\ msg'[o].now \in Int
                        /\ msg'[o].at = "exp" => msg'[o].due
                        /\ msg'[o].due => msg'[o].now > gained'[msg'[o].user]
                        /\ msg'[o].due /\ msg'[o].at = "count" =>
                              exp'[msg'[o].user].last = msg'[o].now
      BY DEF TasksAreCurrent
    <3>1. CASE o = m
      BY <1>3, <1>5, <1>6, <3>1
    <3>2. CASE o # m
      <4>1. msg'[o] = msg[o] /\ Inside(o)
        BY <1>6, <3>2 DEF Moves, Inside
      <4>2. msg[o].user \in Users \ {u}
        BY <1>2, <3>2, <4>1 DEF ChatInv, EntriesOutlive, Inside
      <4>3. pending'[msg[o].user] = pending[msg[o].user]
        BY <1>5, <4>2
      <4> QED BY <1>3, <4>1, <4>3 DEF ChatInv, TasksAreCurrent
    <3> QED BY <3>1, <3>2
  <2>3. \A v \in Users : Unnoted(v)' = Unnoted(v)
    BY <1>1, <1>3, <1>6, UnnotedStays DEF Inside
  <2>4. CountsAgree'
    <3> SUFFICES ASSUME NEW v \in Users
                 PROVE  /\ counted'[v] + pending'[v] = handled'[v] + recounted'[v]
                        /\ exp'[v].early + Unnoted(v)' <= unsettled'[v]
      BY DEF CountsAgree
    <3>1. exp'[v].early + Unnoted(v)' <= unsettled'[v]
      BY <1>3, <2>3 DEF ChatInv, CountsAgree
    <3>2. counted[v] + pending[v] = handled[v] + recounted[v]
          /\ {counted[v], pending[v], handled[v], recounted[v]} \subseteq Nat
      BY DEF ChatInv, CountsAgree, ChatTables
    <3>3. counted'[v] + pending'[v] = handled'[v] + recounted'[v]
      BY <1>3, <1>5, <3>2
    <3> QED BY <3>1, <3>3
  <2> QED BY <1>1, <1>3, <1>6, <2>1, <2>2, <2>4 DEF ChatInv
<1>7. CASE msg' = [msg EXCEPT ![m] = None] /\ Leave(u)
  <2>1. EntriesOutlive' /\ Moves(m) /\ msg'[m].at = "none"
        /\ entry' \in [Users -> [lk: Nat, users: Nat]]
    BY <1>1, <1>7, LeaveKeeps DEF ChatInv
  <2>2. ~Inside(m)'
    BY <2>1 DEF Inside
  <2> QED BY <1>6, <2>1, <2>2
<1>8. CASE /\ msg' = [msg EXCEPT
                        ![m] = Flushing(u, msg[m].lk, Rested(gained[u]), pending[u] + 1)]
           /\ entry' = entry
  <2> DEFINE rested == Rested(gained[u])
             new == Flushing(u, msg[m].lk, rested, pending[u] + 1)
  <2>1. rested => clock > gained[u]
    BY <1>1 DEF Rested, Never
  <2> HIDE DEF rested
  <2>2. /\ DOMAIN new = {"at", "user", "lk", "now", "due", "n"}
        /\ new.at = (IF rested THEN "exp" ELSE "count") /\ new.user = u /\ new.lk = msg[m].lk
        /\ new.now = clock /\ new.due = rested /\ new.n = pending[u] + 1
    BY DEF Flushing
  <2>3. msg' = [msg EXCEPT ![m] = new]
    BY <1>8 DEF rested
  <2> HIDE DEF new
  <2>4. Moves(m) /\ msg'[m] = new
    BY <1>1, <2>3 DEF Moves
  <2>5. new.at \in {"exp", "count"} /\ (new.at = "exp" <=> rested)
    BY <2>2
  <2>6. EntriesOutlive'
    BY <1>1, <1>2, <1>8, <2>2, <2>4, <2>5, StayKeeps DEF ChatInv
  <2>7. /\ new.at = "exp" => new.due
        /\ new.due => new.now > gained[u]
        /\ ~(new.due /\ new.at = "count")
    BY <2>1, <2>2, <2>5
  <2>8. entry' \in [Users -> [lk: Nat, users: Nat]]
    BY <1>8 DEF ChatInv, ChatTables
  <2> QED BY <1>1, <1>6, <2>2, <2>4, <2>6, <2>7, <2>8
<1> QED BY <1>4, <1>7, <1>8

\* The numbers of every player agree, if they do for the player whose task
\* moves and the numbers of the others stay.
LEMMA CountsKept ==
    ASSUME ChatInv, NEW m \in Messages, Moves(m), NEW u \in Users,
           msg[m].user = u, msg'[m].at = "none" \/ msg'[m].user = u,
           \A v \in Users \ {u} :
               /\ counted'[v] = counted[v] /\ pending'[v] = pending[v]
               /\ handled'[v] = handled[v] /\ recounted'[v] = recounted[v]
               /\ exp'[v] = exp[v] /\ gained'[v] = gained[v] /\ unsettled'[v] = unsettled[v],
           counted'[u] + pending'[u] = handled'[u] + recounted'[u],
           exp'[u].early + Unnoted(u)' <= unsettled'[u]
    PROVE  CountsAgree'
<1> SUFFICES ASSUME NEW v \in Users
             PROVE  /\ counted'[v] + pending'[v] = handled'[v] + recounted'[v]
                    /\ exp'[v].early + Unnoted(v)' <= unsettled'[v]
  BY DEF CountsAgree
<1>1. CASE v = u
  BY <1>1
<1>2. CASE v # u
  <2>1. Unnoted(v)' = Unnoted(v)
    BY <1>2, UnnotedStays
  <2> QED BY <1>2, <2>1 DEF ChatInv, CountsAgree
<1> QED BY <1>1, <1>2

\* The tasks of the others carry their numbers on.
LEMMA OthersAreCurrent ==
    ASSUME ChatInv, NEW m \in Messages, Moves(m), NEW u \in Users,
           msg[m].user = u, Inside(m),
           \A v \in Users \ {u} :
               pending'[v] = pending[v] /\ exp'[v] = exp[v] /\ gained'[v] = gained[v],
           Inside(m)' =>
               /\ DOMAIN msg'[m] = {"at", "user", "lk", "now", "due", "n"}
               /\ msg'[m].user = u /\ msg'[m].n = pending'[u]
               /\ msg'[m].now \in Int
               /\ msg'[m].at = "exp" => msg'[m].due
               /\ msg'[m].due => msg'[m].now > gained'[u]
               /\ msg'[m].due /\ msg'[m].at = "count" => exp'[u].last = msg'[m].now
    PROVE  TasksAreCurrent'
<1> SUFFICES ASSUME NEW o \in Messages, Inside(o)'
             PROVE  /\ DOMAIN msg'[o] = {"at", "user", "lk", "now", "due", "n"}
                    /\ msg'[o].n = pending'[msg'[o].user]
                    /\ msg'[o].now \in Int
                    /\ msg'[o].at = "exp" => msg'[o].due
                    /\ msg'[o].due => msg'[o].now > gained'[msg'[o].user]
                    /\ msg'[o].due /\ msg'[o].at = "count" =>
                          exp'[msg'[o].user].last = msg'[o].now
  BY DEF TasksAreCurrent
<1>1. CASE o = m
  BY <1>1
<1>2. CASE o # m
  <2>1. msg'[o] = msg[o] /\ Inside(o)
    BY <1>2 DEF Moves, Inside
  <2>2. msg[o].user \in Users \ {u}
    BY <1>2, <2>1, AloneInside DEF ChatInv, EntriesOutlive, Inside
  <2> QED BY <2>1, <2>2 DEF ChatInv, TasksAreCurrent
<1> QED BY <1>1, <1>2

\* Experience that is given too early is owed to a task that failed: what it
\* had been given was not noted, or its cooldown would still run.
LEMMA EarlyIsOwed ==
    ASSUME ChatInv, NEW m \in Messages, msg[m].at = "exp", NEW u, u = msg[m].user,
           AddUserExp(u, msg[m].now)
    PROVE  /\ exp' \in [Users -> [last: Int, early: Nat]]
           /\ exp'[u].last = msg[m].now /\ exp'[u].early <= unsettled[u]
           /\ \A v \in Users \ {u} : exp'[v] = exp[v]
<1> DEFINE early == IF exp[u].last = Never \/ msg[m].now > exp[u].last
                    THEN exp[u].early ELSE exp[u].early + 1
           new == [last |-> msg[m].now, early |-> early]
<1>1. Inside(m) /\ u \in Users /\ msg[m].user = u
  BY DEF ChatInv, EntriesOutlive, Inside
<1>2. msg[m].now \in Int /\ msg[m].now > gained[u]
  BY <1>1 DEF ChatInv, TasksAreCurrent
<1>3. /\ exp \in [Users -> [last: Int, early: Nat]] /\ gained \in [Users -> Int]
      /\ unsettled[u] \in Nat /\ exp[u].last \in Int /\ exp[u].early \in Nat
  BY <1>1 DEF ChatInv, ChatTables
<1>4. exp' = [exp EXCEPT ![u] = new]
  BY DEF AddUserExp
<1>5. new \in [last: Int, early: Nat] /\ new.last = msg[m].now /\ new.early = early
  BY <1>2, <1>3
<1>6. early <= unsettled[u]
  <2>1. exp[u].early + Unnoted(u) <= unsettled[u] /\ Unnoted(u) \in {0, 1}
    BY <1>1 DEF ChatInv, CountsAgree, Unnoted
  <2>2. CASE exp[u].last = Never \/ msg[m].now > exp[u].last
    BY <1>3, <2>1, <2>2
  <2>3. CASE ~(exp[u].last = Never \/ msg[m].now > exp[u].last)
    <3>1. exp[u].last > gained[u]
      <4>1. gained[u] \in Int
        BY <1>1, <1>3
      <4> QED BY <1>2, <1>3, <2>3, <4>1
    <3>2. ~ \E o \in Messages : msg[o].at = "count" /\ msg[o].user = u /\ msg[o].due
      BY <1>1, AloneInside DEF ChatInv, Inside
    <3>3. Unnoted(u) = 1
      BY <3>1, <3>2 DEF Unnoted
    <3> QED BY <1>3, <2>1, <2>3, <3>3
  <2> QED BY <2>2, <2>3
<1> HIDE DEF new, early
<1> QED BY <1>1, <1>3, <1>4, <1>5, <1>6

\* The experience is committed.
LEMMA AwardKeeps ==
    ASSUME ChatInv, NEW m \in Messages, AwardExp(m)
    PROVE  ChatInv'
<1>0. PICK u : u = msg[m].user
  OBVIOUS
<1>1. /\ msg[m].at = "exp" /\ Inside(m) /\ u \in Users /\ msg[m].user = u
      /\ DOMAIN msg = Messages
  BY <1>0 DEF AwardExp, ChatInv, ChatTables, EntriesOutlive, Inside
<1>2. /\ DOMAIN msg[m] = {"at", "user", "lk", "now", "due", "n"}
      /\ msg[m].n = pending[u] /\ msg[m].now \in Int /\ msg[m].due /\ msg[m].now > gained[u]
  BY <1>1 DEF ChatInv, TasksAreCurrent
<1>4. /\ AddUserExp(u, msg[m].now)
      /\ msg' = [msg EXCEPT ![m].at = "count"]
      /\ UNCHANGED <<clock, entry, born, pending, gained, handled, counted, recounted, unsettled>>
  BY <1>1 DEF AwardExp
<1>6. /\ exp' \in [Users -> [last: Int, early: Nat]]
      /\ exp'[u].last = msg[m].now /\ exp'[u].early <= unsettled[u]
      /\ \A v \in Users \ {u} : exp'[v] = exp[v]
  BY <1>1, <1>4, EarlyIsOwed
<1>7. /\ Moves(m) /\ msg'[m].at = "count" /\ msg'[m].user = u /\ msg'[m].lk = msg[m].lk
      /\ msg'[m].due = msg[m].due /\ msg'[m].now = msg[m].now /\ msg'[m].n = msg[m].n
      /\ DOMAIN msg'[m] = {"at", "user", "lk", "now", "due", "n"}
  BY <1>1, <1>2, <1>4 DEF Moves
<1>8. ChatTables'
  BY <1>4, <1>6, <1>7 DEF ChatInv, ChatTables, Moves
<1>9. EntriesOutlive'
  <2>1. \A o \in Messages \ {m} : Inside(o) => msg[o].user # msg[m].user
    BY <1>1, AloneInside DEF ChatInv
  <2> QED BY <1>1, <1>4, <1>7, <2>1, StayKeeps DEF ChatInv
<1>10. TasksAreCurrent'
  BY <1>1, <1>2, <1>4, <1>6, <1>7, OthersAreCurrent
<1>11. CountsAgree'
  <2>1. Unnoted(u)' = 0
    BY <1>1, <1>2, <1>7 DEF Unnoted
  <2>2. counted[u] + pending[u] = handled[u] + recounted[u]
    BY <1>1 DEF ChatInv, CountsAgree
  <2>3. exp'[u].early \in Nat
    BY <1>1, <1>6
  <2>4. exp'[u].early + Unnoted(u)' <= unsettled'[u]
    BY <1>4, <1>6, <2>1, <2>3
  <2> QED BY <1>1, <1>4, <1>6, <1>7, <2>2, <2>4, CountsKept
<1> QED BY <1>4, <1>8, <1>9, <1>10, <1>11 DEF ChatInv

\* The count is committed and noted.
LEMMA FlushKeeps ==
    ASSUME ChatInv, NEW m \in Messages, Flush(m)
    PROVE  ChatInv'
<1>0. PICK u : u = msg[m].user
  OBVIOUS
<1>1. /\ msg[m].at = "count" /\ Inside(m) /\ u \in Users /\ msg[m].user = u
      /\ DOMAIN msg = Messages
  BY <1>0 DEF Flush, ChatInv, ChatTables, EntriesOutlive, Inside
<1>2. /\ msg[m].n = pending[u] /\ msg[m].now \in Int
      /\ msg[m].due => msg[m].now > gained[u] /\ exp[u].last = msg[m].now
  BY <1>1 DEF ChatInv, TasksAreCurrent
<1>3. /\ {pending, counted, handled, recounted, unsettled} \subseteq [Users -> Nat]
      /\ gained \in [Users -> Int] /\ exp[u].early \in Nat /\ exp[u].last \in Int
  BY <1>1 DEF ChatInv, ChatTables
<1>4. /\ counted' = [counted EXCEPT ![u] = counted[u] + msg[m].n]
      /\ pending' = [pending EXCEPT ![u] = 0]
      /\ gained' = [gained EXCEPT ![u] = IF msg[m].due THEN msg[m].now ELSE gained[u]]
      /\ Leave(u) /\ msg' = [msg EXCEPT ![m] = None]
      /\ UNCHANGED <<clock, born, handled, recounted, exp, unsettled>>
  BY <1>1 DEF Flush, CountMessages
<1>5. /\ counted' \in [Users -> Nat] /\ counted'[u] = counted[u] + pending[u]
      /\ pending' \in [Users -> Nat] /\ pending'[u] = 0
      /\ \A v \in Users \ {u} : counted'[v] = counted[v] /\ pending'[v] = pending[v]
  BY <1>1, <1>2, <1>3, <1>4
<1>6. /\ gained' \in [Users -> Int]
      /\ gained'[u] = IF msg[m].due THEN msg[m].now ELSE gained[u]
      /\ \A v \in Users \ {u} : gained'[v] = gained[v]
  <2> DEFINE new == IF msg[m].due THEN msg[m].now ELSE gained[u]
  <2>1. new \in Int /\ gained' = [gained EXCEPT ![u] = new]
    BY <1>1, <1>2, <1>3, <1>4
  <2> HIDE DEF new
  <2>2. /\ gained' \in [Users -> Int] /\ gained'[u] = new
        /\ \A v \in Users \ {u} : gained'[v] = gained[v]
    BY <1>1, <1>3, <2>1
  <2> QED BY <2>2 DEF new
<1>7. EntriesOutlive' /\ Moves(m) /\ msg'[m].at = "none"
      /\ entry' \in [Users -> [lk: Nat, users: Nat]]
  BY <1>1, <1>4, LeaveKeeps DEF ChatInv
<1>8. ChatTables'
  BY <1>4, <1>5, <1>6, <1>7 DEF ChatInv, ChatTables, Moves
<1>9. TasksAreCurrent'
  <2>1. ~Inside(m)'
    BY <1>7 DEF Inside
  <2> QED BY <1>1, <1>4, <1>5, <1>6, <1>7, <2>1, OthersAreCurrent
<1>10. CountsAgree'
  <2>1. exp[u].early + Unnoted(u) <= unsettled[u] /\ Unnoted(u) \in {0, 1}
        /\ counted[u] + pending[u] = handled[u] + recounted[u]
    BY <1>1 DEF ChatInv, CountsAgree, Unnoted
  <2>2. Unnoted(u)' <= Unnoted(u) /\ Unnoted(u)' \in {0, 1}
    <3>1. CASE msg[m].due
      <4>1. Unnoted(u)' = 0
        BY <1>2, <1>3, <1>4, <1>6, <3>1 DEF Unnoted
      <4> QED BY <2>1, <4>1
    <3>2. CASE ~msg[m].due
      <4>1. Unnoted(u)' = Unnoted(u)
        BY <1>1, <1>4, <1>6, <1>7, <3>2, UnnotedStays
      <4> QED BY <2>1, <4>1
    <3> QED BY <3>1, <3>2
  <2>3. exp'[u].early + Unnoted(u)' <= unsettled'[u]
    BY <1>1, <1>3, <1>4, <2>1, <2>2
  <2>4. counted'[u] + pending'[u] = handled'[u] + recounted'[u]
    BY <1>1, <1>3, <1>4, <1>5, <2>1
  <2> QED BY <1>1, <1>4, <1>5, <1>6, <1>7, <2>3, <2>4, CountsKept
<1> QED BY <1>4, <1>7, <1>8, <1>9, <1>10 DEF ChatInv

\* The task sees an error, whether its count was committed or not.
LEMMA RaiseKeeps ==
    ASSUME ChatInv, NEW m \in Messages, FlushFails(m) \/ FlushReplyLost(m)
    PROVE  ChatInv'
<1>0. PICK u : u = msg[m].user
  OBVIOUS
<1> DEFINE awarded == msg[m].at = "count" /\ msg[m].due
           owed == IF awarded THEN unsettled[u] + 1 ELSE unsettled[u]
<1>1. /\ Inside(m) /\ u \in Users /\ msg[m].user = u /\ msg[m].at # "none"
      /\ DOMAIN msg = Messages
  BY <1>0 DEF FlushFails, FlushReplyLost, ChatInv, ChatTables, EntriesOutlive, Inside
<1>2. msg[m].n = pending[u] /\ (msg[m].at = "exp" => msg[m].due)
  BY <1>1 DEF ChatInv, TasksAreCurrent
<1>3. /\ {pending, counted, handled, recounted, unsettled} \subseteq [Users -> Nat]
      /\ exp[u].early \in Nat
  BY <1>1 DEF ChatInv, ChatTables
<1>4. /\ Leave(u) /\ msg' = [msg EXCEPT ![m] = None]
      /\ unsettled' = [unsettled EXCEPT ![u] = owed]
      /\ UNCHANGED <<clock, born, pending, gained, handled, exp>>
  BY <1>1 DEF FlushFails, FlushReplyLost, Raise, Awarded
<1>5. \/ UNCHANGED <<counted, recounted>>
      \/ /\ counted' = [counted EXCEPT ![u] = counted[u] + msg[m].n]
         /\ recounted' = [recounted EXCEPT ![u] = recounted[u] + msg[m].n]
  BY <1>1 DEF FlushFails, FlushReplyLost, CountMessages
<1>6. /\ {counted', recounted'} \subseteq [Users -> Nat]
      /\ counted'[u] - counted[u] = recounted'[u] - recounted[u]
      /\ \A v \in Users \ {u} : counted'[v] = counted[v] /\ recounted'[v] = recounted[v]
  <2>1. pending[u] \in Nat /\ counted[u] \in Nat /\ recounted[u] \in Nat
    BY <1>1, <1>3
  <2>2. CASE UNCHANGED <<counted, recounted>>
    BY <1>3, <2>1, <2>2
  <2>3. CASE /\ counted' = [counted EXCEPT ![u] = counted[u] + msg[m].n]
             /\ recounted' = [recounted EXCEPT ![u] = recounted[u] + msg[m].n]
    BY <1>1, <1>2, <1>3, <2>1, <2>3
  <2> QED BY <1>5, <2>2, <2>3
<1>7. owed \in Nat /\ (awarded => owed = unsettled[u] + 1) /\ (~awarded => owed = unsettled[u])
  BY <1>1, <1>3
<1> HIDE DEF owed
<1>8. /\ unsettled' \in [Users -> Nat] /\ unsettled'[u] = owed
      /\ \A v \in Users \ {u} : unsettled'[v] = unsettled[v]
  BY <1>1, <1>3, <1>4, <1>7
<1>9. EntriesOutlive' /\ Moves(m) /\ msg'[m].at = "none"
      /\ entry' \in [Users -> [lk: Nat, users: Nat]]
  BY <1>1, <1>4, LeaveKeeps DEF ChatInv
<1>10. ChatTables'
  BY <1>4, <1>6, <1>8, <1>9 DEF ChatInv, ChatTables, Moves
<1>11. TasksAreCurrent'
  <2>1. ~Inside(m)'
    BY <1>9 DEF Inside
  <2> QED BY <1>1, <1>4, <1>9, <2>1, OthersAreCurrent
<1>12. CountsAgree'
  <2>1. exp[u].early + Unnoted(u) <= unsettled[u] /\ Unnoted(u) \in {0, 1}
        /\ counted[u] + pending[u] = handled[u] + recounted[u]
    BY <1>1 DEF ChatInv, CountsAgree, Unnoted
  <2>2. exp[u].early + Unnoted(u)' <= owed
    <3>1. CASE awarded
      <4>1. Unnoted(u) = 0
        BY <1>1, <3>1 DEF Unnoted
      <4>2. Unnoted(u)' \in {0, 1}
        BY DEF Unnoted
      <4>3. unsettled[u] \in Nat
        BY <1>1, <1>3
      <4> QED BY <1>3, <1>7, <2>1, <3>1, <4>1, <4>2, <4>3
    <3>2. CASE ~awarded
      <4>1. Unnoted(u)' = Unnoted(u)
        BY <1>1, <1>4, <1>9, <3>2, UnnotedStays
      <4> QED BY <1>7, <2>1, <3>2, <4>1
    <3> QED BY <3>1, <3>2
  <2>3. counted'[u] + pending'[u] = handled'[u] + recounted'[u]
    <3>1. {counted[u], counted'[u], recounted[u], recounted'[u], pending[u], handled[u]}
            \subseteq Int
      BY <1>1, <1>3, <1>6
    <3> QED BY <1>4, <1>6, <2>1, <3>1
  <2>4. exp'[u].early + Unnoted(u)' <= unsettled'[u]
    BY <1>4, <1>8, <2>2
  <2> QED BY <1>1, <1>4, <1>6, <1>8, <1>9, <2>3, <2>4, CountsKept
<1> QED BY <1>4, <1>9, <1>10, <1>11, <1>12 DEF ChatInv

\* The experience is committed and the task sees an error: it is owed to it.
LEMMA AwardLostKeeps ==
    ASSUME ChatInv, NEW m \in Messages, AwardReplyLost(m)
    PROVE  ChatInv'
<1>0. PICK u : u = msg[m].user
  OBVIOUS
<1>1. /\ msg[m].at = "exp" /\ Inside(m) /\ u \in Users /\ msg[m].user = u
      /\ DOMAIN msg = Messages
  BY <1>0 DEF AwardReplyLost, ChatInv, ChatTables, EntriesOutlive, Inside
<1>2. unsettled \in [Users -> Nat] /\ unsettled[u] \in Nat
  BY <1>1 DEF ChatInv, ChatTables
<1>3. /\ AddUserExp(u, msg[m].now) /\ Leave(u) /\ msg' = [msg EXCEPT ![m] = None]
      /\ unsettled' = [unsettled EXCEPT ![u] = unsettled[u] + 1]
      /\ UNCHANGED <<clock, born, pending, gained, handled, counted, recounted>>
  BY <1>1 DEF AwardReplyLost, Raise
<1>4. /\ exp' \in [Users -> [last: Int, early: Nat]]
      /\ exp'[u].early <= unsettled[u]
      /\ \A v \in Users \ {u} : exp'[v] = exp[v]
  BY <1>1, <1>3, EarlyIsOwed
<1>5. /\ unsettled' \in [Users -> Nat] /\ unsettled'[u] = unsettled[u] + 1
      /\ \A v \in Users \ {u} : unsettled'[v] = unsettled[v]
  BY <1>1, <1>2, <1>3
<1>6. EntriesOutlive' /\ Moves(m) /\ msg'[m].at = "none"
      /\ entry' \in [Users -> [lk: Nat, users: Nat]]
  BY <1>1, <1>3, LeaveKeeps DEF ChatInv
<1>7. ChatTables'
  BY <1>3, <1>4, <1>5, <1>6 DEF ChatInv, ChatTables, Moves
<1>8. TasksAreCurrent'
  <2>1. ~Inside(m)'
    BY <1>6 DEF Inside
  <2> QED BY <1>1, <1>3, <1>4, <1>6, <2>1, OthersAreCurrent
<1>9. CountsAgree'
  <2>1. counted[u] + pending[u] = handled[u] + recounted[u]
    BY <1>1 DEF ChatInv, CountsAgree
  <2>2. Unnoted(u)' \in {0, 1} /\ exp'[u].early \in Nat
    BY <1>1, <1>4 DEF Unnoted
  <2>3. exp'[u].early + Unnoted(u)' <= unsettled'[u]
    BY <1>2, <1>4, <1>5, <2>2
  <2> QED BY <1>1, <1>3, <1>4, <1>5, <1>6, <2>1, <2>3, CountsKept
<1> QED BY <1>3, <1>6, <1>7, <1>8, <1>9 DEF ChatInv

(***************************************************************************)
(* Every step.                                                             *)
(***************************************************************************)
LEMMA InitEstablishes == Init => RewardsInv
<1> SUFFICES ASSUME Init PROVE RewardsInv
  OBVIOUS
<1>1. clock = 0 /\ Day(0) \in Nat
  BY DaysGoOn DEF Init, ClaimsInit
<1>2. DaysAreOrdered
  <2>1. /\ \A u \in Users : "last_claim" \in DOMAIN users[u] /\ users[u].last_claim = Never
        /\ DOMAIN users = Users /\ dailies = [u \in Users |-> [d \in Days |-> 0]]
    BY DEF Init, ClaimsInit
  <2>2. dailies \in [Users -> [Days -> Nat]] /\ \A u \in Users, d \in Days : dailies[u][d] = 0
    BY <2>1
  <2> QED BY <1>1, <2>1, <2>2 DEF DaysAreOrdered, Never
<1>3. CallsHoldLocks
  <2>1. \A c \in Calls : call[c].at = "idle"
    BY DEF Init, ClaimsInit, Idle
  <2>2. DOMAIN call = Calls /\ lock \in LockType /\ overrun \subseteq Users
    BY DEF Init, ClaimsInit, LockInit, LockType, Free
  <2> QED BY <2>1, <2>2 DEF CallsHoldLocks, Runs
<1>4. \A m \in Messages : msg[m].at = "none"
  BY DEF Init, None
<1>5. ChatTables
  <2>1. {pending, handled, counted, recounted, unsettled, born} \subseteq [Users -> Nat]
    BY DEF Init
  <2>2. gained \in [Users -> Int] /\ exp \in [Users -> [last: Int, early: Nat]]
    BY DEF Init, Never
  <2>3. entry \in [Users -> [lk: Nat, users: Nat]] /\ DOMAIN msg = Messages
    BY DEF Init, NoLock
  <2> QED BY <2>1, <2>2, <2>3 DEF ChatTables
<1>6. EntriesOutlive
  <2>1. ASSUME NEW u \in Users PROVE entry[u].users = Cardinality(Tasks(u))
    <3>1. Tasks(u) = {} /\ entry[u].users = 0
      BY <1>4 DEF Tasks, Init
    <3> QED BY <3>1, FS_EmptySet
  <2> QED BY <1>4, <2>1 DEF EntriesOutlive, Inside
<1>7. TasksAreCurrent
  BY <1>4 DEF TasksAreCurrent, Inside
<1>8. CountsAgree
  <2> SUFFICES ASSUME NEW u \in Users
               PROVE  /\ counted[u] + pending[u] = handled[u] + recounted[u]
                      /\ exp[u].early + Unnoted(u) <= unsettled[u]
    BY DEF CountsAgree
  <2>1. /\ counted[u] = 0 /\ pending[u] = 0 /\ handled[u] = 0 /\ recounted[u] = 0
        /\ exp[u].early = 0 /\ exp[u].last = Never /\ gained[u] = Never /\ unsettled[u] = 0
    BY DEF Init
  <2>2. Unnoted(u) = 0
    BY <2>1 DEF Unnoted, Never
  <2> QED BY <2>1, <2>2
<1> QED BY <1>1, <1>2, <1>3, <1>5, <1>6, <1>7, <1>8 DEF RewardsInv, DailyInv, ChatInv

\* Chat and voice pay coins and levels, and no day.
LEMMA ChatPaysNoDay ==
    ASSUME DailyInv,
           \/ \E m \in Messages : \/ \E u \in Players : Arrive(m, u)
                                  \/ Enter(m) \/ AwardExp(m) \/ Flush(m)
                                  \/ FlushFails(m) \/ AwardReplyLost(m) \/ FlushReplyLost(m)
           \/ VoiceRound
           \/ \E who \in SUBSET Players : AwardVoice(who)
    PROVE  DailyInv'
<1>1. DOMAIN users = Users /\ \A u \in Users : "last_claim" \in DOMAIN users[u]
  BY DEF DailyInv, DaysAreOrdered
<1>2. UNCHANGED <<clock, call, lockVars, dailies>>
  BY DEF Arrive, Enter, AwardExp, Flush, FlushFails, AwardReplyLost, FlushReplyLost, Raise,
         VoiceRound, AwardVoice, claimVars
<1>3. DaysKept
  <2>1. ASSUME users' = users PROVE DaysKept
    BY <1>1, <1>2, <2>1 DEF DaysKept
  <2>2. ASSUME NEW u, NEW row,
               users' = [users EXCEPT ![u] = row],
               u \in Users => "last_claim" \in DOMAIN row /\ row.last_claim = users[u].last_claim
        PROVE  DaysKept
    BY <1>1, <1>2, <2>2 DEF DaysKept
  <2>3. ASSUME NEW m \in Messages, AwardExp(m) \/ AwardReplyLost(m) PROVE DaysKept
    <3> DEFINE u == msg[m].user
    <3>1. PICK up \in {0, 1} : users' = [users EXCEPT ![u].level = Lesser(MaxLevel, @ + up)]
      BY <2>3 DEF AwardExp, AwardReplyLost, AddUserExp
    <3> DEFINE row == [users[u] EXCEPT !.level = Lesser(MaxLevel, users[u].level + up)]
    <3>2. users' = [users EXCEPT ![u] = row]
      BY <3>1
    <3>3. u \in Users => "last_claim" \in DOMAIN row /\ row.last_claim = users[u].last_claim
      BY <1>1
    <3> HIDE DEF row
    <3> QED BY <2>2, <3>2, <3>3
  <2>4. ASSUME NEW u, NEW n, NEW t, CountMessages(u, n, t) PROVE DaysKept
    <3> DEFINE row == [users[u] EXCEPT !.balance = users[u].balance + 1]
    <3>1. users' = users \/ users' = [users EXCEPT ![u] = row]
      BY <2>4 DEF CountMessages
    <3>2. u \in Users => "last_claim" \in DOMAIN row /\ row.last_claim = users[u].last_claim
      BY <1>1
    <3> HIDE DEF row
    <3> QED BY <2>1, <2>2, <3>1, <3>2
  <2>5. ASSUME NEW who \in SUBSET Players, AwardVoice(who) PROVE DaysKept
    <3>1. PICK paid : users' = [u \in Users |->
             IF u \in paid THEN [users[u] EXCEPT !.balance = @ + 1] ELSE users[u]]
      BY <2>5 DEF AwardVoice
    <3> QED BY <1>1, <1>2, <3>1 DEF DaysKept
  <2>6. ASSUME NEW m \in Messages,
               \/ \E u \in Players : Arrive(m, u)
               \/ Enter(m) \/ Flush(m) \/ FlushFails(m) \/ FlushReplyLost(m)
        PROVE  users' = users \/ \E u, n, t : CountMessages(u, n, t)
    BY <2>6 DEF Arrive, Enter, Flush, FlushFails, FlushReplyLost, claimVars
  <2>7. VoiceRound => users' = users
    BY DEF VoiceRound
  <2> QED BY <2>1, <2>3, <2>4, <2>5, <2>6, <2>7
<1>4. clock \in Nat /\ clock <= clock' /\ clock' \in Nat /\ DOMAIN call' = Calls
  BY <1>2 DEF DailyInv, CallsHoldLocks
<1> QED BY <1>2, <1>3, <1>4, DaysKeptKeeps

\* The induction step of the commands.
LEMMA DailyInvKeeps == DailyInv /\ [Next]_vars => DailyInv'
<1> SUFFICES ASSUME DailyInv, [Next]_vars PROVE DailyInv'
  OBVIOUS
<1>1. CASE ClaimsNext
  <2>1. CASE Tick
    <3>1. UNCHANGED <<users, call, dailies, lockVars>> /\ clock' = clock + 1 /\ clock \in Nat
      BY <2>1 DEF Tick, DailyInv
    <3>2. DaysKept /\ DOMAIN call' = Calls
      BY <3>1 DEF DaysKept, DailyInv, DaysAreOrdered, CallsHoldLocks
    <3> QED BY <3>1, <3>2, DaysKeptKeeps
  <2> QED BY <1>1, <2>1, StartKeeps, TakeTimeKeeps, DailyKeeps, ClaimKeeps, OtherStepKeeps,
             LockKeeps
          DEF ClaimsNext
<1>2. CASE UNCHANGED vars
  BY <1>2 DEF vars, claimVars, lockVars, DailyInv, DaysAreOrdered, CallsHoldLocks, Runs, Day
<1> QED BY <1>1, <1>2, ChatPaysNoDay DEF Next

\* The induction step of the chat.
LEMMA ChatInvKeeps == ChatInv /\ [Next]_vars => ChatInv'
<1> SUFFICES ASSUME ChatInv, [Next]_vars PROVE ChatInv'
  OBVIOUS
<1>1. ASSUME UNCHANGED <<entry, born, msg, pending, gained, handled, counted, recounted, exp,
                         unsettled>>, clock' \in Nat
      PROVE  ChatInv'
  <2>1. \A u \in Users : Tasks(u)' = Tasks(u) /\ Unnoted(u)' = Unnoted(u)
    BY <1>1 DEF Tasks, Unnoted
  <2>2. ChatTables' /\ EntriesOutlive' /\ TasksAreCurrent' /\ CountsAgree'
    BY <1>1, <2>1
       DEF ChatInv, ChatTables, EntriesOutlive, TasksAreCurrent, CountsAgree, Inside
  <2> QED BY <1>1, <2>2 DEF ChatInv
<1>2. CASE ClaimsNext /\ UNCHANGED chatVars
  <2>1. clock' \in Nat
    <3>1. ASSUME NEW c \in Calls,
                 \/ \E u \in Players, cmd \in Commands : Start(c, u, cmd)
                 \/ TakeTime(c) \/ ReadHourlyBank(c) \/ Transfer(c) \/ FailCommand(c)
                 \/ EndCommand(c)
          PROVE  clock' = clock
      BY <3>1 DEF Start, TakeTime, ReadHourlyBank, Transfer, FailCommand, EndCommand
    <3>2. ASSUME NEW c \in Calls,
                 \/ ClaimDailyReward(c) \/ ClaimHourlyReward(c) \/ RefreshHourlyBank(c)
                 \/ ClaimBeg(c) \/ ClaimRescue(c)
          PROVE  clock' = clock
      BY <3>2 DEF ClaimDailyReward, ClaimHourlyReward, RefreshHourlyBank, ClaimBeg, ClaimRescue,
                  Commits
    <3>3. (\E u \in Players : CommandHangs(u)) => clock' = clock
      BY DEF CommandHangs
    <3>4. Tick => clock' = clock + 1
      BY DEF Tick
    <3>5. clock' = clock \/ clock' = clock + 1
      BY <1>2, <3>1, <3>2, <3>3, <3>4 DEF ClaimsNext
    <3> QED BY <3>5 DEF ChatInv
  <2> QED BY <1>1, <1>2, <2>1 DEF chatVars
<1>3. CASE VoiceRound \/ (\E who \in SUBSET Players : AwardVoice(who)) \/ UNCHANGED vars
  BY <1>1, <1>3 DEF VoiceRound, AwardVoice, vars, claimVars, chatVars, ChatInv
<1> QED BY <1>2, <1>3, ArriveKeeps, EnterKeeps, AwardKeeps, AwardLostKeeps, FlushKeeps,
        RaiseKeeps DEF Next

(***************************************************************************)
(* The theorems.                                                           *)
(***************************************************************************)

\* While no lock of a player is handed on from a command that has work to do,
\* the days of the player are paid in order by the commands that hold the
\* lock; and the counts, locks and cooldowns of the chat fit together.
THEOREM RewardsInvariance == Spec => []RewardsInv
<1>1. RewardsInv /\ [Next]_vars => RewardsInv'
  BY DailyInvKeeps, ChatInvKeeps DEF RewardsInv
<1> QED BY InitEstablishes, <1>1, PTL DEF Spec

\* /daily takes the date before it waits for the row and compares it with the
\* last day only; it pays a player twice for a day only when the lock of the
\* player was handed on from a command that still had work to do.
THEOREM DayPaidOnce == Spec => []OncePerDayUnderLock
<1>1. RewardsInv => OncePerDayUnderLock
  BY DEF RewardsInv, DailyInv, DaysAreOrdered, OncePerDayUnderLock
<1> QED BY <1>1, RewardsInvariance, PTL

\* No message is lost or counted twice, but for the lost reply to a COMMIT,
\* and no experience comes early, but for a task that failed half way.
THEOREM ChatStaysExact == Spec => []ChatIsExact
<1>1. RewardsInv => ChatIsExact
  <2> SUFFICES ASSUME RewardsInv PROVE ChatIsExact
    OBVIOUS
  <2>1. MessagesAreCounted
    BY DEF RewardsInv, ChatInv, CountsAgree, MessagesAreCounted
  <2>2. ASSUME NEW u \in Users PROVE exp[u].early <= unsettled[u]
    <3>1. exp[u].early + Unnoted(u) <= unsettled[u] /\ exp[u].early \in Nat
          /\ unsettled[u] \in Nat
      BY DEF RewardsInv, ChatInv, CountsAgree, ChatTables
    <3>2. Unnoted(u) \in {0, 1}
      BY DEF Unnoted
    <3> QED BY <3>1, <3>2
  <2> QED BY <2>1, <2>2 DEF ChatIsExact, ExpWaits
<1> QED BY <1>1, RewardsInvariance, PTL

(***************************************************************************)
(* The types.                                                              *)
(***************************************************************************)

\* A time, or Never, is an integer, and a time falls on one of the days.
LEMMA TimesAreInts ==
    /\ MaxTime \in Nat /\ MaxLevel \in Nat /\ MaxLevel >= 1
    /\ MaxRescues \in Nat /\ MaxEvents \in Nat
    /\ \A t \in Time : t \in Nat /\ t <= MaxTime /\ Day(t) \in Days
    /\ \A t \in Time \union {Never} : t \in Int
    /\ \A d \in Days \union {Never} : d \in Int
<1>1. MaxTime \in Nat /\ MaxLevel \in Nat /\ MaxLevel >= 1 /\ MaxRescues \in Nat
      /\ MaxEvents \in Nat
  BY BoundsAssumption, MaxLevelAssumption
<1>2. \A t \in Time : t \in Nat /\ t <= MaxTime
  BY <1>1 DEF Time
<1>3. ASSUME NEW t \in Time PROVE Day(t) \in Days
  <2>1. Day(t) \in Nat /\ Day(MaxTime) \in Nat /\ Day(t) <= Day(MaxTime)
    BY <1>1, <1>2, DaysGoOn
  <2> HIDE DEF Day
  <2> QED BY <2>1 DEF Days
<1>4. Day(MaxTime) \in Nat
  BY <1>1, DaysGoOn
<1>5. \A d \in Days \union {Never} : d \in Int
  BY <1>4 DEF Days, Never
<1> QED BY <1>1, <1>2, <1>3, <1>5 DEF Never

\* The bank holds no more hours than the level allows.
LEMMA SavedFits ==
    ASSUME NEW bank \in 0 .. MaxLevel, NEW last \in Time \union {Never}, NEW t \in Time,
           NEW lv \in 1 .. MaxLevel
    PROVE  Saved(bank, last, t, lv) \in 0 .. MaxLevel
<1>1. MaxLevel \in Nat /\ last \in Int /\ t \in Nat
  BY TimesAreInts
<1>2. Elapsed(last, t) \in Nat
  BY <1>1 DEF Elapsed, Greater
<1> QED BY <1>1, <1>2 DEF Saved, Lesser

\* The parts of a row.
LEMMA RowParts ==
    ASSUME NEW row \in UserRow
    PROVE  /\ row.balance \in Nat /\ row.level \in 1 .. MaxLevel
           /\ row.last_hourly_claim \in Time \union {Never}
           /\ row.hourly_bank \in 0 .. MaxLevel /\ row.last_claim \in Days \union {Never}
           /\ row.last_beg \in Time \union {Never} /\ row.last_rescue \in Time \union {Never}
           /\ row.rescue_count \in 0 .. MaxRescues
  BY DEF UserRow

\* A column keeps its type when the value that is written has it.
LEMMA ColumnsFit ==
    ASSUME NEW row \in UserRow
    PROVE  /\ \A x \in Nat : [row EXCEPT !.balance = x] \in UserRow
           /\ \A x \in 1 .. MaxLevel : [row EXCEPT !.level = x] \in UserRow
           /\ \A x \in Time \union {Never} : [row EXCEPT !.last_hourly_claim = x] \in UserRow
           /\ \A x \in 0 .. MaxLevel : [row EXCEPT !.hourly_bank = x] \in UserRow
           /\ \A x \in Days \union {Never} : [row EXCEPT !.last_claim = x] \in UserRow
           /\ \A x \in Time \union {Never} : [row EXCEPT !.last_beg = x] \in UserRow
           /\ \A x \in Time \union {Never} : [row EXCEPT !.last_rescue = x] \in UserRow
           /\ \A x \in 0 .. MaxRescues : [row EXCEPT !.rescue_count = x] \in UserRow
<1>1. \A x \in Nat : [row EXCEPT !.balance = x] \in UserRow
  BY DEF UserRow
<1>2. \A x \in 1 .. MaxLevel : [row EXCEPT !.level = x] \in UserRow
  BY DEF UserRow
<1>3. \A x \in Time \union {Never} : [row EXCEPT !.last_hourly_claim = x] \in UserRow
  BY DEF UserRow
<1>4. \A x \in 0 .. MaxLevel : [row EXCEPT !.hourly_bank = x] \in UserRow
  BY DEF UserRow
<1>5. \A x \in Days \union {Never} : [row EXCEPT !.last_claim = x] \in UserRow
  BY DEF UserRow
<1>6. \A x \in Time \union {Never} : [row EXCEPT !.last_beg = x] \in UserRow
  BY DEF UserRow
<1>7. \A x \in Time \union {Never} : [row EXCEPT !.last_rescue = x] \in UserRow
  BY DEF UserRow
<1>8. \A x \in 0 .. MaxRescues : [row EXCEPT !.rescue_count = x] \in UserRow
  BY DEF UserRow
<1> QED BY <1>1, <1>2, <1>3, <1>4, <1>5, <1>6, <1>7, <1>8

\* What /hourly pays leaves a row, and not fewer coins.
LEMMA PaidRowFits ==
    ASSUME NEW row \in UserRow, NEW t \in Time
    PROVE  PaidRow(row, t) \in UserRow /\ PaidRow(row, t).balance >= row.balance
<1> DEFINE bank == Saved(row.hourly_bank, row.last_hourly_claim, t, row.level)
           one == [row EXCEPT !.hourly_bank = 0]
           two == [one EXCEPT !.last_hourly_claim = Greater(row.last_hourly_claim, t)]
           three == [two EXCEPT !.balance = row.balance + bank]
<1>1. bank \in 0 .. MaxLevel /\ row.balance \in Nat /\ MaxLevel \in Nat
  BY SavedFits, RowParts, TimesAreInts
<1>2. one \in UserRow
  BY <1>1, ColumnsFit
<1>3. Greater(row.last_hourly_claim, t) \in Time \union {Never}
  BY RowParts DEF Greater
<1>4. two \in UserRow
  <2> HIDE DEF one
  <2> QED BY <1>2, <1>3, ColumnsFit
<1>5. row.balance + bank \in Nat /\ row.balance + bank >= row.balance
  <2> HIDE DEF bank
  <2> QED BY <1>1
<1>6. three \in UserRow
  <2> HIDE DEF two, bank
  <2> QED BY <1>4, <1>5, ColumnsFit
<1>7. PaidRow(row, t) = three
  <2> HIDE DEF bank
  <2> QED BY DEF PaidRow, UserRow, bank
<1>8. three.balance = row.balance + bank
  <2>1. "balance" \in DOMAIN two
    <3> HIDE DEF two
    <3> QED BY <1>4 DEF UserRow
  <2> HIDE DEF two, bank
  <2> QED BY <2>1
<1> HIDE DEF three, bank
<1> QED BY <1>5, <1>6, <1>7, <1>8

\* What begging, the rescue and the daily reward leave is a row.
LEMMA RewardedRowFits ==
    ASSUME NEW row \in UserRow, clock \in Time
    PROVE  /\ Begs(row) \subseteq UserRow
           /\ Rescued(row) \in UserRow
           /\ \A d \in Days : [row EXCEPT !.last_claim = d, !.balance = @ + 1] \in UserRow
<1>1. /\ row.balance \in Nat /\ row.rescue_count \in Nat /\ MaxRescues \in Nat
      /\ clock \in Time \union {Never} /\ "balance" \in DOMAIN row
  BY RowParts, TimesAreInts DEF UserRow
<1>2. Begs(row) \subseteq UserRow
  <2> SUFFICES ASSUME NEW earn \in {0, 1}
               PROVE  [row EXCEPT !.last_beg = clock, !.balance = @ + earn] \in UserRow
    BY DEF Begs
  <2> DEFINE one == [row EXCEPT !.last_beg = clock]
  <2>1. one \in UserRow
    BY <1>1, ColumnsFit
  <2>2. row.balance + earn \in Nat
    BY <1>1
  <2>3. [one EXCEPT !.balance = row.balance + earn] \in UserRow
    <3> HIDE DEF one
    <3> QED BY <2>1, <2>2, ColumnsFit
  <2>4. [one EXCEPT !.balance = row.balance + earn]
        = [row EXCEPT !.last_beg = clock, !.balance = @ + earn]
    BY DEF UserRow
  <2> QED BY <2>3, <2>4
<1>3. Rescued(row) \in UserRow
  <2>1. CASE Rescuable(row)
    <3> DEFINE one == [row EXCEPT !.balance = row.balance + 1]
               two == [one EXCEPT !.last_rescue = clock]
               three == [two EXCEPT !.rescue_count = row.rescue_count + 1]
    <3>1. row.balance + 1 \in Nat /\ row.rescue_count + 1 \in 0 .. MaxRescues
      BY <1>1, <2>1 DEF Rescuable
    <3>2. one \in UserRow
      BY <3>1, ColumnsFit
    <3>3. two \in UserRow
      <4> HIDE DEF one
      <4> QED BY <1>1, <3>2, ColumnsFit
    <3>4. three \in UserRow
      <4> HIDE DEF two
      <4> QED BY <3>1, <3>3, ColumnsFit
    <3>5. Rescued(row) = three
      BY <2>1 DEF Rescued, UserRow
    <3> HIDE DEF three
    <3> QED BY <3>4, <3>5
  <2>2. CASE ~Rescuable(row)
    BY <2>2 DEF Rescued
  <2> QED BY <2>1, <2>2
<1>4. ASSUME NEW d \in Days
      PROVE  [row EXCEPT !.last_claim = d, !.balance = @ + 1] \in UserRow
  <2> DEFINE one == [row EXCEPT !.last_claim = d]
  <2>1. one \in UserRow
    BY ColumnsFit
  <2>2. row.balance + 1 \in Nat
    BY <1>1
  <2>3. [one EXCEPT !.balance = row.balance + 1] \in UserRow
    <3> HIDE DEF one
    <3> QED BY <2>1, <2>2, ColumnsFit
  <2>4. [one EXCEPT !.balance = row.balance + 1]
        = [row EXCEPT !.last_claim = d, !.balance = @ + 1]
    BY DEF UserRow
  <2> QED BY <2>3, <2>4
<1> QED BY <1>2, <1>3, <1>4

\* The parts of a command at the database.
LEMMA CallParts ==
    ASSUME call \in [Calls -> CallState], NEW c \in Calls
    PROVE  /\ call[c].at \in {"idle", "running", "seen", "replying"}
           /\ call[c].at # "idle" => call[c].user \in Users
           /\ call[c].at = "running" => call[c].now \in Time /\ call[c].cmd \in Commands
           /\ call[c].at = "seen" =>
                 /\ call[c].now \in Time /\ call[c].level \in 1 .. MaxLevel
                 /\ call[c].last \in Time \union {Never} /\ call[c].bank \in 0 .. MaxLevel
<1>1. call[c] \in CallState
  OBVIOUS
<1> QED BY <1>1 DEF CallState

\* A command is left where one of the four states allows it.
LEMMA CallsFit ==
    ASSUME call \in [Calls -> CallState], NEW c \in Calls, NEW s \in CallState,
           call' = [call EXCEPT ![c] = s]
    PROVE  call' \in [Calls -> CallState]
  OBVIOUS

\* The commit of a row leaves rows, commands and hours of their types.
LEMMA CommitFits ==
    ASSUME ClaimsTypeOK, NEW c \in Calls, call[c].at \in {"running", "seen"},
           NEW row \in UserRow, Commits(c, row)
    PROVE  /\ clock' \in Time /\ events' \in 0 .. MaxEvents
           /\ users' \in [Users -> UserRow] /\ call' \in [Calls -> CallState]
<1>1. call \in [Calls -> CallState] /\ users \in [Users -> UserRow] /\ clock \in Time
      /\ events \in 0 .. MaxEvents
  BY DEF ClaimsTypeOK
<1>2. call[c].user \in Users
  BY <1>1, CallParts
<1>3. /\ users' = [users EXCEPT ![call[c].user] = row]
      /\ call' = [call EXCEPT ![c] = Replying(call[c].user)]
      /\ clock' = clock /\ events' = events
  BY DEF Commits
<1>4. Replying(call[c].user) \in CallState
  BY <1>2 DEF Replying, CallState
<1>5. call' \in [Calls -> CallState]
  BY <1>1, <1>3, <1>4, CallsFit
<1>6. users' \in [Users -> UserRow]
  BY <1>1, <1>3
<1> QED BY <1>1, <1>3, <1>5, <1>6

\* The commands of Claims, but for the lock and the table of the days,
\* whose types DailyInv states.
LEMMA CommandsFit ==
    ASSUME ClaimsTypeOK, ClaimsNext
    PROVE  /\ clock' \in Time /\ events' \in 0 .. MaxEvents
           /\ users' \in [Users -> UserRow] /\ call' \in [Calls -> CallState]
           /\ hours' \in [Users -> Nat]
<1>1. /\ call \in [Calls -> CallState] /\ users \in [Users -> UserRow] /\ clock \in Time
      /\ events \in 0 .. MaxEvents /\ hours \in [Users -> Nat]
  BY DEF ClaimsTypeOK
<1>2. ASSUME NEW c \in Calls, NEW u \in Players, NEW cmd \in Commands, Start(c, u, cmd)
      PROVE  /\ clock' \in Time /\ events' \in 0 .. MaxEvents
             /\ users' \in [Users -> UserRow] /\ call' \in [Calls -> CallState]
             /\ hours' \in [Users -> Nat]
  <2>1. /\ clock' = clock /\ users' = users /\ hours' = hours
        /\ call' = [call EXCEPT ![c] = Running(u, cmd)]
        /\ events < MaxEvents /\ events' = events + 1
    BY <1>2 DEF Start, Happens
  <2>2. u \in Users
    BY PlayersAssumption
  <2>3. Running(u, cmd) \in CallState
    BY <1>1, <2>2 DEF Running, CallState
  <2>4. call' \in [Calls -> CallState]
    BY <1>1, <2>1, <2>3, CallsFit
  <2>5. events' \in 0 .. MaxEvents
    BY <1>1, <2>1, TimesAreInts
  <2> QED BY <1>1, <2>1, <2>4, <2>5
<1>3. ASSUME NEW c \in Calls, ClaimDailyReward(c)
      PROVE  /\ clock' \in Time /\ events' \in 0 .. MaxEvents
             /\ users' \in [Users -> UserRow] /\ call' \in [Calls -> CallState]
             /\ hours' \in [Users -> Nat]
  <2> DEFINE u == call[c].user
             today == Day(call[c].now)
             row == [users[u] EXCEPT !.last_claim = today, !.balance = @ + 1]
  <2>1. call[c].at = "running" /\ hours' = hours
    BY <1>3 DEF ClaimDailyReward, Runs
  <2>2. u \in Users /\ call[c].now \in Time
    BY <1>1, <2>1, CallParts
  <2>3. today \in Days /\ users[u] \in UserRow
    <3> HIDE DEF u
    <3> QED BY <1>1, <2>2, TimesAreInts
  <2>4. row \in UserRow
    <3> HIDE DEF u, today
    <3> QED BY <1>1, <2>3, RewardedRowFits
  <2>5. Commits(c, users[u]) \/ Commits(c, row)
    BY <1>3 DEF ClaimDailyReward
  <2> HIDE DEF row, u
  <2> QED BY <1>1, <2>1, <2>3, <2>4, <2>5, CommitFits
<1>4. ASSUME NEW c \in Calls, ClaimHourlyReward(c)
      PROVE  /\ clock' \in Time /\ events' \in 0 .. MaxEvents
             /\ users' \in [Users -> UserRow] /\ call' \in [Calls -> CallState]
             /\ hours' \in [Users -> Nat]
  <2> DEFINE u == call[c].user
             new == PaidRow(users[u], call[c].now)
  <2>1. /\ call[c].at = "running" /\ Commits(c, new)
        /\ hours' = [hours EXCEPT ![u] = @ + new.balance - users[u].balance]
    BY <1>4 DEF ClaimHourlyReward, Runs
  <2>2. u \in Users /\ call[c].now \in Time
    BY <1>1, <2>1, CallParts
  <2>3. users[u] \in UserRow
    BY <1>1, <2>2
  <2>4. new \in UserRow /\ new.balance >= users[u].balance
    BY <2>2, <2>3, PaidRowFits
  <2>5. new.balance \in Nat /\ users[u].balance \in Nat
    <3> HIDE DEF new
    <3> QED BY <2>3, <2>4, RowParts
  <2>6. hours' \in [Users -> Nat]
    <3> HIDE DEF new, u
    <3>1. hours[u] \in Nat
      BY <1>1, <2>2
    <3>2. hours[u] + new.balance - users[u].balance \in Nat
      BY <2>4, <2>5, <3>1
    <3> QED BY <1>1, <2>1, <3>2
  <2> HIDE DEF new
  <2> QED BY <2>1, <2>4, <2>6, CommitFits
<1>5. ASSUME NEW c \in Calls, RefreshHourlyBank(c)
      PROVE  /\ clock' \in Time /\ events' \in 0 .. MaxEvents
             /\ users' \in [Users -> UserRow] /\ call' \in [Calls -> CallState]
             /\ hours' \in [Users -> Nat]
  <2> DEFINE u == call[c].user
             s == call[c]
             row == users[u]
             bank == Saved(s.bank, s.last, s.now, s.level)
             stamped == [row EXCEPT !.last_hourly_claim = s.now]
             saved == [row EXCEPT !.hourly_bank = bank, !.last_hourly_claim = s.now]
  <2>1. call[c].at = "seen" /\ hours' = hours
    BY <1>5 DEF RefreshHourlyBank
  <2>2. /\ u \in Users /\ s.now \in Time /\ s.level \in 1 .. MaxLevel
        /\ s.last \in Time \union {Never} /\ s.bank \in 0 .. MaxLevel
    BY <1>1, <2>1, CallParts
  <2>3. row \in UserRow
    BY <1>1, <2>2
  <2>4. bank \in 0 .. MaxLevel
    BY <2>2, SavedFits
  <2>5. stamped \in UserRow
    <3> HIDE DEF row, s
    <3> QED BY <2>2, <2>3, ColumnsFit
  <2>6. saved \in UserRow
    <3> DEFINE one == [row EXCEPT !.hourly_bank = bank]
    <3>1. one \in UserRow
      <4> HIDE DEF row, s, bank
      <4> QED BY <2>3, <2>4, ColumnsFit
    <3>2. [one EXCEPT !.last_hourly_claim = s.now] \in UserRow
      <4> HIDE DEF one, s
      <4> QED BY <2>2, <3>1, ColumnsFit
    <3>3. [one EXCEPT !.last_hourly_claim = s.now] = saved
      <4> HIDE DEF row, s, bank
      <4> QED BY <2>3 DEF UserRow
    <3> HIDE DEF saved, one
    <3> QED BY <3>2, <3>3
  <2>7. Commits(c, stamped) \/ Commits(c, row) \/ Commits(c, saved)
    BY <1>5 DEF RefreshHourlyBank
  <2> HIDE DEF stamped, row, saved
  <2> QED BY <1>1, <2>1, <2>3, <2>5, <2>6, <2>7, CommitFits
<1>6. ASSUME NEW c \in Calls, ClaimBeg(c) \/ ClaimRescue(c)
      PROVE  /\ clock' \in Time /\ events' \in 0 .. MaxEvents
             /\ users' \in [Users -> UserRow] /\ call' \in [Calls -> CallState]
             /\ hours' \in [Users -> Nat]
  <2> DEFINE row == users[call[c].user]
  <2>1. call[c].at = "running" /\ hours' = hours
    BY <1>6 DEF ClaimBeg, ClaimRescue, Runs
  <2>2. row \in UserRow
    BY <1>1, <2>1, CallParts
  <2>3. Begs(row) \subseteq UserRow /\ Rescued(row) \in UserRow
    <3> HIDE DEF row
    <3> QED BY <1>1, <2>2, RewardedRowFits
  <2>4. PICK new \in UserRow : Commits(c, new)
    <3>1. (\E new \in Begs(row) : Commits(c, new)) \/ Commits(c, Rescued(row))
      BY <1>6 DEF ClaimBeg, ClaimRescue
    <3> HIDE DEF row
    <3> QED BY <2>3, <3>1
  <2> QED BY <1>1, <2>1, <2>4, CommitFits
<1>7. ASSUME NEW c \in Calls, Transfer(c)
      PROVE  /\ clock' \in Time /\ events' \in 0 .. MaxEvents
             /\ users' \in [Users -> UserRow] /\ call' \in [Calls -> CallState]
             /\ hours' \in [Users -> Nat]
  <2> DEFINE u == call[c].user
  <2>1. /\ call[c].at = "running" /\ hours' = hours /\ clock' = clock /\ events' = events
        /\ call' = [call EXCEPT ![c] = Replying(u)]
    BY <1>7 DEF Transfer, Runs
  <2>2. u \in Users
    BY <1>1, <2>1, CallParts
  <2>3. Replying(u) \in CallState
    <3> HIDE DEF u
    <3> QED BY <2>2 DEF Replying, CallState
  <2>4. call' \in [Calls -> CallState]
    BY <1>1, <2>1, <2>3, CallsFit
  <2>5. PICK r \in Users \ {u} : TransferUsers(u, r)
    BY <1>7 DEF Transfer
  <2>6. users' \in [Users -> UserRow]
    <3> HIDE DEF u
    <3>1. users[u] \in UserRow /\ users[r] \in UserRow /\ users[u].balance \in Nat
          /\ users[r].balance \in Nat
      BY <1>1, <2>2, RowParts
    <3>2. CASE users' = users
      BY <1>1, <3>2
    <3>3. CASE /\ Affords(u)
               /\ users' = [users EXCEPT ![u].balance = @ - 1, ![r].balance = @ + 1]
      <4> DEFINE less == [users[u] EXCEPT !.balance = users[u].balance - 1]
                 more == [users[r] EXCEPT !.balance = users[r].balance + 1]
      <4>1. users[u].balance - 1 \in Nat /\ users[r].balance + 1 \in Nat
        BY <3>1, <3>3 DEF Affords
      <4>2. less \in UserRow /\ more \in UserRow
        BY <3>1, <4>1, ColumnsFit
      <4>3. users' = [users EXCEPT ![u] = less, ![r] = more]
        BY <1>1, <2>2, <2>5, <3>3
      <4> HIDE DEF less, more
      <4> QED BY <1>1, <4>2, <4>3
    <3> QED BY <2>5, <3>2, <3>3 DEF TransferUsers
  <2> QED BY <1>1, <2>1, <2>4, <2>6
<1>8. ASSUME NEW c \in Calls, TakeTime(c) \/ ReadHourlyBank(c) \/ FailCommand(c) \/ EndCommand(c)
      PROVE  /\ clock' \in Time /\ events' \in 0 .. MaxEvents
             /\ users' \in [Users -> UserRow] /\ call' \in [Calls -> CallState]
             /\ hours' \in [Users -> Nat]
  <2> DEFINE u == call[c].user
  <2>1. /\ hours' = hours /\ clock' = clock /\ events' = events /\ users' = users
        /\ \/ call[c].at = "running" /\ call' = [call EXCEPT ![c] = Seen(u, call[c].now)]
           \/ call[c].at \in {"running", "seen"} /\ call' = [call EXCEPT ![c] = Replying(u)]
           \/ call' = [call EXCEPT ![c] = Idle]
           \/ /\ call[c].at = "running"
              /\ call' = [call EXCEPT ![c] = Running(u, call[c].cmd)]
    BY <1>8 DEF TakeTime, ReadHourlyBank, FailCommand, EndCommand, Runs
  <2>2. call[c].at \in {"running", "seen"} => u \in Users /\ Replying(u) \in CallState
    <3>1. call[c].at \in {"running", "seen"} => u \in Users
      BY <1>1, CallParts
    <3> HIDE DEF u
    <3> QED BY <3>1 DEF Replying, CallState
  <2>3. call[c].at = "running" => Seen(u, call[c].now) \in CallState
    <3> SUFFICES ASSUME call[c].at = "running" PROVE Seen(u, call[c].now) \in CallState
      OBVIOUS
    <3>1. u \in Users /\ call[c].now \in Time
      BY <1>1, CallParts
    <3>2. users[u] \in UserRow
      BY <1>1, <3>1
    <3> HIDE DEF u
    <3>3. /\ users[u].level \in 1 .. MaxLevel /\ users[u].hourly_bank \in 0 .. MaxLevel
          /\ users[u].last_hourly_claim \in Time \union {Never}
      BY <3>2, RowParts
    <3> QED BY <3>1, <3>3 DEF Seen, CallState
  <2>4. Idle \in CallState
    BY DEF Idle, CallState
  <2>5. call[c].at = "running" => Running(u, call[c].cmd) \in CallState
    <3>1. call[c].at = "running" => u \in Users /\ call[c].cmd \in Commands
      BY <1>1, CallParts
    <3> HIDE DEF u
    <3> QED BY <1>1, <3>1 DEF Running, CallState
  <2>6. call' \in [Calls -> CallState]
    <3> HIDE DEF u
    <3> QED BY <1>1, <2>1, <2>2, <2>3, <2>4, <2>5, CallsFit
  <2> QED BY <1>1, <2>1, <2>6
<1>9. CASE (\E u \in Players : CommandHangs(u)) \/ Tick
  <2>1. /\ hours' = hours /\ events' = events /\ users' = users /\ call' = call
        /\ clock' = clock \/ (clock < MaxTime /\ clock' = clock + 1)
    BY <1>9 DEF CommandHangs, Tick
  <2>2. clock' \in Time
    BY <1>1, <2>1, TimesAreInts DEF Time
  <2> QED BY <1>1, <2>1, <2>2
<1> QED BY <1>2, <1>3, <1>4, <1>5, <1>6, <1>7, <1>8, <1>9 DEF ClaimsNext

\* What TypeOK says beyond RewardsInv.
RowsFit ==
    /\ clock \in Time /\ events \in 0 .. MaxEvents
    /\ users \in [Users -> UserRow] /\ call \in [Calls -> CallState]
    /\ hours \in [Users -> Nat]
    /\ msg \in [Messages -> MsgState]
    /\ {flushed, gained} \subseteq [Users -> Time \union {Never}]
    /\ stats \in [Users -> [msg_count: Nat, last_msg_reward: Time \union {Never},
                            last_vc_reward: Time \union {Never}]]
    /\ voice \in Time \union {Never}
    /\ DOMAIN exp = Users /\ \A u \in Users : exp[u].last \in Time \union {Never}

\* It is all that is missing.
LEMMA TypesFollow == RewardsInv /\ RowsFit <=> RewardsInv /\ TypeOK
<1>1. ASSUME RewardsInv, RowsFit PROVE TypeOK
  <2>1. lock \in LockType /\ dailies \in [Users -> [Days -> Nat]] /\ overrun \subseteq Users
    BY <1>1 DEF RewardsInv, DailyInv, DaysAreOrdered, CallsHoldLocks
  <2>2. /\ {pending, handled, counted, recounted, unsettled, born} \subseteq [Users -> Nat]
        /\ exp \in [Users -> [last: Int, early: Nat]]
        /\ entry \in [Users -> [lk: Nat, users: Nat]]
    BY <1>1 DEF RewardsInv, ChatInv, ChatTables
  <2>3. exp \in [Users -> [last: Time \union {Never}, early: Nat]]
    <3>1. \A u \in Users : exp[u] \in [last: Time \union {Never}, early: Nat]
      <4> SUFFICES ASSUME NEW u \in Users
                   PROVE  exp[u] \in [last: Time \union {Never}, early: Nat]
        OBVIOUS
      <4>1. exp[u] \in [last: Int, early: Nat] /\ exp[u].last \in Time \union {Never}
        BY <1>1, <2>2 DEF RowsFit
      <4> QED BY <4>1
    <3> QED BY <2>2, <3>1
  <2> QED BY <1>1, <2>1, <2>2, <2>3 DEF RowsFit, TypeOK, ClaimsTypeOK
<1>2. ASSUME TypeOK PROVE RowsFit
  <2>1. DOMAIN exp = Users /\ \A u \in Users : exp[u].last \in Time \union {Never}
    BY <1>2 DEF TypeOK
  <2> QED BY <1>2, <2>1 DEF RowsFit, TypeOK, ClaimsTypeOK
<1> QED BY <1>1, <1>2

\* The parts of a task.
LEMMA TaskParts ==
    ASSUME msg \in [Messages -> MsgState], NEW m \in Messages
    PROVE  /\ msg[m].at \in {"none", "waiting", "exp", "count"}
           /\ msg[m].at # "none" => msg[m].user \in Users /\ msg[m].lk \in Nat
           /\ msg[m].at \in {"exp", "count"} =>
                 /\ msg[m].now \in Time /\ msg[m].due \in BOOLEAN /\ msg[m].n \in Nat
                 /\ [msg[m] EXCEPT !.at = "count"] \in MsgState
<1>1. msg[m] \in MsgState
  OBVIOUS
<1>2. msg[m].at \in {"exp", "count"} =>
         msg[m] \in [at: {"exp", "count"}, user: Users, lk: Nat, now: Time, due: BOOLEAN, n: Nat]
  BY <1>1 DEF MsgState
<1>3. msg[m].at \in {"exp", "count"} => [msg[m] EXCEPT !.at = "count"] \in MsgState
  <2> SUFFICES ASSUME msg[m].at \in {"exp", "count"}
               PROVE  [msg[m] EXCEPT !.at = "count"] \in MsgState
    OBVIOUS
  <2>1. [msg[m] EXCEPT !.at = "count"]
          \in [at: {"exp", "count"}, user: Users, lk: Nat, now: Time, due: BOOLEAN, n: Nat]
    BY <1>2
  <2> QED BY <2>1 DEF MsgState
<1>4. /\ msg[m].at \in {"none", "waiting", "exp", "count"}
      /\ msg[m].at # "none" => msg[m].user \in Users /\ msg[m].lk \in Nat
  BY <1>1 DEF MsgState
<1> QED BY <1>2, <1>3, <1>4

\* A task that has left fits.
LEMMA NoneFits == None \in MsgState
  BY DEF None, MsgState

\* The transaction of the count keeps rows and statistics of their types.
LEMMA CountFits ==
    ASSUME RowsFit, NEW u \in Users, NEW n \in Nat, NEW t \in Time, CountMessages(u, n, t)
    PROVE  /\ users' \in [Users -> UserRow]
           /\ stats' \in [Users -> [msg_count: Nat, last_msg_reward: Time \union {Never},
                                    last_vc_reward: Time \union {Never}]]
<1> DEFINE Stats == [msg_count: Nat, last_msg_reward: Time \union {Never},
                     last_vc_reward: Time \union {Never}]
           added == [stats[u] EXCEPT !.msg_count = @ + n]
           reset == [added EXCEPT !.msg_count = 0, !.last_msg_reward = t]
<1>1. users \in [Users -> UserRow] /\ stats \in [Users -> Stats]
  BY DEF RowsFit
<1>2. added \in Stats
  <2>1. stats[u] \in Stats
    BY <1>1
  <2> QED BY <2>1
<1>3. reset \in Stats
  <2> HIDE DEF added
  <2> QED BY <1>2
<1>4. \/ users' = users /\ stats' = [stats EXCEPT ![u] = added]
      \/ /\ users' = [users EXCEPT ![u].balance = @ + 1]
         /\ stats' = [stats EXCEPT ![u] = reset]
  BY DEF CountMessages
<1>5. stats' \in [Users -> Stats]
  <2> HIDE DEF added, reset, Stats
  <2> QED BY <1>1, <1>2, <1>3, <1>4
<1>6. users' \in [Users -> UserRow]
  <2>1. users[u] \in UserRow /\ users[u].balance \in Nat
    BY <1>1, RowParts
  <2>2. users[u].balance + 1 \in Nat
    BY <2>1
  <2>3. [users[u] EXCEPT !.balance = users[u].balance + 1] \in UserRow
    BY <2>1, <2>2, ColumnsFit
  <2> HIDE DEF added, reset
  <2> QED BY <1>1, <1>4, <2>3
<1> QED BY <1>5, <1>6

\* A message comes or gets the lock.
LEMMA ComingFits ==
    ASSUME RewardsInv, RowsFit, NEW m \in Messages,
           (\E u \in Players : Arrive(m, u)) \/ Enter(m)
    PROVE  RowsFit'
<1>1. /\ msg \in [Messages -> MsgState] /\ clock \in Time /\ events \in 0 .. MaxEvents
      /\ {pending, born} \subseteq [Users -> Nat] /\ entry \in [Users -> [lk: Nat, users: Nat]]
  BY DEF RowsFit, RewardsInv, ChatInv, ChatTables
<1>2. /\ UNCHANGED <<clock, users, call, hours, flushed, gained, stats, voice, exp>>
      /\ events' = events \/ (events < MaxEvents /\ events' = events + 1)
  BY DEF Arrive, Enter, Happens, claimVars
<1>3. events' \in 0 .. MaxEvents
  BY <1>1, <1>2, TimesAreInts
<1>4. msg' \in [Messages -> MsgState]
  <2>1. ASSUME NEW u \in Players, Arrive(m, u)
        PROVE  msg' \in [Messages -> MsgState]
    <3> DEFINE lk == IF entry[u].lk = NoLock THEN born[u] + 1 ELSE entry[u].lk
    <3>1. u \in Users
      BY PlayersAssumption
    <3>2. lk \in Nat
      BY <1>1, <3>1
    <3>3. msg' = [msg EXCEPT ![m] = Waiting(u, lk)]
      BY <2>1 DEF Arrive
    <3> HIDE DEF lk
    <3>4. Waiting(u, lk) \in MsgState
      BY <3>1, <3>2 DEF Waiting, MsgState
    <3> QED BY <1>1, <3>3, <3>4
  <2>2. CASE Enter(m)
    <3> DEFINE u == msg[m].user
               due == Rested(gained[u])
               n == pending[u] + 1
    <3>1. msg[m].at = "waiting"
      BY <2>2 DEF Enter
    <3>2. u \in Users /\ msg[m].lk \in Nat
      BY <1>1, <3>1, TaskParts
    <3>3. n \in Nat
      BY <1>1, <3>2
    <3>4. \/ msg' = [msg EXCEPT ![m] = None]
          \/ msg' = [msg EXCEPT ![m] = Flushing(u, msg[m].lk, due, n)]
      BY <2>2 DEF Enter
    <3>5. due \in BOOLEAN
      BY DEF Rested
    <3> HIDE DEF u, due, n
    <3>6. Flushing(u, msg[m].lk, due, n) \in MsgState
      BY <1>1, <3>2, <3>3, <3>5 DEF Flushing, MsgState
    <3> QED BY <1>1, <3>4, <3>6, NoneFits
  <2> QED BY <2>1, <2>2
<1> QED BY <1>2, <1>3, <1>4 DEF RowsFit

\* The experience is awarded, and the task may see an error.
LEMMA AwardFits ==
    ASSUME RowsFit, RewardsInv, NEW m \in Messages, AwardExp(m) \/ AwardReplyLost(m)
    PROVE  RowsFit'
<1> DEFINE u == msg[m].user
<1>1. /\ msg \in [Messages -> MsgState] /\ users \in [Users -> UserRow] /\ DOMAIN exp = Users
      /\ \A v \in Users : exp[v].last \in Time \union {Never}
  BY DEF RowsFit
<1>2. /\ UNCHANGED <<clock, events, call, hours, flushed, gained, stats, voice>>
      /\ msg[m].at = "exp"
      /\ msg' = [msg EXCEPT ![m].at = "count"] \/ msg' = [msg EXCEPT ![m] = None]
      /\ \E up \in {0, 1} : users' = [users EXCEPT ![u].level = Lesser(MaxLevel, @ + up)]
      /\ \E early : exp' = [exp EXCEPT ![u] = [last |-> msg[m].now, early |-> early]]
  BY DEF AwardExp, AwardReplyLost, AddUserExp, Raise
<1>3. u \in Users /\ msg[m].now \in Time /\ [msg[m] EXCEPT !.at = "count"] \in MsgState
  BY <1>1, <1>2, TaskParts
<1>4. msg' \in [Messages -> MsgState]
  BY <1>1, <1>2, <1>3, NoneFits
<1>5. users' \in [Users -> UserRow]
  <2> HIDE DEF u
  <2>1. users[u] \in UserRow /\ users[u].level \in 1 .. MaxLevel
    BY <1>1, <1>3, RowParts
  <2>2. PICK up \in {0, 1} : users' = [users EXCEPT ![u].level = Lesser(MaxLevel, @ + up)]
    BY <1>2
  <2>3. Lesser(MaxLevel, users[u].level + up) \in 1 .. MaxLevel
    BY <2>1, TimesAreInts DEF Lesser
  <2>4. [users[u] EXCEPT !.level = Lesser(MaxLevel, users[u].level + up)] \in UserRow
    BY <2>1, <2>3, ColumnsFit
  <2> QED BY <1>1, <2>2, <2>4
<1>6. DOMAIN exp' = Users /\ \A v \in Users : exp'[v].last \in Time \union {Never}
  <2> HIDE DEF u
  <2> QED BY <1>1, <1>2, <1>3
<1> QED BY <1>2, <1>4, <1>5, <1>6 DEF RowsFit

\* The transactions of the count, and those that fail.
LEMMA FlushFits ==
    ASSUME RowsFit, NEW m \in Messages, Flush(m) \/ FlushFails(m) \/ FlushReplyLost(m)
    PROVE  RowsFit'
<1> DEFINE u == msg[m].user
<1>1. /\ msg \in [Messages -> MsgState]
      /\ {flushed, gained} \subseteq [Users -> Time \union {Never}]
  BY DEF RowsFit
<1>2. /\ UNCHANGED <<clock, events, call, hours, voice, exp>>
      /\ msg[m].at \in {"exp", "count"} /\ msg' = [msg EXCEPT ![m] = None]
      /\ \/ UNCHANGED <<users, stats>>
         \/ CountMessages(u, msg[m].n, msg[m].now)
  BY DEF Flush, FlushFails, FlushReplyLost, Raise, Inside
<1>3. \/ UNCHANGED <<flushed, gained>>
      \/ /\ flushed' = [flushed EXCEPT ![u] = msg[m].now]
         /\ \/ gained' = [gained EXCEPT ![u] = msg[m].now]
            \/ gained' = [gained EXCEPT ![u] = gained[u]]
  BY DEF Flush, FlushFails, FlushReplyLost, Raise
<1>4. u \in Users /\ msg[m].now \in Time /\ msg[m].n \in Nat
  BY <1>1, <1>2, TaskParts
<1>5. msg' \in [Messages -> MsgState]
  BY <1>1, <1>2, NoneFits
<1>6. {flushed', gained'} \subseteq [Users -> Time \union {Never}]
  <2> HIDE DEF u
  <2>1. flushed' \in [Users -> Time \union {Never}]
    BY <1>1, <1>3, <1>4
  <2>2. gained' \in [Users -> Time \union {Never}]
    BY <1>1, <1>3, <1>4
  <2> QED BY <2>1, <2>2
<1>7. /\ users' \in [Users -> UserRow]
      /\ stats' \in [Users -> [msg_count: Nat, last_msg_reward: Time \union {Never},
                               last_vc_reward: Time \union {Never}]]
  <2>1. CASE UNCHANGED <<users, stats>>
    BY <2>1 DEF RowsFit
  <2>2. CASE CountMessages(u, msg[m].n, msg[m].now)
    <3> HIDE DEF u
    <3> QED BY <1>4, <2>2, CountFits
  <2> QED BY <1>2, <2>1, <2>2
<1> QED BY <1>2, <1>5, <1>6, <1>7 DEF RowsFit

\* The voice channels.
LEMMA VoiceFits ==
    ASSUME RowsFit, VoiceRound \/ (\E who \in SUBSET Players : AwardVoice(who))
    PROVE  RowsFit'
<1> DEFINE Stats == [msg_count: Nat, last_msg_reward: Time \union {Never},
                     last_vc_reward: Time \union {Never}]
<1>1. /\ users \in [Users -> UserRow] /\ stats \in [Users -> Stats]
      /\ voice \in Time \union {Never} /\ clock \in Time /\ events \in 0 .. MaxEvents
  BY DEF RowsFit
<1>2. CASE VoiceRound
  <2>1. /\ UNCHANGED <<clock, users, call, hours, msg, flushed, gained, stats, exp>>
        /\ voice' = clock /\ events < MaxEvents /\ events' = events + 1
    BY <1>2 DEF VoiceRound, Happens
  <2>2. events' \in 0 .. MaxEvents /\ voice' \in Time \union {Never}
    BY <1>1, <2>1, TimesAreInts
  <2> QED BY <2>1, <2>2 DEF RowsFit
<1>3. ASSUME NEW who \in SUBSET Players, AwardVoice(who)
      PROVE  RowsFit'
  <2> DEFINE paid == {u \in who : stats[u].last_vc_reward = Never
                                  \/ voice > stats[u].last_vc_reward}
  <2>1. /\ UNCHANGED <<clock, events, call, hours, msg, flushed, gained, exp>>
        /\ voice' = Never /\ voice # Never
        /\ users' = [u \in Users |->
              IF u \in paid THEN [users[u] EXCEPT !.balance = @ + 1] ELSE users[u]]
        /\ stats' = [u \in Users |->
              IF u \in paid THEN [stats[u] EXCEPT !.last_vc_reward = voice] ELSE stats[u]]
    BY <1>3 DEF AwardVoice
  <2> HIDE DEF paid
  <2>2. users' \in [Users -> UserRow]
    <3>1. ASSUME NEW u \in Users PROVE [users[u] EXCEPT !.balance = @ + 1] \in UserRow
      <4>1. users[u] \in UserRow /\ users[u].balance \in Nat
        BY <1>1, RowParts
      <4>2. users[u].balance + 1 \in Nat
        BY <4>1
      <4> QED BY <4>1, <4>2, ColumnsFit
    <3> QED BY <1>1, <2>1, <3>1
  <2>3. stats' \in [Users -> Stats]
    <3>1. ASSUME NEW u \in Users
          PROVE  [stats[u] EXCEPT !.last_vc_reward = voice] \in Stats
      <4>1. stats[u] \in Stats
        BY <1>1
      <4> QED BY <1>1, <4>1
    <3> HIDE DEF Stats
    <3> QED BY <1>1, <2>1, <3>1
  <2> QED BY <2>1, <2>2, <2>3 DEF RowsFit
<1> QED BY <1>2, <1>3

\* Every row, command, task and time stays within its type.
THEOREM RewardsTypes == Spec => []TypeOK
<1>1. ASSUME Init PROVE RowsFit
  <2>1. 0 \in Time /\ 0 \in 0 .. MaxEvents
    BY TimesAreInts DEF Time
  <2>2. users \in [Users -> UserRow]
    BY <1>1, <2>1, TimesAreInts DEF Init, ClaimsInit, UserRow
  <2>3. call \in [Calls -> CallState]
    BY <1>1 DEF Init, ClaimsInit, Idle, CallState
  <2>4. msg \in [Messages -> MsgState]
    BY <1>1, NoneFits DEF Init
  <2>5. /\ {flushed, gained} \subseteq [Users -> Time \union {Never}]
        /\ stats \in [Users -> [msg_count: Nat, last_msg_reward: Time \union {Never},
                                last_vc_reward: Time \union {Never}]]
        /\ voice \in Time \union {Never} /\ hours \in [Users -> Nat]
        /\ DOMAIN exp = Users /\ \A u \in Users : exp[u].last \in Time \union {Never}
    BY <1>1 DEF Init, ClaimsInit
  <2>6. clock \in Time /\ events \in 0 .. MaxEvents
    BY <1>1, <2>1 DEF Init, ClaimsInit
  <2> QED BY <2>2, <2>3, <2>4, <2>5, <2>6 DEF RowsFit
<1>2. ASSUME RewardsInv, RowsFit, [Next]_vars PROVE RowsFit'
  <2>1. CASE ClaimsNext /\ UNCHANGED chatVars
    <3>1. ClaimsTypeOK
      BY <1>2, TypesFollow DEF TypeOK
    <3>2. UNCHANGED <<msg, flushed, gained, stats, voice, exp>>
      BY <2>1 DEF chatVars
    <3>3. /\ clock' \in Time /\ events' \in 0 .. MaxEvents
          /\ users' \in [Users -> UserRow] /\ call' \in [Calls -> CallState]
          /\ hours' \in [Users -> Nat]
      BY <2>1, <3>1, CommandsFit
    <3> QED BY <1>2, <3>2, <3>3 DEF RowsFit
  <2>2. CASE UNCHANGED vars
    BY <1>2, <2>2 DEF RowsFit, vars, claimVars, chatVars
  <2> QED BY <1>2, <2>1, <2>2, ComingFits, AwardFits, FlushFits, VoiceFits DEF Next
<1>3. RewardsInv /\ RowsFit => TypeOK
  BY TypesFollow
<1> QED BY <1>1, <1>2, <1>3, RewardsInvariance, PTL DEF Spec
=============================================================================
