------------------------------- MODULE Claims -------------------------------
(***************************************************************************)
(* The commands that hand out coins without a wager, and the transfer      *)
(* (bot_modules/commands/economy.py, economy_repo.py, economy_service.py,  *)
(* the hourly part of /cooldowns in social_repo.py), under the lock of the *)
(* slash commands.                                                         *)
(*                                                                         *)
(* A transaction that locks the row of the player is one step, at its      *)
(* commit.  /daily, /hourly and /cooldowns take the time before they wait  *)
(* for the row, as they start or after a first await; /cooldowns reads the *)
(* row without a lock and writes it back in a step of its own.  Any await  *)
(* may outlive the lock of its command.  Time is counted in ticks: every   *)
(* cooldown of the code is one tick here, an hour is a tick and a day is   *)
(* DayLen ticks.  Every reward is one coin, and /hourly pays one for each  *)
(* hour.                                                                   *)
(***************************************************************************)
EXTENDS AppLock, Integers, FiniteSets

CONSTANTS
    Players,    \* bound of the model: the users who do something
    DayLen,     \* ticks of a day
    MaxLevel,   \* level 1 .. MaxLevel, the hours that can be saved up
    MaxRescues, \* 10 in the code
    MaxTime,    \* bound of the model: the clock stops here
    MaxEvents   \* bound of the model: commands, messages and voice rounds

ASSUME DayLenAssumption == DayLen \in Nat \ {0}
ASSUME MaxLevelAssumption == MaxLevel \in Nat \ {0}
ASSUME PlayersAssumption == Players \subseteq Users
ASSUME BoundsAssumption == {MaxRescues, MaxTime, MaxEvents} \subseteq Nat

VARIABLES
    clock,      \* now_tw_naive, in ticks
    events,     \* how many commands, messages and rounds there were
    users,      \* the columns of the table users, and daily_claims
    call,       \* what each running command is doing
    dailies,    \* log rows: how often each day was paid to each player
    hours       \* log rows: the hours paid to each player by /hourly

claimVars == <<clock, events, users, call, dailies, hours, lockVars>>

Never == -1

Time == 0 .. MaxTime
Day(t) == t \div DayLen
Days == 0 .. Day(MaxTime)

Lesser(x, y) == IF x <= y THEN x ELSE y
Greater(x, y) == IF x >= y THEN x ELSE y

UserRow == [
    balance: Nat,
    level: 1 .. MaxLevel,
    last_hourly_claim: Time \union {Never},
    hourly_bank: 0 .. MaxLevel,
    last_claim: Days \union {Never},
    last_beg: Time \union {Never},
    last_rescue: Time \union {Never},
    rescue_count: 0 .. MaxRescues]

Commands == {"daily", "hourly", "beg", "rescue", "transfer", "cooldowns"}

\* The commands that run without the lock.
ReadOnly == {"cooldowns"}

CallState ==
    [at: {"idle"}]
    \union [at: {"running"}, user: Users, cmd: Commands, now: Time]
    \union [at: {"seen"}, user: Users, now: Time, level: 1 .. MaxLevel,
            last: Time \union {Never}, bank: 0 .. MaxLevel]
    \union [at: {"replying"}, user: Users]

Idle == [at |-> "idle"]
Running(u, cmd) == [at |-> "running", user |-> u, cmd |-> cmd, now |-> clock]
Seen(u, t) ==
    [at |-> "seen", user |-> u, now |-> t, level |-> users[u].level,
     last |-> users[u].last_hourly_claim, bank |-> users[u].hourly_bank]
Replying(u) == [at |-> "replying", user |-> u]

\* Everybody has a row with a coin.
ClaimsInit ==
    /\ clock = 0 /\ events = 0
    /\ users = [u \in Users |->
          [balance |-> 1, level |-> 1,
           last_hourly_claim |-> Never, hourly_bank |-> 0, last_claim |-> Never,
           last_beg |-> Never, last_rescue |-> Never, rescue_count |-> 0]]
    /\ call = [c \in Calls |-> Idle]
    /\ dailies = [u \in Users |-> [d \in Days |-> 0]]
    /\ hours = [u \in Users |-> 0]
    /\ LockInit

\* A command, a message or a voice round comes.
Happens == events < MaxEvents /\ events' = events + 1

\* The commands that have database work to do.
Working == {c \in Calls : call[c].at \in {"running", "seen"}}

Start(c, u, cmd) ==
    /\ call[c] = Idle
    /\ Happens
    /\ IF cmd \in ReadOnly THEN UNCHANGED lockVars ELSE Admits(u) /\ Take(u, c, Working)
    /\ call' = [call EXCEPT ![c] = Running(u, cmd)]
    /\ UNCHANGED <<clock, users, dailies, hours>>

\* The transaction of command c commits: row is the new row of its player.
Commits(c, row) ==
    LET u == call[c].user IN
    /\ users' = [users EXCEPT ![u] = row]
    /\ call' = [call EXCEPT ![c] = Replying(u)]
    /\ UNCHANGED <<clock, events, lockVars>>

Runs(c, cmd) == call[c].at = "running" /\ call[c].cmd = cmd

\* The command waited for Discord, or for the row of its player to be there,
\* before it took the time.
TakeTime(c) ==
    /\ call[c].at = "running" /\ call[c].cmd \in {"daily", "hourly", "cooldowns"}
    /\ call' = [call EXCEPT ![c] = Running(call[c].user, call[c].cmd)]
    /\ UNCHANGED <<clock, events, users, dailies, hours, lockVars>>

\* claim_daily_reward compares the last day with the day it took.
Unclaimed(row, today) == row.last_claim # today

ClaimDailyReward(c) ==
    /\ Runs(c, "daily")
    /\ LET u == call[c].user
           today == Day(call[c].now)
       IN  \/ /\ ~Unclaimed(users[u], today)
              /\ Commits(c, users[u])
              /\ UNCHANGED <<dailies, hours>>
           \/ /\ Unclaimed(users[u], today)
              /\ Commits(c, [users[u] EXCEPT !.last_claim = today, !.balance = @ + 1])
              /\ dailies' = [dailies EXCEPT ![u][today] = @ + 1]
              /\ UNCHANGED hours

\* The hours that are full since last, at time t.
Elapsed(last, t) == IF last = Never THEN 0 ELSE Greater(0, t - last)

\* What the bank holds when the hours since last are added.
Saved(bank, last, t, lv) == Lesser(lv, bank + Elapsed(last, t))

\* The row after the bank was paid.
PaidRow(row, t) ==
    LET bank == Saved(row.hourly_bank, row.last_hourly_claim, t, row.level)
    IN  [row EXCEPT !.hourly_bank = 0, !.last_hourly_claim = Greater(@, t),
                    !.balance = @ + bank]

ClaimHourlyReward(c) ==
    /\ Runs(c, "hourly")
    /\ LET u == call[c].user
           new == PaidRow(users[u], call[c].now)
       IN  /\ Commits(c, new)
           /\ hours' = [hours EXCEPT ![u] = @ + new.balance - users[u].balance]
    /\ UNCHANGED dailies

\* /cooldowns: the row is read without a lock ...
ReadHourlyBank(c) ==
    /\ Runs(c, "cooldowns")
    /\ call' = [call EXCEPT ![c] = Seen(call[c].user, call[c].now)]
    /\ UNCHANGED <<clock, events, users, dailies, hours, lockVars>>

\* ... and what was read is written back with the hours added: nothing when
\* no hour is full.
RefreshHourlyBank(c) ==
    /\ call[c].at = "seen"
    /\ LET u == call[c].user
           s == call[c]
           row == users[u]
       IN  \/ /\ s.last = Never
              /\ Commits(c, [row EXCEPT !.last_hourly_claim = s.now])
           \/ /\ s.last # Never /\ s.now <= s.last
              /\ Commits(c, row)
           \/ /\ s.last # Never /\ s.now > s.last
              /\ Commits(c, [row EXCEPT
                    !.hourly_bank = Saved(s.bank, s.last, s.now, s.level),
                    !.last_hourly_claim = s.now])
    /\ UNCHANGED <<dailies, hours>>

\* One tick of cooldown is over.
Rested(last) == last = Never \/ clock > last

\* claim_beg_sync: refused, empty-handed or paid.
Begs(row) ==
    IF Rested(row.last_beg)
    THEN {[row EXCEPT !.last_beg = clock, !.balance = @ + earn] : earn \in {0, 1}}
    ELSE {row}

ClaimBeg(c) ==
    /\ Runs(c, "beg")
    /\ \E row \in Begs(users[call[c].user]) : Commits(c, row)
    /\ UNCHANGED <<dailies, hours>>

Rescuable(row) ==
    row.balance = 0 /\ row.rescue_count < MaxRescues /\ Rested(row.last_rescue)

\* claim_rescue_sync
Rescued(row) ==
    IF Rescuable(row)
    THEN [row EXCEPT !.balance = @ + 1, !.last_rescue = clock, !.rescue_count = @ + 1]
    ELSE row

ClaimRescue(c) ==
    /\ Runs(c, "rescue")
    /\ Commits(c, Rescued(users[call[c].user]))
    /\ UNCHANGED <<dailies, hours>>

\* Mutant: the balance of the sender is not compared with the amount.
AffordsMutant(u) == u \in Users

Affords(u) == users[u].balance >= 1

\* Both rows are locked in the order of their ids; the whole is one step.
TransferUsers(sender, receiver) ==
    \/ ~Affords(sender) /\ UNCHANGED users
    \/ /\ Affords(sender)
       /\ users' = [users EXCEPT ![sender].balance = @ - 1, ![receiver].balance = @ + 1]

Transfer(c) ==
    /\ Runs(c, "transfer")
    /\ \E receiver \in Users \ {call[c].user} : TransferUsers(call[c].user, receiver)
    /\ call' = [call EXCEPT ![c] = Replying(call[c].user)]
    /\ UNCHANGED <<clock, events, lockVars, dailies, hours>>

\* A statement fails; the transaction rolls back and the command raises.
FailCommand(c) ==
    /\ call[c].at \in {"running", "seen"}
    /\ call' = [call EXCEPT ![c] = Replying(call[c].user)]
    /\ UNCHANGED <<clock, events, users, dailies, hours, lockVars>>

\* The command has answered or raised: on_app_command_completion, on_error.
EndCommand(c) ==
    /\ call[c].at = "replying"
    /\ Release(call[c].user, c)
    /\ call' = [call EXCEPT ![c] = Idle]
    /\ UNCHANGED <<clock, events, users, dailies, hours>>

\* An await takes so long that the 180 s run out: for Discord (economy.py:144),
\* for a connection (db.py:108), for a row, or for the answer to be sent.
CommandHangs(u) ==
    /\ Outlive(u)
    /\ UNCHANGED <<clock, events, users, call, dailies, hours>>

Tick ==
    /\ clock < MaxTime
    /\ clock' = clock + 1
    /\ UNCHANGED <<events, users, call, dailies, hours, lockVars>>

ClaimsNext ==
    \/ \E c \in Calls :
        \/ \E u \in Players, cmd \in Commands : Start(c, u, cmd)
        \/ TakeTime(c)
        \/ ClaimDailyReward(c)
        \/ ClaimHourlyReward(c)
        \/ ReadHourlyBank(c)
        \/ RefreshHourlyBank(c)
        \/ ClaimBeg(c)
        \/ ClaimRescue(c)
        \/ Transfer(c)
        \/ FailCommand(c)
        \/ EndCommand(c)
    \/ \E u \in Players : CommandHangs(u)
    \/ Tick

-------------------------------------------------------------------------------

ClaimsTypeOK ==
    /\ clock \in Time
    /\ events \in 0 .. MaxEvents
    /\ users \in [Users -> UserRow]
    /\ call \in [Calls -> CallState]
    /\ dailies \in [Users -> [Days -> Nat]]
    /\ hours \in [Users -> Nat]
    /\ lock \in LockType /\ overrun \subseteq Users

\* A day is paid to a player once at most: /daily says that the player has
\* signed in today already (economy.py:150).  It takes the date before it waits
\* for the row and only compares it with the last day that was paid: claims
\* that overtake each other at midnight pay a day again.
DailyOncePerDay == \A u \in Users, d \in Days : dailies[u][d] <= 1

\* What prevents it is the lock of the commands, whatever hangs, fails or ends
\* in whichever order, and release_lock, which lets only the holder give it
\* back (app_lock.py): a day is paid twice only to a player whose lock was
\* handed on while a command still had database work to do.
OncePerDayUnderLock ==
    \A u \in Users \ overrun, d \in Days : dailies[u][d] <= 1

\* Nobody is paid more hours by /hourly than have passed: "Accumulate and
\* consume hourly slots under the same user row lock" (economy_repo.py:135).
HourPaidOnce == \A u \in Users : hours[u] <= clock
===============================================================================
