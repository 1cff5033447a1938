------------------------------- MODULE Rewards -------------------------------
(***************************************************************************)
(* What the bot pays for being there (bot_modules/runtime/events.py,       *)
(* activity_repo.py, game_repo.add_user_exp): experience and coins for     *)
(* chatting, coins for voice channels.  It runs beside the commands of     *)
(* Claims and shares the table users with them: the experience moves the   *)
(* level, and the level is what /hourly may save up.                       *)
(*                                                                         *)
(* on_message is handled by one task per message.  A lock per player       *)
(* (runtime/locks.py) puts the tasks of one player in line across the      *)
(* await of the database; its entry is dropped by the last that leaves.    *)
(* The database work is two transactions, experience first, count second;  *)
(* each may fail, and each may be committed although its caller sees an    *)
(* error.                                                                  *)
(***************************************************************************)
EXTENDS Claims

CONSTANTS
    Messages,       \* slots for messages that are being handled
    FlushCount,     \* messages that make a flush due, 3 in the code
    RewardCount     \* messages that earn coins, 10 in the code

ASSUME CountsAssumption == {FlushCount, RewardCount} \subseteq Nat \ {0}
ASSUME MessagesAssumption == IsFiniteSet(Messages)

VARIABLES
    entry,      \* activity_locks: the lock of a player and how many use it
    born,       \* how many locks were made for a player: their identity
    msg,        \* what the task of each message is doing
    pending,    \* pending_msg_counts
    flushed,    \* last_msg_flush_ts
    gained,     \* last_exp_award_ts
    stats,      \* the table activity_stats
    voice,      \* the round of vc_reward_task: its time, or Never
    handled,    \* ghost: the messages that entered the handler
    counted,    \* ghost: the sum of the counts that were committed
    recounted,  \* ghost: the counts committed although the task saw an error
    exp,        \* ghost: time of the last experience, how many came too early
    unsettled   \* ghost: experience committed by a task that failed afterwards

chatVars ==
    <<entry, born, msg, pending, flushed, gained, stats, voice,
      handled, counted, recounted, exp, unsettled>>
vars == <<claimVars, chatVars>>

NoLock == 0

MsgState ==
    [at: {"none"}]
    \union [at: {"waiting"}, user: Users, lk: Nat]
    \union [at: {"exp", "count"}, user: Users, lk: Nat, now: Time, due: BOOLEAN, n: Nat]

None == [at |-> "none"]
Waiting(u, lk) == [at |-> "waiting", user |-> u, lk |-> lk]
Flushing(u, lk, due, n) ==
    [at |-> IF due THEN "exp" ELSE "count", user |-> u, lk |-> lk,
     now |-> clock, due |-> due, n |-> n]

Init ==
    /\ ClaimsInit
    /\ entry = [u \in Users |-> [lk |-> NoLock, users |-> 0]]
    /\ born = [u \in Users |-> 0]
    /\ msg = [m \in Messages |-> None]
    /\ pending = [u \in Users |-> 0]
    /\ flushed = [u \in Users |-> Never]
    /\ gained = [u \in Users |-> Never]
    /\ stats = [u \in Users |->
                  [msg_count |-> 0, last_msg_reward |-> Never, last_vc_reward |-> Never]]
    /\ voice = Never
    /\ handled = [u \in Users |-> 0]
    /\ counted = [u \in Users |-> 0]
    /\ recounted = [u \in Users |-> 0]
    /\ exp = [u \in Users |-> [last |-> Never, early |-> 0]]
    /\ unsettled = [u \in Users |-> 0]

\* A message comes: its task asks for the lock of the player.
Arrive(m, u) ==
    /\ msg[m] = None
    /\ Happens
    /\ LET fresh == entry[u].lk = NoLock
           lk == IF fresh THEN born[u] + 1 ELSE entry[u].lk
       IN  /\ entry' = [entry EXCEPT ![u] = [lk |-> lk, users |-> @.users + 1]]
           /\ born' = [born EXCEPT ![u] = lk]
           /\ msg' = [msg EXCEPT ![m] = Waiting(u, lk)]
    /\ UNCHANGED <<clock, users, call, dailies, hours, lockVars, pending, flushed, gained,
                   stats, voice, handled, counted, recounted, exp, unsettled>>

Inside(m) == msg[m].at \in {"exp", "count"}

LockFree(u, lk) ==
    \A m \in Messages : Inside(m) => msg[m].user # u \/ msg[m].lk # lk

\* Mutant: the entry is dropped when the lock is given back, waiters or not.
LeaveMutant(u) ==
    entry' = [entry EXCEPT ![u] = [lk |-> NoLock, users |-> @.users - 1]]

\* hold is left: the last one drops the entry.
Leave(u) ==
    entry' = [entry EXCEPT ![u] =
        [lk |-> IF @.users = 1 THEN NoLock ELSE @.lk, users |-> @.users - 1]]

\* The task has the lock: it counts the message and leaves, or turns to the
\* database.
Enter(m) ==
    /\ msg[m].at = "waiting"
    /\ LockFree(msg[m].user, msg[m].lk)
    /\ LET u == msg[m].user
           n == pending[u] + 1
           due == Rested(gained[u])
       IN  /\ pending' = [pending EXCEPT ![u] = n]
           /\ handled' = [handled EXCEPT ![u] = @ + 1]
           /\ \/ /\ n < FlushCount /\ ~Rested(flushed[u]) /\ ~due
                 /\ msg' = [msg EXCEPT ![m] = None]
                 /\ Leave(u)
              \/ /\ n >= FlushCount \/ Rested(flushed[u]) \/ due
                 /\ msg' = [msg EXCEPT ![m] = Flushing(u, msg[m].lk, due, n)]
                 /\ UNCHANGED entry
    /\ UNCHANGED <<claimVars, born, flushed, gained, stats, voice, counted, recounted, exp,
                   unsettled>>

\* The transaction of add_user_exp; the gain may reach the next level.
AddUserExp(u, t) ==
    /\ \E up \in {0, 1} :
        users' = [users EXCEPT ![u].level = Lesser(MaxLevel, @ + up)]
    /\ exp' = [exp EXCEPT ![u] =
                 [last |-> t,
                  early |-> IF @.last = Never \/ t > @.last THEN @.early ELSE @.early + 1]]

AwardExp(m) ==
    /\ msg[m].at = "exp"
    /\ AddUserExp(msg[m].user, msg[m].now)
    /\ msg' = [msg EXCEPT ![m].at = "count"]
    /\ UNCHANGED <<clock, events, call, dailies, hours, lockVars, entry, born, pending, flushed,
                   gained, stats, voice, handled, counted, recounted, unsettled>>

\* The messages earn coins at time t: enough of them, and half an hour later.
Earns(row, t) ==
    /\ row.msg_count >= RewardCount
    /\ row.last_msg_reward = Never \/ t > row.last_msg_reward

\* The transaction that adds the count and pays the coins it earns.
CountMessages(u, n, t) ==
    LET added == [stats[u] EXCEPT !.msg_count = @ + n] IN
    /\ \/ /\ Earns(added, t)
          /\ users' = [users EXCEPT ![u].balance = @ + 1]
          /\ stats' = [stats EXCEPT ![u] = [added EXCEPT !.msg_count = 0, !.last_msg_reward = t]]
       \/ /\ ~Earns(added, t)
          /\ stats' = [stats EXCEPT ![u] = added]
          /\ UNCHANGED users
    /\ counted' = [counted EXCEPT ![u] = @ + n]

\* The count commits and the task puts its numbers back.
Flush(m) ==
    /\ msg[m].at = "count"
    /\ LET u == msg[m].user IN
        /\ CountMessages(u, msg[m].n, msg[m].now)
        /\ pending' = [pending EXCEPT ![u] = 0]
        /\ flushed' = [flushed EXCEPT ![u] = msg[m].now]
        /\ gained' = [gained EXCEPT ![u] = IF msg[m].due THEN msg[m].now ELSE @]
        /\ Leave(u)
    /\ msg' = [msg EXCEPT ![m] = None]
    /\ UNCHANGED <<clock, events, call, dailies, hours, lockVars, born, voice, handled, recounted,
                   exp, unsettled>>

\* The task sees an error: its numbers stay, the lock is given back.
Raise(m, awarded) ==
    LET u == msg[m].user
    IN  /\ Leave(u)
        /\ unsettled' = [unsettled EXCEPT ![u] = IF awarded THEN @ + 1 ELSE @]
        /\ msg' = [msg EXCEPT ![m] = None]
        /\ UNCHANGED <<clock, events, call, dailies, hours, lockVars, born, pending, flushed,
                       gained, voice, handled>>

\* Its experience was committed before.
Awarded(m) == msg[m].at = "count" /\ msg[m].due

\* A transaction of the task rolls back.
FlushFails(m) ==
    /\ Inside(m)
    /\ Raise(m, Awarded(m))
    /\ UNCHANGED <<users, stats, counted, recounted, exp>>

\* The experience is committed and the reply to the COMMIT is lost.
AwardReplyLost(m) ==
    /\ msg[m].at = "exp"
    /\ AddUserExp(msg[m].user, msg[m].now)
    /\ Raise(m, TRUE)
    /\ UNCHANGED <<stats, counted, recounted>>

\* The count is committed and the reply to the COMMIT is lost.
FlushReplyLost(m) ==
    /\ msg[m].at = "count"
    /\ CountMessages(msg[m].user, msg[m].n, msg[m].now)
    /\ recounted' = [recounted EXCEPT ![msg[m].user] = @ + msg[m].n]
    /\ Raise(m, Awarded(m))
    /\ UNCHANGED exp

\* vc_reward_task takes the time, then asks for every member in turn ...
VoiceRound ==
    /\ voice = Never
    /\ Happens
    /\ voice' = clock
    /\ UNCHANGED <<clock, users, call, dailies, hours, lockVars, entry, born, msg, pending, flushed,
                   gained, stats, handled, counted, recounted, exp, unsettled>>

\* ... and one transaction pays those whose last reward is half an hour old.
AwardVoice(who) ==
    /\ voice # Never
    /\ LET paid == {u \in who : stats[u].last_vc_reward = Never
                                \/ voice > stats[u].last_vc_reward}
       IN  /\ users' = [u \in Users |->
                IF u \in paid THEN [users[u] EXCEPT !.balance = @ + 1] ELSE users[u]]
           /\ stats' = [u \in Users |->
                IF u \in paid THEN [stats[u] EXCEPT !.last_vc_reward = voice] ELSE stats[u]]
    /\ voice' = Never
    /\ UNCHANGED <<clock, events, call, dailies, hours, lockVars, entry, born, msg, pending, flushed,
                   gained, handled, counted, recounted, exp, unsettled>>

Next ==
    \/ ClaimsNext /\ UNCHANGED chatVars
    \/ \E m \in Messages :
        \/ \E u \in Players : Arrive(m, u)
        \/ Enter(m)
        \/ AwardExp(m)
        \/ Flush(m)
        \/ FlushFails(m)
        \/ AwardReplyLost(m)
        \/ FlushReplyLost(m)
    \/ VoiceRound
    \/ \E who \in SUBSET Players : AwardVoice(who)

Spec == Init /\ [][Next]_vars

-------------------------------------------------------------------------------

TypeOK ==
    /\ ClaimsTypeOK
    /\ entry \in [Users -> [lk: Nat, users: Nat]]
    /\ born \in [Users -> Nat]
    /\ msg \in [Messages -> MsgState]
    /\ {pending, handled, counted, recounted, unsettled} \subseteq [Users -> Nat]
    /\ {flushed, gained} \subseteq [Users -> Time \union {Never}]
    /\ stats \in [Users -> [msg_count: Nat, last_msg_reward: Time \union {Never},
                            last_vc_reward: Time \union {Never}]]
    /\ voice \in Time \union {Never}
    /\ exp \in [Users -> [last: Time \union {Never}, early: Nat]]

\* While no task of the player is at the database, every message that was
\* handled is counted in the table or still pending; a message is counted
\* twice only when the reply to a COMMIT was lost.
MessagesAreCounted ==
    \A u \in Users :
        (\A m \in Messages : Inside(m) => msg[m].user # u)
            => counted[u] + pending[u] = handled[u] + recounted[u]

\* Experience comes once per cooldown; an award that came early is owed to a
\* task that failed after its first transaction had committed.
ExpWaits == \A u \in Users : exp[u].early <= unsettled[u]

\* Messages of one player are handled in order, so that no count is lost and
\* no cooldown of experience fires again during the await of the database
\* (MAINTENANCE.md:29), whatever the order in which the tasks come, and the
\* lock's entry outlives everyone who waits for it (locks.py).
ChatIsExact == MessagesAreCounted /\ ExpWaits

-------------------------------------------------------------------------------
(* The inductive invariant (RewardsProofs).                                *)

\* Of a player who was not overrun, no day after the last that was paid was
\* paid, and no other once more.
DaysAreOrdered ==
    /\ DOMAIN users = Users /\ dailies \in [Users -> [Days -> Nat]]
    /\ \A u \in Users :
        /\ "last_claim" \in DOMAIN users[u]
        /\ users[u].last_claim \in Int /\ users[u].last_claim <= Day(clock)
        /\ u \notin overrun => \A d \in Days :
            /\ dailies[u][d] <= 1
            /\ dailies[u][d] = 1 => d <= users[u].last_claim

\* A command that is not a query holds the lock of its player, fresh or stale,
\* while it has database work to do, unless the player was overrun; so the day
\* a /daily took is not older than the last that was paid.
CallsHoldLocks ==
    /\ DOMAIN call = Calls /\ lock \in LockType /\ overrun \subseteq Users
    /\ \A c \in Calls :
        /\ call[c].at \in {"running", "seen"} => call[c].user \in Users
        /\ call[c].at = "running" /\ call[c].cmd \notin ReadOnly =>
              call[c].user \in overrun \/ lock[call[c].user].holder = c
        /\ Runs(c, "daily") =>
              /\ call[c].now \in Nat /\ call[c].now <= clock
              /\ \/ call[c].user \in overrun
                 \/ users[call[c].user].last_claim <= Day(call[c].now)

DailyInv == clock \in Nat /\ DaysAreOrdered /\ CallsHoldLocks

\* The tasks of the messages of u, waiters included.
Tasks(u) == {m \in Messages : msg[m].at # "none" /\ msg[m].user = u}

ChatTables ==
    /\ {pending, handled, counted, recounted, unsettled, born} \subseteq [Users -> Nat]
    /\ gained \in [Users -> Int]
    /\ exp \in [Users -> [last: Int, early: Nat]]
    /\ entry \in [Users -> [lk: Nat, users: Nat]]
    /\ DOMAIN msg = Messages

\* The entry lives as long as its users, all of them use the same lock, and
\* one at a time is inside.
EntriesOutlive ==
    /\ \A m \in Messages :
        /\ msg[m].at \in {"none", "waiting", "exp", "count"}
        /\ msg[m].at # "none" =>
              msg[m].user \in Users /\ msg[m].lk = entry[msg[m].user].lk /\ msg[m].lk # NoLock
    /\ \A m, o \in Messages : Inside(m) /\ Inside(o) /\ msg[m].user = msg[o].user => m = o
    /\ \A u \in Users : entry[u].users = Cardinality(Tasks(u))

\* A task inside carries the pending count, and an experience that is due.
TasksAreCurrent ==
    \A m \in Messages : Inside(m) =>
        /\ DOMAIN msg[m] = {"at", "user", "lk", "now", "due", "n"}
        /\ msg[m].n = pending[msg[m].user]
        /\ msg[m].now \in Int
        /\ msg[m].at = "exp" => msg[m].due
        /\ msg[m].due => msg[m].now > gained[msg[m].user]
        /\ msg[m].due /\ msg[m].at = "count" => exp[msg[m].user].last = msg[m].now

\* Experience that was committed and is not noted in gained, by a task that
\* will not note it any more: the next award may come early.
Unnoted(u) ==
    IF exp[u].last > gained[u]
       /\ ~ \E m \in Messages : msg[m].at = "count" /\ msg[m].user = u /\ msg[m].due
    THEN 1 ELSE 0

CountsAgree ==
    \A u \in Users :
        /\ counted[u] + pending[u] = handled[u] + recounted[u]
        /\ exp[u].early + Unnoted(u) <= unsettled[u]

ChatInv ==
    clock \in Nat /\ ChatTables /\ EntriesOutlive /\ TasksAreCurrent /\ CountsAgree

RewardsInv == DailyInv /\ ChatInv
===============================================================================
