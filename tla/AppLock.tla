------------------------------- MODULE AppLock -------------------------------
(***************************************************************************)
(* The lock of the slash commands (bot_modules/runtime/app_lock.py): a     *)
(* player runs one command that changes data at a time, a query runs       *)
(* beside it.  The lock of a command that runs for longer than 180 s is    *)
(* handed to the next command of the player while the first still runs.    *)
(*                                                                         *)
(* The lock lives in memory.  A command awaits Discord and connections of  *)
(* the pool before, between and after its transactions, so the 180 s may   *)
(* be over at any of them.  Whoever extends this module says when a        *)
(* command comes, when it ends and which still have work to do.            *)
(***************************************************************************)
CONSTANTS
    Users,      \* user ids
    Calls,      \* slots for slash commands that are running
    Nobody      \* no command holds the lock

ASSUME NobodyAssumption == Nobody \notin Calls

VARIABLES
    lock,       \* locks: the command that holds it, and whether 180 s are over
    overrun     \* ghost: whose lock was taken from a command that had work to do

lockVars == <<lock, overrun>>

LockType == [Users -> [holder: Calls \union {Nobody}, stale: BOOLEAN]]

Free == [holder |-> Nobody, stale |-> FALSE]

LockInit == lock = [u \in Users |-> Free] /\ overrun = {}

\* A command of u that changes data may start.
Admits(u) == lock[u].holder = Nobody \/ lock[u].stale

\* c takes the lock of u, perhaps from one of those that are at work.
Take(u, c, working) ==
    /\ lock' = [lock EXCEPT ![u] = [holder |-> c, stale |-> FALSE]]
    /\ overrun' = IF lock[u].holder \in working THEN overrun \union {u} ELSE overrun

\* Mutant: whatever command of u ends, the lock of u is free.
ReleaseMutant(u, c) ==
    c \in Calls /\ lock' = [lock EXCEPT ![u] = Free] /\ UNCHANGED overrun

\* Only the command that holds the lock gives it back.
Release(u, c) ==
    /\ lock' = [lock EXCEPT ![u] = IF @.holder = c THEN Free ELSE @]
    /\ UNCHANGED overrun

\* The 180 s of the holder are over.
Outlive(u) ==
    /\ lock[u].holder # Nobody /\ ~lock[u].stale
    /\ lock' = [lock EXCEPT ![u].stale = TRUE]
    /\ UNCHANGED overrun
===============================================================================
