----------------------------- MODULE WagerPromise -----------------------------
(***************************************************************************)
(* What the escrow of a game promises its players: a pot is filled while   *)
(* it is open, its outcome is decided once, and then everyone is paid what *)
(* was decided, in one step.  There are no deadlines, processes, locks or  *)
(* retries here; a pot may be decided at any time, by a refund of what it  *)
(* still holds or by the result of a game.  That nobody pays more than he  *)
(* has is no part of the promise.                                          *)
(***************************************************************************)
EXTENDS Integers

CONSTANTS
    Sids, Users,
    Stakes,     \* the amounts a user may be asked for
    Payouts,    \* the results a game may have
    Initial

VARIABLES
    purse,      \* what each user has
    pot,        \* what an open or decided session holds for each user
    stage,      \* "open", "decided" or "closed"
    due         \* what each user is to get, once that is decided

pvars == <<purse, pot, stage, due>>

Nothing == [u \in Users |-> 0]

PInit ==
    /\ purse = Initial
    /\ pot = [s \in Sids |-> Nothing]
    /\ stage = [s \in Sids |-> "open"]
    /\ due = [s \in Sids |-> Nothing]

\* A user pays n coins into an open pot.
PutIn(s, u, n) ==
    /\ stage[s] = "open"
    /\ purse' = [purse EXCEPT ![u] = @ - n]
    /\ pot' = [pot EXCEPT ![s][u] = @ + n]
    /\ UNCHANGED <<stage, due>>

\* A user draws n coins that another one left in an open pot.
Draw(s, from, u, n) ==
    /\ stage[s] = "open"
    /\ purse' = [purse EXCEPT ![u] = @ + n]
    /\ pot' = [pot EXCEPT ![s][from] = @ - n]
    /\ UNCHANGED <<stage, due>>

Decide(s, outcome) ==
    /\ stage[s] = "open"
    /\ stage' = [stage EXCEPT ![s] = "decided"]
    /\ due' = [due EXCEPT ![s] = outcome]
    /\ UNCHANGED <<purse, pot>>

PayOut(s) ==
    /\ stage[s] = "decided"
    /\ stage' = [stage EXCEPT ![s] = "closed"]
    /\ purse' = [u \in Users |-> purse[u] + due[s][u]]
    /\ pot' = [pot EXCEPT ![s] = Nothing]
    /\ UNCHANGED due

PNext ==
    \E s \in Sids :
        \/ \E u \in Users : \E n \in Stakes : PutIn(s, u, n)
        \/ \E from, u \in Users : \E n \in 1 .. pot[s][from] : Draw(s, from, u, n)
        \/ \E outcome \in Payouts \union {pot[s]} : Decide(s, outcome)
        \/ PayOut(s)

PSpec == PInit /\ [][PNext]_pvars
=============================================================================
