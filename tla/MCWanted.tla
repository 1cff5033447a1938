------------------------------- MODULE MCWanted -------------------------------
(***************************************************************************)
(* Instances of Wanted for TLC: a robber, a civilian and an officer.       *)
(***************************************************************************)
EXTENDS Wanted, TLC

CONSTANTS x, v, p, c1, c2

MCInitial == (x :> 1 @@ v :> 2 @@ p :> 2)
MCFirstRole == (x :> "criminal" @@ v :> "civilian" @@ p :> "cop")

Symmetry == Permutations(Calls)
===============================================================================
