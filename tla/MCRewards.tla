------------------------------ MODULE MCRewards ------------------------------
(***************************************************************************)
(* Instances of Rewards for TLC.                                           *)
(***************************************************************************)
EXTENDS Rewards, TLC

CONSTANTS a, b, c1, c2, m1, m2

Symmetry == Permutations(Calls) \union Permutations(Messages)
===============================================================================
