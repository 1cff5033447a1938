------------------------------- MODULE MCRoulette -------------------------------
(***************************************************************************)
(* Instances of Roulette for TLC.                                          *)
(***************************************************************************)
EXTENDS Roulette, TLC

CONSTANTS h, a, b, c

Symmetry == Permutations({a, b, c})
================================================================================
