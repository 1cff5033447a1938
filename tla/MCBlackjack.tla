------------------------------ MODULE MCBlackjack ------------------------------
(***************************************************************************)
(* Instances of Blackjack for TLC.                                         *)
(***************************************************************************)
EXTENDS Blackjack, TLC

CONSTANTS ann, ben

\* A bet of two coins, and one on the pair.
MCStakes == {[bet |-> 2, pair |-> 1, three |-> 0]}
MCInitial == (ann :> 7 @@ ben :> 0)
MCSids == 1 .. 2
================================================================================
