-------------------------------- MODULE MCDuel --------------------------------
(***************************************************************************)
(* Instances of Duel for TLC.                                              *)
(***************************************************************************)
EXTENDS Duel, TLC

CONSTANTS a, b

\* b can afford to be charged twice, and no third time.
MCInitial == (a :> 3 @@ b :> 5)
===============================================================================
