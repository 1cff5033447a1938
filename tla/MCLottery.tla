------------------------------ MODULE MCLottery ------------------------------
(***************************************************************************)
(* Instances of Lottery for TLC.                                           *)
(***************************************************************************)
EXTENDS Lottery, TLC

CONSTANTS a, b, w1, w2

\* Each can buy a ticket, and the winner two; b has a coin left that buys none.
MCInitial == (a :> 2 @@ b :> 3)
===============================================================================
