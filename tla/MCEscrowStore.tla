---------------------------- MODULE MCEscrowStore ----------------------------
(***************************************************************************)
(* Instances of EscrowStore for TLC.                                       *)
(***************************************************************************)
EXTENDS EscrowStore, TLC

CONSTANTS a, b, duel, packet, w1, w2

Stake(s, e, u, n) == [sid |-> s, event |-> e, user |-> u, amount |-> n, shares |-> 0]

\* The stakes of two players; a packet of five coins in two shares, where the
\* cap of 40 % and the last share differ.
SafetyRequests ==
    {Stake(duel, "open", a, 1), Stake(duel, "join", b, 1),
     [sid |-> packet, event |-> "open", user |-> a, amount |-> 5, shares |-> 2]}

\* A result differs from every refund of both: of a pot of two a gets one coin
\* and the house the other; if only b has paid, a wins that.
DuelPayouts == {(a :> 1 @@ b :> 0)}

\* a cannot afford everything it may ask for.
SafetyInitial == (a :> 5 @@ b :> 1)

\* Liveness: one stake in each session, one share in the packet.
LiveRequests ==
    {Stake(duel, "open", a, 1),
     [sid |-> packet, event |-> "open", user |-> a, amount |-> 1, shares |-> 1]}
LiveInitial == (a :> 2 @@ b :> 0)

WorkerSymmetry == Permutations(Workers)
=============================================================================
