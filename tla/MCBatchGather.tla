---------------------------- MODULE MCBatchGather ----------------------------
(***************************************************************************)
(* Two games on a pool of three engines: the first is cut into two slices, *)
(* the second is one position of the first, and so is a single request, so *)
(* that slices can hold every engine while the leader of their flight has  *)
(* none.                                                                   *)
(***************************************************************************)
EXTENDS BatchGather

CONSTANTS g1, g2, s1, p1, p2, p3

Games == [g \in Gather |-> IF g = g1 THEN <<p3, p1, p2>> ELSE <<p2>>]
MCGames == Games
Wants == [s \in Single |-> p2]
MCWanted == Wants
MCShort == {p3}
=============================================================================
