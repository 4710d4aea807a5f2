------------------------------ MODULE Gathering ------------------------------
(***************************************************************************)
(* What gather_evaluate_positions_bounded promises its callers, whoever    *)
(* works on the positions and however often: one result for each position, *)
(* in the order they were given, all of them or none, once.  BatchGather   *)
(* implements it.                                                          *)
(***************************************************************************)
CONSTANTS
  Gather,    \* the calls
  Boards     \* gather -> the positions it is given

VARIABLES
  outcome,   \* how each call ended
  results    \* what it returned: pairs of an index and a result

vars == <<outcome, results>>

\* A call without positions has its empty list at once.
Init ==
  /\ outcome = [g \in Gather |-> IF Boards[g] = <<>> THEN "answered" ELSE "open"]
  /\ results = [g \in Gather |-> {}]

End(g, how, value) ==
  /\ outcome[g] = "open"
  /\ outcome' = [outcome EXCEPT ![g] = how]
  /\ results' = [results EXCEPT ![g] = value]

\* The result of a position is named after it.
Answer(g) == End(g, "answered", {<<i, Boards[g][i]>> : i \in DOMAIN Boards[g]})
Fail(g) == End(g, "failed", {})

Next == \E g \in Gather : Answer(g) \/ Fail(g)

Spec == Init /\ [][Next]_vars
=============================================================================
