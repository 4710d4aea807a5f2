--------------------------- MODULE MCEngineBroker ---------------------------
(***************************************************************************)
(* Two sessions that search again and again, or four that search once: one *)
(* whose search is left running, one that times out behind it, and two     *)
(* that are then served in turn.                                           *)
(***************************************************************************)
EXTENDS EngineBroker

\* For the invariants alone, sessions are interchangeable.
Interchangeable == Permutations(Session)

\* The behaviours the counterexample is looked for in: no client stops or
\* leaves in an orderly way, all have the same priority, and Stockfish lives.
Abrupt ==
  /\ alive
  /\ \A s \in Session : priority[s] = "interactive" /\ link[s] # "closed"
  /\ \A c \in ToSet(input) : c.cmd # "stop"
=============================================================================
