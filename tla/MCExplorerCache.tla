--------------------------- MODULE MCExplorerCache ---------------------------
(***************************************************************************)
(* Three calls for one key: a fetch, a call that comes while it runs, and  *)
(* one that comes after it, in time or too late.                           *)
(***************************************************************************)
EXTENDS ExplorerCache, TLC

\* Only invariants and action properties are checked: calls are interchangeable.
Interchangeable == Permutations(Request)
=============================================================================
