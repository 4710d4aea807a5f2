----------------------------- MODULE MCAdmission -----------------------------
(***************************************************************************)
(* Two clients and a map that is swept at two buckets, so that both rules  *)
(* of the sweep happen, and a clock that outlasts the idle limit twice.    *)
(* Evictions cost no time: their number is bounded.                        *)
(***************************************************************************)
EXTENDS Admission, TLC

Interchangeable == Permutations(Client)
FewEvictions == \A c \in Client : evicted[c] <= 2
=============================================================================
