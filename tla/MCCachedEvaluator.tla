------------------------- MODULE MCCachedEvaluator -------------------------
(***************************************************************************)
(* Three requests over two keys and an L1 of one entry, so that a value    *)
(* can be evicted between a search and the requests that come late for it. *)
(***************************************************************************)
EXTENDS CachedEvaluator

\* Requests are interchangeable and so are keys: three requests for one key,
\* or two for one key and one for the other, are all the cases there are.
MainKey == CHOOSE k \in Key : TRUE
Stranger == CHOOSE r \in Request : TRUE

MCInit == Init /\ \A r \in Request \ {Stranger} : key[r] = MainKey
MCSpec == MCInit /\ [][Next]_vars /\ Fairness
=============================================================================
