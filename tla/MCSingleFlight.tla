--------------------------- MODULE MCSingleFlight ---------------------------
(* Four calls of do() over two keys: a producer, two waiters and a call     *)
(* that arrives after the flight, on the same key or on another one.        *)
EXTENDS SingleFlight
=============================================================================
