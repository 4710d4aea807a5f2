----------------------------- MODULE RateLimiter -----------------------------
(***************************************************************************)
(* The admission of MCP requests: the token bucket per client address of   *)
(* mcp_server/middleware/rate_limit.py, charged with the cost that         *)
(* request_logger.py reads off the request.  is_allowed awaits nothing     *)
(* while it holds its lock, so each call is one step.  The history         *)
(* variables belong to an observer who watches the clients from some       *)
(* moment on.                                                              *)
(***************************************************************************)
EXTENDS Integers, FiniteSets

CONSTANTS
  Client,      \* the client addresses
  Rate,        \* tokens a second
  Capacity,    \* tokens of a full bucket
  MaxBuckets,  \* more buckets than these are swept (10 000)
  Kept,        \* how many of the newest stay if sweeping was not enough (5000)
  IdleLimit    \* seconds until an idle bucket may be swept (3600)

ASSUME LimiterAssumption ==
  /\ Rate \in Nat /\ Capacity \in Nat /\ IdleLimit \in Nat
  /\ MaxBuckets \in Nat /\ Kept \in Nat /\ Kept <= MaxBuckets
  /\ Rate * IdleLimit >= Capacity  \* an idle bucket is full before it is swept

VARIABLES
  now,      \* time.time()
  bucket,   \* client -> tokens and the time they were counted
  since,    \* history: when the observer began to watch
  evicted   \* history: how often since then the client's bucket was cut with
            \* newer ones kept

limiterVars == <<bucket, since, evicted>>

RateInit ==
  /\ bucket = [c \in {} |-> [tokens |-> 0, last |-> 0]]
  /\ since = now
  /\ evicted = [c \in Client |-> 0]

MinOf(a, b) == IF a <= b THEN a ELSE b

-----------------------------------------------------------------------------
\* The sweep that precedes every request over the bound: idle buckets go, and if
\* that leaves too many, all but the newest; a tie is broken by insertion order.
Fresh == {c \in DOMAIN bucket : bucket[c].last > now - IdleLimit}

IsNewest(some, of) ==
  \A c \in some, d \in of \ some : bucket[c].last >= bucket[d].last

Sweeps ==
  IF Cardinality(DOMAIN bucket) <= MaxBuckets THEN {DOMAIN bucket}
  ELSE IF Cardinality(Fresh) <= MaxBuckets THEN {Fresh}
  ELSE {some \in SUBSET Fresh : Cardinality(some) = Kept /\ IsNewest(some, Fresh)}

\* Faulty variant: without the cap.
FilledUncapped(c, left) ==
  IF c \in left
  THEN bucket[c].tokens + (now - bucket[c].last) * Rate
  ELSE Capacity

\* The bucket of the client after the sweep, filled up to now; a client
\* without one has a full bucket.
Filled(c, left) ==
  IF c \in left
  THEN MinOf(Capacity, bucket[c].tokens + (now - bucket[c].last) * Rate)
  ELSE Capacity

\* The clients that lose a bucket the idle rule would have kept.
Cut(left) == Fresh \ left

\* is_allowed(client, cost).
Ask(c, cost, allowed) ==
  \E left \in Sweeps :
    LET tokens == Filled(c, left)
    IN  /\ allowed = (tokens >= cost)
        /\ bucket' = [d \in left \cup {c} |->
             IF d = c
             THEN [tokens |-> IF tokens >= cost THEN tokens - cost ELSE tokens,
                   last |-> now]
             ELSE bucket[d]]
        /\ evicted' = [d \in Client |-> evicted[d] + (IF d \in Cut(left) THEN 1 ELSE 0)]
        /\ UNCHANGED since

-----------------------------------------------------------------------------
\* The map of buckets is bounded and no bucket overflows or goes negative.
BucketsOK ==
  /\ DOMAIN bucket \subseteq Client
  /\ Cardinality(DOMAIN bucket) <= MaxBuckets + 1
  /\ \A c \in DOMAIN bucket :
       bucket[c].tokens \in 0..Capacity /\ bucket[c].last \in 0..now
=============================================================================
