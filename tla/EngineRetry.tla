----------------------------- MODULE EngineRetry -----------------------------
(***************************************************************************)
(* with_engine_retry (mcp_server/engine/retry.py): an engine call is tried *)
(* twice, and all calls of the process share one circuit breaker.  The     *)
(* breaker is looked at when a call starts and never between its attempts. *)
(* Time is counted in whole units; the pause of 50 ms is shorter than one. *)
(***************************************************************************)
EXTENDS Integers, FiniteSets

CONSTANTS
  Call,         \* the engine calls
  MaxRetries,   \* retries of a call (1)
  Threshold,    \* failures that trip the breaker (3)
  Window,       \* how long a first failure is remembered (30 s)
  Cooldown      \* how long after it calls are refused (5 s)

ASSUME RetryAssumption ==
  /\ MaxRetries \in Nat /\ Threshold \in Nat \ {0}
  /\ Cooldown \in Nat /\ Window \in Nat /\ Cooldown <= Window

VARIABLES
  now,       \* time.time(); it starts at 1, for 0 means "never"
  failures,  \* _breaker.failures
  openedAt,  \* _breaker.opened_at, the time of the first failure counted
  at,        \* where each call is
  attempt,   \* the attempts of the call that have started
  failedAt   \* history: the times of the failures since the last success

breakerVars == <<failures, openedAt, failedAt>>
RetryInit ==
  /\ failures = 0 /\ openedAt = 0 /\ failedAt = [n \in {} |-> 0]
  /\ at = [c \in Call |-> "idle"]
  /\ attempt = [c \in Call |-> 0]

CallAt(c, place) == at' = [at EXCEPT ![c] = place]

IsFree(c) == at[c] \notin {"trying", "pausing"}

-----------------------------------------------------------------------------
IsTripped == openedAt # 0 /\ failures >= Threshold
IsCooling == now - openedAt < Cooldown

\* _check_breaker refuses the call ...
Refuse(c) ==
  /\ IsFree(c)
  /\ IsTripped /\ IsCooling
  /\ CallAt(c, "refused")
  /\ UNCHANGED <<breakerVars, attempt>>

\* ... or lets it through.  A breaker that has cooled down is reset.
Enter(c) ==
  /\ IsFree(c)
  /\ ~(IsTripped /\ IsCooling)
  /\ CallAt(c, "trying")
  /\ attempt' = [attempt EXCEPT ![c] = 1]
  /\ IF IsTripped
     THEN failures' = 0 /\ openedAt' = 0 /\ failedAt' = [n \in {} |-> 0]
     ELSE UNCHANGED breakerVars

\* Faulty variant: a success does not end the count.
SucceedKeepsCount(c) ==
  /\ at[c] = "trying"
  /\ CallAt(c, "answered")
  /\ failedAt' = [n \in {} |-> 0]
  /\ UNCHANGED <<failures, openedAt, attempt>>

Succeed(c) ==
  /\ at[c] = "trying"
  /\ CallAt(c, "answered")
  /\ failures' = 0 /\ openedAt' = 0 /\ failedAt' = [n \in {} |-> 0]
  /\ UNCHANGED attempt

\* Any other exception, a cancellation included, goes through uncounted.
Raise(c) ==
  /\ at[c] \in {"trying", "pausing"}
  /\ CallAt(c, "raised")
  /\ UNCHANGED <<breakerVars, attempt>>

\* _record_failure: a failure outside the window starts a new count.
RecordFailure ==
  LET opens == openedAt = 0 \/ now - openedAt > Window
  IN  /\ openedAt' = IF opens THEN now ELSE openedAt
      /\ failures' = IF opens THEN 1 ELSE failures + 1
      /\ failedAt' = IF opens THEN [n \in {1} |-> now]
                     ELSE [n \in DOMAIN failedAt \cup {failures + 1} |->
                             IF n \in DOMAIN failedAt THEN failedAt[n] ELSE now]

\* A transport error: the call pauses before its next attempt, or gives up.
Fail(c) ==
  /\ at[c] = "trying"
  /\ RecordFailure
  /\ CallAt(c, IF attempt[c] <= MaxRetries THEN "pausing" ELSE "failed")
  /\ UNCHANGED attempt

Again(c) ==
  /\ at[c] = "pausing"
  /\ CallAt(c, "trying")
  /\ attempt' = [attempt EXCEPT ![c] = @ + 1]
  /\ UNCHANGED breakerVars

-----------------------------------------------------------------------------
Places == {"idle", "trying", "pausing", "refused", "answered", "raised", "failed"}

\* Each call makes at most its two attempts, and the breaker counts exactly the
\* failures of its window, the first of which is its opening.
RetryOK ==
  /\ at \in [Call -> Places]
  /\ attempt \in [Call -> 0..(MaxRetries + 1)]
  /\ \A c \in Call : at[c] = "pausing" => attempt[c] \in 1..MaxRetries
  /\ failures \in Nat
  /\ DOMAIN failedAt = 1..failures
  /\ openedAt = 0 <=> failures = 0
  /\ \A n \in 1..failures : /\ failedAt[n] \in openedAt..now
                            /\ failedAt[n] - openedAt <= Window
  /\ failures > 0 => failedAt[1] = openedAt

\* A call is refused only in a burst: Threshold failures without a success
\* between them, the first of them less than Cooldown ago.  The window of
\* 30 seconds that the module's text gives for them never counts: a breaker
\* that trips later than Cooldown after the first failure refuses nobody.
RefusalsFollowABurst ==
  [][\A c \in Call : at[c] # "refused" /\ at'[c] = "refused" =>
       \E burst \in SUBSET DOMAIN failedAt :
         /\ Cardinality(burst) >= Threshold
         /\ \A n \in burst : now - failedAt[n] < Cooldown]_<<at, failures, openedAt>>
=============================================================================
