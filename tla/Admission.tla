------------------------------ MODULE Admission ------------------------------
(***************************************************************************)
(* ASGIRequestLoggerMiddleware (mcp_server/middleware/request_logger.py):  *)
(* which requests are answered before the bucket is looked at, what the    *)
(* others are charged (RateLimiter), and what the bucket lets through.     *)
(***************************************************************************)
EXTENDS RateLimiter

CONSTANTS
  Locked,       \* lock_chatgpt: a token is asked for
  MaxBody,      \* the largest body in units of 1 KiB (32 MiB)
  Lengths,      \* the content lengths requests declare, in these units
  NoLength,     \* no content-length, or one that is not a number
  Horizon       \* bound: the clock stops here

ASSUME AdmissionAssumption == Lengths \subseteq Int

VARIABLES
  reply,        \* the status of the last response
  passed        \* history: client -> the cost of its requests that reached the app
                \* since the observer began to watch

admissionVars == <<now, limiterVars, reply, passed>>

Statuses == {200, 403, 413, 429}
NoReply == 0

AdmissionInit ==
  /\ now = 0
  /\ RateInit
  /\ reply = NoReply
  /\ passed = [c \in Client |-> 0]

-----------------------------------------------------------------------------
\* What request_logger.py charges: by the declared length of a POST, and 1 for
\* anything else.  estimate_mcp_request_cost is not used.
RequestCost(method, length) ==
  IF method # "POST" \/ length = NoLength \/ length <= 1 THEN 1
  ELSE IF length <= 8 THEN 2
  ELSE 5 + MinOf(40, length)

IsLockedOut(health, token) == ~health /\ Locked /\ ~token
IsTooLong(method, length) == method = "POST" /\ length # NoLength /\ length > MaxBody

Answer(code) == reply' = code

\* What a client can send, as far as the middleware looks at it.
Asked == [method: {"OPTIONS", "POST", "GET"}, health: BOOLEAN, token: BOOLEAN,
          length: Lengths \cup {NoLength}]

\* Preflights, missing tokens and long bodies are answered before the bucket is
\* looked at, and cost nothing: the status, or 0 for what goes on.
Turned(q) ==
  IF q.method = "OPTIONS" THEN 200
  ELSE IF IsLockedOut(q.health, q.token) THEN 403
  ELSE IF IsTooLong(q.method, q.length) THEN 413
  ELSE 0

Turn ==
  /\ \E code \in {Turned(q) : q \in Asked} \ {0} : Answer(code)
  /\ UNCHANGED <<now, limiterVars, passed>>

\* Everything else is charged, health checks as well.
Prices == {RequestCost(q.method, q.length) : q \in {q \in Asked : Turned(q) = 0}}

\* What the bucket allows goes on to the app.
Charge(c) ==
  /\ \E cost \in Prices, allowed \in BOOLEAN :
       /\ Ask(c, cost, allowed)
       /\ passed' = IF allowed THEN [passed EXCEPT ![c] = @ + cost] ELSE passed
       /\ Answer(IF allowed THEN 200 ELSE 429)
  /\ UNCHANGED now

Tick ==
  /\ now < Horizon
  /\ now' = now + 1
  /\ UNCHANGED <<limiterVars, reply, passed>>

\* The observer begins anew, at any moment: nothing but the history changes.
Watch ==
  /\ since' = now
  /\ evicted' = [c \in Client |-> 0]
  /\ passed' = [c \in Client |-> 0]
  /\ UNCHANGED <<now, bucket, reply>>

AdmissionNext == Turn \/ (\E c \in Client : Charge(c)) \/ Tick \/ Watch

AdmissionSpec == AdmissionInit /\ [][AdmissionNext]_admissionVars

-----------------------------------------------------------------------------
AdmissionTypeOK == BucketsOK /\ reply \in {NoReply} \cup Statuses

\* What reaches the app of one client keeps the rate in every stretch of time,
\* however long it was idle before, whatever mixture of methods and lengths it
\* sends and however the buckets of the others push its own out: one full bucket
\* and the rate, and one more full bucket for each time in that stretch that the
\* hard eviction cut its own.
PassedKeepsTheRate ==
  \A c \in Client :
    passed[c] <= Capacity * (1 + evicted[c]) + Rate * (now - since)
=============================================================================
