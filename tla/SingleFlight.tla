---------------------------- MODULE SingleFlight ----------------------------
(***************************************************************************)
(* The request coalescer of mcp_server/cache/single_flight.py: concurrent  *)
(* callers of do(key, fn) with the same key share one execution of fn.     *)
(*                                                                         *)
(* The body of self._lock never awaits, so everything do() does before fn, *)
(* and everything it does after it, is one step of the event loop.  The    *)
(* waiters of a future run again in later steps of their own, and a client *)
(* may cancel any request that is suspended.  A request is one call of     *)
(* do(); the flight it creates is named after it.                          *)
(***************************************************************************)
CONSTANTS
  Request,    \* the calls of do()
  Key,        \* the cache keys they ask for
  NoFlight    \* "no flight"

ASSUME FlightAssumption == NoFlight \notin Request

VARIABLES
  inFlight,   \* self._in_flight: the flight of each key
  future,     \* the future of each flight
  pc,         \* where each request is inside do()
  key,        \* the key each request asks for
  flight,     \* the flight whose future a waiter awaits
  outcome,    \* how each call of do() ended
  cancelled   \* history: the requests whose client cancelled them

vars == <<inFlight, future, pc, key, flight, outcome, cancelled>>

\* The ways a call of fn, and with it a future or a call of do(), can end.
Ending == {"result", "exception", "cancelled"}

Init ==
  /\ inFlight = [k \in Key |-> NoFlight]
  /\ future = [r \in Request |-> "none"]
  /\ pc = [r \in Request |-> "idle"]
  /\ key \in [Request -> Key]
  /\ flight = [r \in Request |-> NoFlight]
  /\ outcome = [r \in Request |-> "none"]
  /\ cancelled = {}

-----------------------------------------------------------------------------
\* Faulty variant: the table is not looked at.
LeadAlways(r) ==
  /\ pc[r] = "idle"
  /\ inFlight' = [inFlight EXCEPT ![key[r]] = r]
  /\ future' = [future EXCEPT ![r] = "pending"]
  /\ pc' = [pc EXCEPT ![r] = "producing"]
  /\ UNCHANGED <<key, flight, outcome, cancelled>>

\* do() finds no flight for its key: it creates the future and awaits fn.
Lead(r) ==
  /\ pc[r] = "idle"
  /\ inFlight[key[r]] = NoFlight
  /\ inFlight' = [inFlight EXCEPT ![key[r]] = r]
  /\ future' = [future EXCEPT ![r] = "pending"]
  /\ pc' = [pc EXCEPT ![r] = "producing"]
  /\ UNCHANGED <<key, flight, outcome, cancelled>>

\* do() finds a flight and awaits asyncio.shield(future).
Join(r) ==
  /\ pc[r] = "idle"
  /\ inFlight[key[r]] # NoFlight
  /\ flight' = [flight EXCEPT ![r] = inFlight[key[r]]]
  /\ pc' = [pc EXCEPT ![r] = "waiting"]
  /\ UNCHANGED <<inFlight, future, key, outcome, cancelled>>

\* do() returns or raises.
End(r, ending) ==
  /\ pc' = [pc EXCEPT ![r] = "done"]
  /\ outcome' = [outcome EXCEPT ![r] = ending]

\* Faulty variants: a failure completes the future; a cancellation leaves it pending.
SettleAsResult(r, ending) ==
  /\ pc[r] = "producing"
  /\ future' = [future EXCEPT ![r] = "result"]
  /\ inFlight' = [inFlight EXCEPT ![key[r]] = NoFlight]
  /\ End(r, ending)
  /\ UNCHANGED <<key, flight>>

SettleUnlessCancelled(r, ending) ==
  /\ pc[r] = "producing"
  /\ future' = [future EXCEPT ![r] = IF ending = "cancelled" THEN @ ELSE ending]
  /\ inFlight' = [inFlight EXCEPT ![key[r]] = NoFlight]
  /\ End(r, ending)
  /\ UNCHANGED <<key, flight>>

\* The future is completed, cancelled or failed, and the key is popped.
Settle(r, ending) ==
  /\ pc[r] = "producing"
  /\ future' = [future EXCEPT ![r] = IF @ = "pending" THEN ending ELSE @]
  /\ inFlight' = [inFlight EXCEPT ![key[r]] = NoFlight]
  /\ End(r, ending)
  /\ UNCHANGED <<key, flight>>

\* fn returns, or raises something else than CancelledError.
Complete(r) ==
  /\ \E ending \in {"result", "exception"} : Settle(r, ending)
  /\ UNCHANGED cancelled

\* The client of a producer cancels it inside fn.
CancelProducer(r) ==
  /\ Settle(r, "cancelled")
  /\ cancelled' = cancelled \cup {r}

\* A waiter runs again: the shield hands it what became of the future.
Wake(r) ==
  /\ pc[r] = "waiting"
  /\ future[flight[r]] # "pending"
  /\ End(r, future[flight[r]])
  /\ UNCHANGED <<inFlight, future, key, flight, cancelled>>

\* The client of a waiter cancels it: the shield keeps the future out of it.
CancelWaiter(r) ==
  /\ pc[r] = "waiting"
  /\ End(r, "cancelled")
  /\ cancelled' = cancelled \cup {r}
  /\ UNCHANGED <<inFlight, future, key, flight>>

-----------------------------------------------------------------------------
Next ==
  \E r \in Request :
    \/ Lead(r) \/ Join(r) \/ Complete(r) \/ CancelProducer(r)
    \/ Wake(r) \/ CancelWaiter(r)

Spec == Init /\ [][Next]_vars

\* fn ends (the engine calls inside it have timeouts) and the event loop runs
\* the callbacks of a done future.
Fairness == \A r \in Request : WF_vars(Complete(r)) /\ WF_vars(Wake(r))

FairSpec == Spec /\ Fairness

-----------------------------------------------------------------------------
TypeOK ==
  /\ inFlight \in [Key -> Request \cup {NoFlight}]
  /\ future \in [Request -> Ending \cup {"none", "pending"}]
  /\ pc \in [Request -> {"idle", "producing", "waiting", "done"}]
  /\ key \in [Request -> Key]
  /\ flight \in [Request -> Request \cup {NoFlight}]
  /\ outcome \in [Request -> Ending \cup {"none"}]
  /\ cancelled \subseteq Request

\* For a given key at most one call of fn is in flight.
OneProducerPerKey ==
  \A r, s \in Request :
    pc[r] = "producing" /\ pc[s] = "producing" /\ key[r] = key[s] => r = s

\* The table holds exactly the flights that still run: a later request can
\* neither join a flight that is over nor miss one that is not.
TableIsLive ==
  \A k \in Key, r \in Request :
    inFlight[k] = r <=> pc[r] = "producing" /\ key[r] = k

\* A waiter waits for a flight of its own key, and unless its client cancelled
\* it, it ends as that flight ended: nobody's cancellation, failure or later
\* flight for the same key is delivered in its place.
WaitersShareTheFlight ==
  \A r \in Request : flight[r] # NoFlight =>
    /\ key[flight[r]] = key[r]
    /\ pc[r] = "done" /\ r \notin cancelled =>
         outcome[r] = future[flight[r]] /\ outcome[r] = outcome[flight[r]]

\* One disconnected waiter does not disturb the shared work: a future settles
\* only in the step in which its producer ends, and ends as its producer did.
FuturesBelongToProducers ==
  [][\A r \in Request : future[r] = "pending" /\ future'[r] # "pending" =>
       pc[r] = "producing" /\ pc'[r] = "done" /\ future'[r] = outcome'[r]]_vars

\* No wakeup is lost: every waiter's call of do() ends.
WaitersEnd == \A r \in Request : pc[r] = "waiting" ~> pc[r] = "done"

\* A request fails with a cancellation only if its own client cancelled it.
CancellationIsLocal ==
  \A r \in Request : outcome[r] = "cancelled" => r \in cancelled
=============================================================================
