------------------------- MODULE SingleFlightProofs -------------------------
(***************************************************************************)
(* Proofs about SingleFlight for any number of requests and keys: at most  *)
(* one execution of fn per key, a table that holds exactly the running     *)
(* flights, and waiters that end as their flight did.                      *)
(***************************************************************************)
EXTENDS SingleFlight, TLAPS

\* What the safety properties leave out: how a future follows its producer,
\* and that a waiter waits for a request that is or was a producer.
FuturesFollowProducers ==
  \A r \in Request :
    /\ pc[r] = "producing" <=> future[r] = "pending"
    /\ future[r] # "none" => flight[r] = NoFlight
    /\ pc[r] = "done" /\ flight[r] = NoFlight =>
         future[r] \in Ending /\ outcome[r] = future[r]
    /\ pc[r] = "idle" => flight[r] = NoFlight
    /\ pc[r] = "waiting" => flight[r] # NoFlight
    /\ flight[r] # NoFlight => future[flight[r]] # "none"
    /\ flight[r] # NoFlight /\ pc[r] = "done" /\ r \notin cancelled =>
         future[flight[r]] # "pending"
    /\ future[r] # "none" => pc[r] \in {"producing", "done"}

SharedOutcome ==
  \A r \in Request : flight[r] # NoFlight =>
    /\ key[flight[r]] = key[r]
    /\ pc[r] = "done" /\ r \notin cancelled => outcome[r] = future[flight[r]]

\* The inductive invariant.
IInv == TypeOK /\ TableIsLive /\ FuturesFollowProducers /\ SharedOutcome

-----------------------------------------------------------------------------
\* Initially nothing flies.
LEMMA InitIInv == Init => IInv
  BY FlightAssumption
  DEF Init, IInv, TypeOK, TableIsLive, FuturesFollowProducers, SharedOutcome, Ending

\* A new flight: its key had none, and the request has no waiters yet.
LEMMA LeadStep ==
  ASSUME IInv, NEW r \in Request, Lead(r) PROVE IInv'
<1> USE FlightAssumption DEF Lead, IInv, Ending
<1>1. TypeOK'
  BY DEF TypeOK
<1>2. TableIsLive'
  BY DEF TypeOK, TableIsLive
<1>3. FuturesFollowProducers'
  BY DEF TypeOK, FuturesFollowProducers
<1>4. SharedOutcome'
  BY DEF TypeOK, FuturesFollowProducers, SharedOutcome
<1> QED BY <1>1, <1>2, <1>3, <1>4

\* A new waiter: the table holds only running flights of the key.
LEMMA JoinStep ==
  ASSUME IInv, NEW r \in Request, Join(r) PROVE IInv'
<1> USE FlightAssumption DEF Join, IInv, Ending
<1>0. /\ inFlight[key[r]] \in Request
      /\ pc[inFlight[key[r]]] = "producing"
      /\ key[inFlight[key[r]]] = key[r]
  BY DEF TypeOK, TableIsLive
<1>1. TypeOK'
  BY DEF TypeOK
<1>2. TableIsLive'
  BY DEF TypeOK, TableIsLive
<1>3. FuturesFollowProducers'
  BY <1>0 DEF TypeOK, FuturesFollowProducers
<1>4. SharedOutcome'
  BY <1>0 DEF TypeOK, FuturesFollowProducers, SharedOutcome
<1> QED BY <1>1, <1>2, <1>3, <1>4

\* A producer ends, its future with it, and the key is free again.
LEMMA SettleStep ==
  ASSUME IInv, NEW r \in Request, NEW ending \in Ending, Settle(r, ending),
         cancelled' \in {cancelled, cancelled \cup {r}}
  PROVE  IInv'
<1> USE FlightAssumption DEF Settle, End, IInv, Ending
<1>0. future[r] = "pending" /\ flight[r] = NoFlight
  BY DEF FuturesFollowProducers
<1>1. TypeOK'
  BY DEF TypeOK
<1>2. TableIsLive'
  BY DEF TypeOK, TableIsLive
<1>3. FuturesFollowProducers'
  BY <1>0 DEF TypeOK, FuturesFollowProducers
<1>4. SharedOutcome'
  BY <1>0 DEF TypeOK, FuturesFollowProducers, SharedOutcome
<1> QED BY <1>1, <1>2, <1>3, <1>4

\* A waiter ends as its future did.
LEMMA WakeStep ==
  ASSUME IInv, NEW r \in Request, Wake(r) PROVE IInv'
<1> USE FlightAssumption DEF Wake, End, IInv, Ending
<1>0. /\ flight[r] \in Request
      /\ future[flight[r]] \in Ending
      /\ future[r] = "none"
  BY DEF TypeOK, FuturesFollowProducers
<1>1. TypeOK'
  BY <1>0 DEF TypeOK
<1>2. TableIsLive'
  BY DEF TypeOK, TableIsLive
<1>3. FuturesFollowProducers'
  BY <1>0 DEF TypeOK, FuturesFollowProducers
<1>4. SharedOutcome'
  BY <1>0 DEF TypeOK, FuturesFollowProducers, SharedOutcome
<1> QED BY <1>1, <1>2, <1>3, <1>4

\* A waiter is cancelled: no future changes.
LEMMA CancelWaiterStep ==
  ASSUME IInv, NEW r \in Request, CancelWaiter(r) PROVE IInv'
<1> USE FlightAssumption DEF CancelWaiter, End, IInv, Ending
<1>0. flight[r] # NoFlight /\ future[r] = "none"
  BY DEF TypeOK, FuturesFollowProducers
<1>1. TypeOK'
  BY DEF TypeOK
<1>2. TableIsLive'
  BY DEF TypeOK, TableIsLive
<1>3. FuturesFollowProducers'
  BY <1>0 DEF TypeOK, FuturesFollowProducers
<1>4. SharedOutcome'
  BY <1>0 DEF TypeOK, FuturesFollowProducers, SharedOutcome
<1> QED BY <1>1, <1>2, <1>3, <1>4

\* Every step preserves the inductive invariant.
LEMMA NextIInv == IInv /\ [Next]_vars => IInv'
<1> SUFFICES ASSUME IInv, [Next]_vars PROVE IInv'
  OBVIOUS
<1>1. ASSUME NEW r \in Request, Lead(r) PROVE IInv'
  BY <1>1, LeadStep
<1>2. ASSUME NEW r \in Request, Join(r) PROVE IInv'
  BY <1>2, JoinStep
<1>3. ASSUME NEW r \in Request, Complete(r) PROVE IInv'
  BY <1>3, SettleStep DEF Complete, Ending
<1>4. ASSUME NEW r \in Request, CancelProducer(r) PROVE IInv'
  BY <1>4, SettleStep DEF CancelProducer, Ending
<1>5. ASSUME NEW r \in Request, Wake(r) PROVE IInv'
  BY <1>5, WakeStep
<1>6. ASSUME NEW r \in Request, CancelWaiter(r) PROVE IInv'
  BY <1>6, CancelWaiterStep
<1>7. CASE UNCHANGED vars
  BY <1>7 DEF vars, IInv, TypeOK, TableIsLive, FuturesFollowProducers, SharedOutcome
<1> QED BY <1>1, <1>2, <1>3, <1>4, <1>5, <1>6, <1>7 DEF Next

\* The inductive invariant holds in every behaviour of SingleFlight.do.
THEOREM Invariance == Spec => []IInv
  BY InitIInv, NextIInv, PTL DEF Spec

-----------------------------------------------------------------------------
\* The variables of SingleFlight keep their types.
THEOREM TypeCorrect == Spec => []TypeOK
<1>1. IInv => TypeOK
  BY DEF IInv
<1> QED BY <1>1, Invariance, PTL

\* The table is exact: _in_flight holds the running flights and no other.
THEOREM TableExact == Spec => []TableIsLive
<1>1. IInv => TableIsLive
  BY DEF IInv
<1> QED BY <1>1, Invariance, PTL

\* Coalescing: two executions of fn never run for one key.
THEOREM Coalesces == Spec => []OneProducerPerKey
<1>1. IInv => OneProducerPerKey
  <2> SUFFICES ASSUME IInv, NEW r \in Request, NEW s \in Request,
                      pc[r] = "producing", pc[s] = "producing", key[r] = key[s]
               PROVE  r = s
    BY DEF OneProducerPerKey
  <2> key[r] \in Key
    BY DEF IInv, TypeOK
  <2> QED BY DEF IInv, TableIsLive
<1> QED BY <1>1, Invariance, PTL

\* Sharing: a waiter that was not cancelled ends as the producer it waited for.
THEOREM WaitersShare == Spec => []WaitersShareTheFlight
<1>1. IInv => WaitersShareTheFlight
  <2> SUFFICES ASSUME IInv, NEW r \in Request, flight[r] # NoFlight
               PROVE  /\ key[flight[r]] = key[r]
                      /\ pc[r] = "done" /\ r \notin cancelled =>
                           /\ outcome[r] = future[flight[r]]
                           /\ outcome[r] = outcome[flight[r]]
    BY DEF WaitersShareTheFlight
  <2>1. flight[r] \in Request /\ future[flight[r]] # "none"
    BY DEF IInv, TypeOK, FuturesFollowProducers
  <2>2. flight[flight[r]] = NoFlight /\ pc[flight[r]] \in {"producing", "done"}
    BY <2>1 DEF IInv, FuturesFollowProducers
  <2>3. /\ key[flight[r]] = key[r]
        /\ pc[r] = "done" /\ r \notin cancelled =>
             outcome[r] = future[flight[r]] /\ future[flight[r]] # "pending"
    BY DEF IInv, SharedOutcome, FuturesFollowProducers
  <2>4. pc[flight[r]] = "done" => outcome[flight[r]] = future[flight[r]]
    BY <2>1, <2>2 DEF IInv, FuturesFollowProducers
  <2>5. pc[flight[r]] = "producing" => future[flight[r]] = "pending"
    BY <2>1 DEF IInv, FuturesFollowProducers
  <2> QED BY <2>2, <2>3, <2>4, <2>5
<1> QED BY <1>1, Invariance, PTL

\* A future settles only in the step in which its producer ends: no waiter,
\* cancelled or not, touches the shared work.
THEOREM WaitersAreHarmless == Spec => FuturesBelongToProducers
<1> DEFINE Own == \A r \in Request : future[r] = "pending" /\ future'[r] # "pending" =>
                    pc[r] = "producing" /\ pc'[r] = "done" /\ future'[r] = outcome'[r]
<1>1. IInv /\ [Next]_vars => [Own]_vars
  <2> SUFFICES ASSUME IInv, Next, NEW q \in Request, future[q] = "pending",
                      future'[q] # "pending"
               PROVE  pc[q] = "producing" /\ pc'[q] = "done" /\ future'[q] = outcome'[q]
    BY DEF vars
  <2>1. PICK r \in Request, ending \in Ending : Settle(r, ending)
    BY DEF Next, Lead, Join, Complete, CancelProducer, Wake, CancelWaiter, Ending,
           IInv, TypeOK
  <2>2. r = q
    BY <2>1 DEF Settle, IInv, TypeOK
  <2> QED BY <2>1, <2>2 DEF Settle, End, IInv, TypeOK
<1> QED BY <1>1, Invariance, PTL DEF Spec, FuturesBelongToProducers
=============================================================================
