------------------------- MODULE ExplorerCacheProofs -------------------------
(***************************************************************************)
(* Proofs about ExplorerCache, for any number of requests, any keys and    *)
(* any time to live: no cache hit is older than the time to live, although *)
(* every caller of a flight stores the value again, with an expiry counted *)
(* from a clock it read before it waited.  What carries this is that no    *)
(* caller of a flight reads the clock after the flight has been answered.  *)
(***************************************************************************)
EXTENDS ExplorerCache, TLAPS

SFP == INSTANCE SingleFlightProofs

\* An entry for key k holds a value that was fetched for k, and expires no later
\* than _ttl_s after that.
IsFresh(e, k) ==
  /\ future[e.value] = "result" /\ key[e.value] = k
  /\ e.expires <= fetchedAt[e.value] + Ttl

EntriesAreFresh ==
  /\ \A k \in Key : /\ l1[k] # NoEntry => IsFresh(l1[k], k)
                    /\ l2[k] # NoEntry => IsFresh(l2[k], k)
  /\ \A r \in Request : entry[r] # NoEntry => IsFresh(entry[r], key[r])

\* The clock is read before the flight is joined, and what is noted of it lies in
\* the past.
WaitersCameEarly ==
  /\ \A r \in Request : now[r] <= clock /\ fetchedAt[r] <= clock
  /\ \A r \in Request : pc[r] = "waiting" /\ future[flight[r]] = "result" =>
       now[r] <= fetchedAt[flight[r]]
  /\ \A r \in Request : stage[r] = "new" => pc[r] = "idle"

\* A hit is over, and was fresh when it was asked for.
HitsStay ==
  \A r \in hit : /\ stage[r] = "ended" /\ answer[r] \in Request
                 /\ future[answer[r]] = "result" /\ key[answer[r]] = key[r]
                 /\ now[r] < fetchedAt[answer[r]] + Ttl

IInv == TypeOK /\ EntriesAreFresh /\ WaitersCameEarly /\ HitsStay

-----------------------------------------------------------------------------
(* The flights.                                                            *)

\* Every step of the cache is a step of SingleFlight or leaves it alone.
LEMMA StepSimulation == [Next]_vars => [SFP!Next]_sfVars
<1> SUFFICES ASSUME [Next]_vars PROVE [SFP!Next]_sfVars
  OBVIOUS
<1> USE DEF SF!Lead, SFP!Lead, SF!Join, SFP!Join, SFP!Complete, SF!CancelProducer,
            SFP!CancelProducer, SF!Wake, SFP!Wake, SF!CancelWaiter, SFP!CancelWaiter,
            SF!Settle, SFP!Settle, SF!End, SFP!End
<1>1. ASSUME NEW r \in Request,
             \/ Hit(r) \/ Miss(r) \/ Rehydrate(r) \/ Stored(r) \/ DiskRead(r) \/ DiskWrite(r)
      PROVE  UNCHANGED sfVars
  BY <1>1 DEF Hit, Miss, Rehydrate, Stored, DiskRead, DiskWrite
<1>2. ASSUME NEW r \in Request, Fetch(r) \/ Wait(r) \/ Woken(r) PROVE SFP!Next
  BY <1>2 DEF Fetch, Wait, Woken, SFP!Next
<1>3. ASSUME NEW r \in Request, Fetched(r) \/ FetchFailed(r) PROVE SFP!Next
  BY <1>3 DEF Fetched, FetchFailed, SFP!Next
<1>4. ASSUME NEW r \in Request, Cancel(r) PROVE SFP!Next \/ UNCHANGED sfVars
  BY <1>4 DEF Cancel, SFP!Next
<1>5. ASSUME (\E k \in Key : Evict(k)) \/ Wipe \/ Tick PROVE UNCHANGED sfVars
  BY <1>5 DEF Evict, Wipe, Tick
<1>6. CASE UNCHANGED vars
  BY <1>6 DEF vars
<1> QED BY <1>1, <1>2, <1>3, <1>4, <1>5, <1>6 DEF Next, RequestStep

\* Hence what is proved of SingleFlight holds of the flights of the cache.
LEMMA FlightsHold == Spec => []SFP!IInv
<1>1. SFP!Spec => []SFP!IInv
  BY ExplorerAssumption, SFP!Invariance DEF SFP!FlightAssumption
<1>2. Init => SFP!Init
  BY DEF Init, SF!Init, SFP!Init
<1> QED BY <1>1, <1>2, StepSimulation, PTL DEF Spec, SFP!Spec, SFP!vars, sfVars

\* A fetch that has been answered stays answered, with the value it had then.
LEMMA AnswersStay ==
  ASSUME TypeOK, SFP!IInv, [Next]_vars
  PROVE  /\ key' = key
         /\ \A v \in Request : future[v] = "result" =>
              future'[v] = "result" /\ fetchedAt'[v] = fetchedAt[v]
<1>1. /\ future \in [Request -> SF!Ending \cup {"none", "pending"}]
      /\ \A v \in Request : pc[v] = "producing" => future[v] = "pending"
      /\ \A v \in Request : pc[v] = "idle" => future[v] = "none"
      /\ fetchedAt \in [Request -> Time]
  BY DEF TypeOK, SF!TypeOK, SF!Ending, SFP!IInv, SFP!TypeOK, SFP!Ending,
         SFP!FuturesFollowProducers
<1>2. UNCHANGED sfVars \/ SFP!Next
  BY StepSimulation DEF sfVars
<1>3. key' = key /\ \A v \in Request : future[v] = "result" => future'[v] = "result"
  BY <1>1, <1>2 DEF SFP!Next, SFP!Lead, SFP!Join, SFP!Complete, SFP!CancelProducer,
                    SFP!Wake, SFP!CancelWaiter, SFP!Settle, SFP!End, sfVars
<1>4. \A v \in Request : future[v] = "result" => fetchedAt'[v] = fetchedAt[v]
  <2>1. fetchedAt' = fetchedAt \/ \E r \in Request : Fetched(r)
    BY DEF Next, RequestStep, Hit, Miss, Rehydrate, Stored, DiskRead, DiskWrite, Fetch, Wait,
           Woken, FetchFailed, Cancel, Evict, Wipe, Tick, vars
  <2> QED BY <1>1, <2>1 DEF Fetched, SF!Settle
<1> QED BY <1>3, <1>4

-----------------------------------------------------------------------------
(* The variables of the cache.                                             *)

\* What a request that has its value puts into the tiers is an entry.
LEMMA StoredIsEntry ==
  ASSUME TypeOK, NEW r \in Request, NEW v \in Request
  PROVE  [value |-> v, expires |-> now[r] + Ttl] \in Entry
<1>1. now[r] \in Time
  BY DEF TypeOK
<1> QED BY <1>1, ExplorerAssumption DEF Entry, Time

\* A waiter waits for the flight of a request with its key.
LEMMA WaitersFlight ==
  ASSUME SFP!IInv, NEW r \in Request, pc[r] = "waiting"
  PROVE  flight[r] \in Request /\ key[flight[r]] = key[r]
BY DEF SFP!IInv, SFP!TypeOK, SFP!FuturesFollowProducers, SFP!SharedOutcome

\* Every step keeps the types.
LEMMA TypesStep ==
  ASSUME TypeOK, SFP!IInv, SFP!IInv', [Next]_vars
  PROVE  TypeOK'
<1> USE ExplorerAssumption
<1>0. SF!TypeOK'
  BY DEF SFP!IInv, SFP!TypeOK, SF!TypeOK, SFP!Ending, SF!Ending
<1>1. key \in [Request -> Key]
  BY DEF TypeOK, SF!TypeOK
<1>2. ASSUME NEW r \in Request, Hit(r) PROVE TypeOK'
  <2>1. l1[key[r]] \in Entry
    BY <1>1, <1>2 DEF Hit, Alive, TypeOK
  <2> QED BY <1>0, <1>2, <2>1
          DEF Hit, AnswerHit, Goto, TypeOK, Stage, Entry, sfVars, tierVars, threadVars
<1>3. ASSUME NEW r \in Request, Miss(r) PROVE TypeOK'
  BY <1>0, <1>3 DEF Miss, Goto, TypeOK, Stage, tierVars
<1>4. ASSUME NEW r \in Request, Rehydrate(r) PROVE TypeOK'
  <2>1. entry[r] \in Entry
    BY <1>4 DEF Rehydrate, Alive, TypeOK
  <2> QED BY <1>0, <1>1, <1>4, <2>1
          DEF Rehydrate, Resumed, AnswerHit, Goto, TypeOK, Stage, Entry, sfVars
<1>5. ASSUME NEW r \in Request, Fetch(r) \/ Wait(r) PROVE TypeOK'
  BY <1>0, <1>5 DEF Fetch, Wait, Resumed, Goto, TypeOK, Stage, tierVars
<1>6. ASSUME NEW r \in Request, NEW v \in Request, Store(r, v), UNCHANGED <<l2, now, hit, clock>>,
             fetchedAt' \in [Request -> Time]
      PROVE  TypeOK'
  BY <1>0, <1>1, <1>6, StoredIsEntry DEF Store, Goto, TypeOK, Stage
<1>7. ASSUME NEW r \in Request, Fetched(r) PROVE TypeOK'
  BY <1>6, <1>7 DEF Fetched, TypeOK
<1>8. ASSUME NEW r \in Request, Woken(r) PROVE TypeOK'
  <2>1. CASE Store(r, flight[r]) /\ UNCHANGED <<l2, now, hit>>
    BY <1>6, <1>8, <2>1, WaitersFlight DEF Woken, SF!Wake, TypeOK
  <2>2. CASE Leave(r) /\ UNCHANGED <<tierVars, threadVars>>
    BY <1>0, <1>8, <2>2 DEF Woken, Leave, Goto, TypeOK, Stage, tierVars, threadVars
  <2> QED BY <1>8, <2>1, <2>2 DEF Woken
<1>9. ASSUME NEW r \in Request, FetchFailed(r) \/ Stored(r) \/ Cancel(r) PROVE TypeOK'
  BY <1>0, <1>9 DEF FetchFailed, Stored, Cancel, Resumed, Leave, Goto, TypeOK, Stage,
                    tierVars, threadVars
<1>10. ASSUME NEW r \in Request, DiskRead(r) \/ DiskWrite(r) PROVE TypeOK'
  <2>1. CASE UNCHANGED tierVars
    BY <1>0, <1>1, <1>10, <2>1 DEF DiskRead, DiskWrite, TypeOK, sfVars, tierVars, taskVars
  <2>2. ASSUME DiskWrite(r), NEW gone \in SUBSET (Key \ {key[r]}),
               l2' = [RowsWithout(gone) EXCEPT ![key[r]] = entry[r]]
        PROVE  TypeOK'
    <3>1. RowsWithout(gone) \in [Key -> Entry \cup {NoEntry}]
      BY DEF RowsWithout, TypeOK
    <3>2. l2' \in [Key -> Entry \cup {NoEntry}]
      BY <1>1, <2>2, <3>1 DEF TypeOK
    <3> QED BY <1>0, <2>2, <3>2 DEF DiskWrite, TypeOK, sfVars, taskVars
  <2> QED BY <1>10, <2>1, <2>2 DEF DiskRead, DiskWrite, tierVars
<1>11. CASE (\E k \in Key : Evict(k)) \/ Wipe \/ Tick
  BY <1>0, <1>11 DEF Evict, Wipe, Tick, RowsWithout, TypeOK, Time, sfVars, tierVars, taskVars,
                     threadVars
<1>12. CASE UNCHANGED vars
  BY <1>0, <1>12 DEF vars, TypeOK, sfVars, tierVars, taskVars, threadVars
<1> QED BY <1>2, <1>3, <1>4, <1>5, <1>7, <1>8, <1>9, <1>10, <1>11, <1>12
        DEF Next, RequestStep

-----------------------------------------------------------------------------
(* Freshness.                                                              *)

\* An entry is fresh after a step.
FreshNext(e, k) ==
  /\ future'[e.value] = "result" /\ key'[e.value] = k
  /\ e.expires <= fetchedAt'[e.value] + Ttl

\* What was fresh when it was stored, and when it was answered, stays so.
LEMMA FreshStays ==
  ASSUME TypeOK, SFP!IInv, [Next]_vars
  PROVE  \A e \in Entry, k \in Key : IsFresh(e, k) => FreshNext(e, k)
<1>1. /\ key' = key
      /\ \A v \in Request : future[v] = "result" =>
           future'[v] = "result" /\ fetchedAt'[v] = fetchedAt[v]
  BY AnswersStay
<1> QED BY <1>1 DEF IsFresh, FreshNext, Entry

\* So what is in the tiers and the threads stays fresh.
LEMMA EntriesStay ==
  ASSUME TypeOK, SFP!IInv, EntriesAreFresh, [Next]_vars
  PROVE  /\ \A k \in Key : /\ l1[k] # NoEntry => FreshNext(l1[k], k)
                           /\ l2[k] # NoEntry => FreshNext(l2[k], k)
         /\ \A r \in Request : entry[r] # NoEntry => FreshNext(entry[r], key[r])
<1>1. /\ \A k \in Key : /\ l1[k] # NoEntry => l1[k] \in Entry /\ IsFresh(l1[k], k)
                        /\ l2[k] # NoEntry => l2[k] \in Entry /\ IsFresh(l2[k], k)
      /\ \A r \in Request : /\ key[r] \in Key
                            /\ entry[r] # NoEntry =>
                                 entry[r] \in Entry /\ IsFresh(entry[r], key[r])
  BY DEF TypeOK, SF!TypeOK, EntriesAreFresh
<1> QED BY <1>1, FreshStays

\* ... and entries that are fresh after a step are what the invariant asks for.
LEMMA EntriesNext ==
  ASSUME \A k \in Key : /\ l1'[k] # NoEntry => FreshNext(l1'[k], k)
                        /\ l2'[k] # NoEntry => FreshNext(l2'[k], k),
         \A r \in Request : entry'[r] # NoEntry => FreshNext(entry'[r], key[r]),
         key' = key
  PROVE  EntriesAreFresh'
BY DEF EntriesAreFresh, IsFresh, FreshNext

\* A request that has its value from flight v stores what is fresh: it read the
\* clock before the answer came.
LEMMA StoreIsFresh ==
  ASSUME TypeOK, SFP!IInv, EntriesAreFresh, [Next]_vars,
         NEW r \in Request, NEW v \in Request, Store(r, v), l2' = l2,
         future'[v] = "result", key[v] = key[r], now[r] <= fetchedAt'[v],
         fetchedAt'[v] \in Int
  PROVE  EntriesAreFresh'
<1> DEFINE e == [value |-> v, expires |-> now[r] + Ttl]
<1>1. key' = key
  BY AnswersStay
<1>2. FreshNext(e, key[r])
  <2>1. now[r] \in Int /\ e.value = v /\ e.expires = now[r] + Ttl
    BY DEF TypeOK, Time
  <2> HIDE DEF e
  <2> QED BY <1>1, <2>1, ExplorerAssumption DEF FreshNext
<1>3. /\ \A k \in Key : l1'[k] = IF k = key[r] THEN e ELSE l1[k]
      /\ \A q \in Request : entry'[q] = IF q = r THEN e ELSE entry[q]
  BY DEF Store, TypeOK
<1> HIDE DEF e
<1> QED BY <1>1, <1>2, <1>3, EntriesStay, EntriesNext

\* Entries that are copied between the tiers and the threads stay fresh.
LEMMA CopiesAreFresh ==
  ASSUME TypeOK, SFP!IInv, EntriesAreFresh, [Next]_vars,
         \A k \in Key : \/ l1'[k] \in {l1[k], NoEntry}
                        \/ \E r \in Request : key[r] = k /\ l1'[k] = entry[r],
         \A k \in Key : \/ l2'[k] \in {l2[k], NoEntry}
                        \/ \E r \in Request : key[r] = k /\ l2'[k] = entry[r],
         \A r \in Request : entry'[r] \in {entry[r], NoEntry, l2[key[r]]}
  PROVE  EntriesAreFresh'
<1>1. key' = key
  BY AnswersStay
<1>2. \A r \in Request : key[r] \in Key
  BY DEF TypeOK, SF!TypeOK
<1> QED BY <1>1, <1>2, EntriesStay, EntriesNext

-----------------------------------------------------------------------------
\* Every step keeps the entries fresh.
LEMMA EntriesStep ==
  ASSUME TypeOK, SFP!IInv, EntriesAreFresh, WaitersCameEarly, [Next]_vars
  PROVE  EntriesAreFresh'
<1>0. /\ key' = key /\ key \in [Request -> Key] /\ clock \in Int
      /\ now \in [Request -> Time] /\ fetchedAt \in [Request -> Time]
      /\ \A r \in Request : now[r] <= clock
      /\ \A r \in Request : pc[r] = "producing" => future[r] = "pending"
  BY AnswersStay DEF TypeOK, SF!TypeOK, WaitersCameEarly, Time, SFP!IInv,
                     SFP!FuturesFollowProducers
<1>1. ASSUME NEW r \in Request, Fetched(r) PROVE EntriesAreFresh'
  <2>1. future'[r] = "result"
    BY <1>0, <1>1 DEF Fetched, SF!Settle, TypeOK, SF!TypeOK
  <2>2. fetchedAt'[r] = clock
    BY <1>0, <1>1 DEF Fetched
  <2> QED BY <1>0, <1>1, <2>1, <2>2, StoreIsFresh DEF Fetched
<1>2. ASSUME NEW r \in Request, Woken(r), future[flight[r]] = "result"
      PROVE  EntriesAreFresh'
  <2>1. /\ flight[r] \in Request /\ key[flight[r]] = key[r]
        /\ pc[r] = "waiting" /\ fetchedAt' = fetchedAt /\ future' = future
        /\ Store(r, flight[r]) /\ l2' = l2
    BY <1>2, WaitersFlight DEF Woken, SF!Wake
  <2>2. now[r] <= fetchedAt[flight[r]]
    BY <1>2, <2>1 DEF WaitersCameEarly
  <2>3. fetchedAt[flight[r]] \in Int
    BY <1>0, <2>1 DEF Time
  <2> QED BY <1>2, <2>1, <2>2, <2>3, StoreIsFresh
<1>3. CASE UNCHANGED <<l1, l2, entry>>
  BY <1>3, CopiesAreFresh
<1>4. ASSUME NEW r \in Request, Rehydrate(r) PROVE EntriesAreFresh'
  BY <1>0, <1>4, CopiesAreFresh DEF Rehydrate, Resumed, TypeOK
<1>5. ASSUME NEW r \in Request, Fetch(r) \/ Wait(r) \/ Stored(r) PROVE EntriesAreFresh'
  BY <1>5, CopiesAreFresh DEF Fetch, Wait, Stored, Resumed, tierVars, TypeOK
<1>6. ASSUME NEW r \in Request, DiskRead(r) PROVE EntriesAreFresh'
  BY <1>6, CopiesAreFresh DEF DiskRead, tierVars, TypeOK
<1>7. ASSUME NEW r \in Request, DiskWrite(r) PROVE EntriesAreFresh'
  BY <1>0, <1>7, CopiesAreFresh DEF DiskWrite, RowsWithout, TypeOK
<1>8. CASE (\E k \in Key : Evict(k)) \/ Wipe
  BY <1>8, CopiesAreFresh DEF Evict, Wipe, RowsWithout, threadVars, TypeOK
<1> QED BY <1>1, <1>2, <1>3, <1>4, <1>5, <1>6, <1>7, <1>8
        DEF Next, RequestStep, Hit, Miss, FetchFailed, Woken, Cancel, Tick, vars, tierVars,
            threadVars

\* Whoever waits for a flight read the clock before it was answered.
LEMMA EarlyStep ==
  ASSUME TypeOK, TypeOK', SFP!IInv, WaitersCameEarly, [Next]_vars
  PROVE  WaitersCameEarly'
<1>0. /\ clock \in Int /\ clock' \in Int /\ stage \in [Request -> Stage]
      /\ pc \in [Request -> {"idle", "producing", "waiting", "done"}]
      /\ now \in [Request -> Int] /\ fetchedAt \in [Request -> Int]
  BY DEF TypeOK, SF!TypeOK, Time
<1>1. clock <= clock'
  BY <1>0 DEF Next, RequestStep, Hit, Miss, Rehydrate, Stored, DiskRead, DiskWrite, Fetch, Wait,
         Woken, Fetched, FetchFailed, Cancel, Evict, Wipe, Tick, vars
<1>2. \A r \in Request : now'[r] # now[r] => now'[r] = clock /\ stage[r] = "new"
                                             /\ clock' = clock
  BY <1>0 DEF Next, RequestStep, Hit, Miss, Rehydrate, Stored, DiskRead, DiskWrite, Fetch, Wait,
         Woken, Fetched, FetchFailed, Cancel, Evict, Wipe, Tick, vars, Leave, taskVars
<1>3. \A v \in Request : fetchedAt'[v] # fetchedAt[v] => fetchedAt'[v] = clock
  BY <1>0 DEF Next, RequestStep, Hit, Miss, Rehydrate, Stored, DiskRead, DiskWrite, Fetch, Wait,
         Woken, Fetched, FetchFailed, Cancel, Evict, Wipe, Tick, vars, Leave, taskVars
<1>4. \A r \in Request : now'[r] <= clock' /\ fetchedAt'[r] <= clock'
  BY <1>0, <1>1, <1>2, <1>3 DEF WaitersCameEarly
<1>5. \A v \in Request : future'[v] = "result" /\ future[v] # "result" => fetchedAt'[v] = clock
  <2>1. UNCHANGED sfVars \/ SFP!Next
    BY StepSimulation
  <2>2. (\E r \in Request : Fetched(r)) \/
          \A v \in Request : future'[v] = "result" => future[v] = "result"
    BY DEF Next, RequestStep, Hit, Miss, Rehydrate, Stored, DiskRead, DiskWrite, Fetch, Wait,
           Woken, FetchFailed, Cancel, Evict, Wipe, Tick, vars, sfVars, SF!Lead, SF!Join,
           SF!CancelProducer, SF!CancelWaiter, SF!Settle, SF!Wake, TypeOK, SF!TypeOK
  <2> QED BY <1>0, <2>2 DEF Fetched, SF!Settle, TypeOK, SF!TypeOK
<1>6. \A r \in Request :
        /\ stage[r] # "new" => stage'[r] # "new"
        /\ pc'[r] # pc[r] => stage'[r] # "new"
        /\ pc'[r] = "waiting" /\ pc[r] # "waiting" =>
             future[flight'[r]] = "pending" /\ future' = future
        /\ pc'[r] = "waiting" /\ pc[r] = "waiting" => flight'[r] = flight[r]
  <2> USE DEF Goto, Leave, AnswerHit, Store, Stage
  <2>1. ASSUME NEW q \in Request, Wait(q)
        PROVE  /\ future[flight'[q]] = "pending" /\ future' = future
               /\ flight' = [flight EXCEPT ![q] = flight'[q]]
               /\ pc' = [pc EXCEPT ![q] = "waiting"] /\ pc[q] = "idle"
               /\ stage' = [stage EXCEPT ![q] = "waiting"]
    <3>1. inFlight[key[q]] \in Request /\ key[q] \in Key /\ flight'[q] = inFlight[key[q]]
      BY <2>1 DEF Wait, SF!Join, TypeOK, SF!TypeOK
    <3>2. future[inFlight[key[q]]] = "pending"
      BY <3>1 DEF SFP!IInv, SFP!TableIsLive, SFP!FuturesFollowProducers
    <3> QED BY <2>1, <3>1, <3>2 DEF Wait, SF!Join, TypeOK, SF!TypeOK
  <2>2. ASSUME NEW q \in Request, RequestStep(q), ~Wait(q)
        PROVE  /\ flight' = flight
               /\ \A r \in Request \ {q} : pc'[r] = pc[r] /\ stage'[r] = stage[r]
               /\ pc'[q] # pc[q] => stage'[q] # "new" /\ pc'[q] # "waiting"
               /\ stage[q] # "new" => stage'[q] # "new"
    BY <1>0, <2>2 DEF RequestStep, Hit, Miss, Rehydrate, Stored, DiskRead, DiskWrite, Fetch,
           Woken, Fetched, FetchFailed, Cancel, sfVars, taskVars, SF!Lead, SF!End,
           SF!CancelProducer, SF!CancelWaiter, SF!Settle, SF!Wake
  <2>3. ASSUME (\E k \in Key : Evict(k)) \/ Wipe \/ Tick \/ UNCHANGED vars
        PROVE  UNCHANGED <<pc, stage, flight>>
    BY <2>3 DEF Evict, Wipe, Tick, vars, sfVars, taskVars
  <2>4. flight \in [Request -> Request \cup {NoFlight}]
    BY DEF TypeOK, SF!TypeOK
  <2> SUFFICES ASSUME NEW r \in Request
               PROVE  /\ stage[r] # "new" => stage'[r] # "new"
                      /\ pc'[r] # pc[r] => stage'[r] # "new"
                      /\ pc'[r] = "waiting" /\ pc[r] # "waiting" =>
                           future[flight'[r]] = "pending" /\ future' = future
                      /\ pc'[r] = "waiting" /\ pc[r] = "waiting" => flight'[r] = flight[r]
    OBVIOUS
  <2>5. ASSUME NEW q \in Request, Wait(q), q = r PROVE stage'[r] # "new" /\ pc[r] = "idle"
    BY <1>0, <2>1, <2>5
  <2>6. ASSUME NEW q \in Request, Wait(q), q # r
        PROVE  stage'[r] = stage[r] /\ pc'[r] = pc[r] /\ flight'[r] = flight[r]
    BY <1>0, <2>1, <2>4, <2>6
  <2>7. ASSUME NEW q \in Request, RequestStep(q), ~Wait(q)
        PROVE  /\ flight' = flight
               /\ \/ pc'[r] = pc[r] /\ stage'[r] = stage[r]
                  \/ /\ pc'[r] # pc[r] => stage'[r] # "new" /\ pc'[r] # "waiting"
                     /\ stage[r] # "new" => stage'[r] # "new"
    BY <2>2, <2>7
  <2> QED BY <2>1, <2>3, <2>5, <2>6, <2>7 DEF Next, RequestStep
<1>7. \A r \in Request : stage'[r] = "new" => pc'[r] = "idle"
  BY <1>6 DEF WaitersCameEarly
<1>8. ASSUME NEW r \in Request, pc'[r] = "waiting", future'[flight'[r]] = "result"
      PROVE  now'[r] <= fetchedAt'[flight'[r]]
  <2>1. pc[r] = "waiting" /\ flight'[r] = flight[r] /\ flight[r] \in Request
    BY <1>6, <1>8, WaitersFlight
  <2>2. now'[r] = now[r]
    BY <1>2, <2>1 DEF WaitersCameEarly
  <2>3. CASE future[flight[r]] = "result"
    BY <2>1, <2>2, <2>3, AnswersStay DEF WaitersCameEarly
  <2>4. CASE future[flight[r]] # "result"
    BY <1>5, <1>8, <2>1, <2>2, <2>4 DEF WaitersCameEarly
  <2> QED BY <2>3, <2>4
<1> QED BY <1>4, <1>7, <1>8 DEF WaitersCameEarly

\* A hit answers with an entry that was fresh when the request asked.
LEMMA HitsStep ==
  ASSUME TypeOK, SFP!IInv, EntriesAreFresh, WaitersCameEarly, HitsStay, [Next]_vars
  PROVE  HitsStay'
<1>0. /\ key' = key /\ key \in [Request -> Key] /\ hit \subseteq Request /\ clock \in Int
      /\ stage \in [Request -> Stage] /\ now \in [Request -> Int]
      /\ fetchedAt \in [Request -> Int]
      /\ \A v \in Request : future[v] = "result" =>
           future'[v] = "result" /\ fetchedAt'[v] = fetchedAt[v]
  BY AnswersStay DEF TypeOK, SF!TypeOK, Time
<1>1. ASSUME NEW r \in hit, stage'[r] = stage[r], answer'[r] = answer[r], now'[r] = now[r]
      PROVE  /\ stage'[r] = "ended" /\ answer'[r] \in Request
             /\ future'[answer'[r]] = "result" /\ key[answer'[r]] = key[r]
             /\ now'[r] < fetchedAt'[answer'[r]] + Ttl
  BY <1>0, <1>1 DEF HitsStay
<1>2. \A r \in Request : stage[r] = "ended" =>
        stage'[r] = stage[r] /\ answer'[r] = answer[r] /\ now'[r] = now[r]
  <2> USE DEF Goto, Leave, AnswerHit, Store, taskVars
  <2>0. answer \in [Request -> Request \cup {NoFlight}]
    BY DEF TypeOK
  <2> SUFFICES ASSUME NEW r \in Request, stage[r] = "ended"
               PROVE  stage'[r] = stage[r] /\ answer'[r] = answer[r] /\ now'[r] = now[r]
    OBVIOUS
  <2>1. ASSUME NEW q \in Request, Hit(q) \/ Miss(q) \/ Rehydrate(q) \/ Fetch(q) \/ Wait(q)
        PROVE  stage'[r] = stage[r] /\ answer'[r] = answer[r] /\ now'[r] = now[r]
    BY <1>0, <2>0, <2>1 DEF Hit, Miss, Rehydrate, Fetch, Wait
  <2>2. ASSUME NEW q \in Request, Fetched(q) \/ FetchFailed(q) \/ Woken(q) \/ Stored(q)
        PROVE  stage'[r] = stage[r] /\ answer'[r] = answer[r] /\ now'[r] = now[r]
    BY <1>0, <2>0, <2>2 DEF Fetched, FetchFailed, Woken, Stored
  <2>3. ASSUME NEW q \in Request, Cancel(q) \/ DiskRead(q) \/ DiskWrite(q)
        PROVE  stage'[r] = stage[r] /\ answer'[r] = answer[r] /\ now'[r] = now[r]
    BY <1>0, <2>0, <2>3 DEF Cancel, DiskRead, DiskWrite
  <2>4. ASSUME (\E k \in Key : Evict(k)) \/ Wipe \/ Tick \/ UNCHANGED vars
        PROVE  stage'[r] = stage[r] /\ answer'[r] = answer[r] /\ now'[r] = now[r]
    BY <2>4 DEF Evict, Wipe, Tick, vars
  <2> QED BY <2>1, <2>2, <2>3, <2>4 DEF Next, RequestStep
<1>3. ASSUME NEW r \in Request, NEW e, e # NoEntry, e \in Entry, IsFresh(e, key[r]),
             AnswerHit(r, e), now'[r] < e.expires, now'[r] \in Int
      PROVE  /\ hit' = hit \cup {r}
             /\ stage'[r] = "ended" /\ answer'[r] \in Request
             /\ future'[answer'[r]] = "result" /\ key[answer'[r]] = key[r]
             /\ now'[r] < fetchedAt'[answer'[r]] + Ttl
  <2>1. /\ e.value \in Request /\ e.expires \in Int
        /\ e.expires <= fetchedAt[e.value] + Ttl /\ key[e.value] = key[r]
        /\ future[e.value] = "result"
    BY <1>3, ExplorerAssumption DEF Entry, IsFresh
  <2>2. /\ answer'[r] = e.value /\ stage'[r] = "ended" /\ hit' = hit \cup {r}
    BY <1>3 DEF AnswerHit, Goto, TypeOK
  <2> QED BY <1>0, <1>3, <2>1, <2>2, ExplorerAssumption
<1>4. ASSUME NEW r \in Request, Hit(r) PROVE HitsStay'
  <2>1. /\ l1[key[r]] \in Entry /\ l1[key[r]] # NoEntry /\ IsFresh(l1[key[r]], key[r])
        /\ now'[r] = clock /\ clock < l1[key[r]].expires
    BY <1>0, <1>4 DEF Hit, Alive, TypeOK, EntriesAreFresh
  <2>2. AnswerHit(r, l1[key[r]])
    BY <1>4 DEF Hit
  <2> QED BY <1>0, <1>1, <1>2, <1>3, <2>1, <2>2 DEF HitsStay
<1>5. ASSUME NEW r \in Request, Rehydrate(r) PROVE HitsStay'
  <2>1. /\ entry[r] \in Entry /\ entry[r] # NoEntry /\ IsFresh(entry[r], key[r])
        /\ now'[r] = now[r] /\ now[r] < entry[r].expires
    BY <1>0, <1>5 DEF Rehydrate, Alive, TypeOK, EntriesAreFresh
  <2>2. AnswerHit(r, entry[r])
    BY <1>5 DEF Rehydrate
  <2> QED BY <1>0, <1>1, <1>2, <1>3, <2>1, <2>2 DEF HitsStay
<1>6. CASE hit' = hit
  BY <1>0, <1>1, <1>2, <1>6 DEF HitsStay
<1> QED BY <1>4, <1>5, <1>6
        DEF Next, RequestStep, Miss, Stored, DiskRead, DiskWrite, Fetch, Wait, Woken, Fetched,
            FetchFailed, Cancel, Evict, Wipe, Tick, vars, Leave, taskVars

-----------------------------------------------------------------------------
\* Initially both tiers are empty, and nobody has asked.
LEMMA InitIInv == Init => IInv
<1> SUFFICES ASSUME Init PROVE IInv
  OBVIOUS
<1>1. TypeOK
  BY ExplorerAssumption DEF Init, SF!Init, SF!TypeOK, TypeOK, Time, NoEntries, Stage
<1>2. EntriesAreFresh /\ WaitersCameEarly /\ HitsStay
  BY DEF Init, SF!Init, NoEntries, EntriesAreFresh, WaitersCameEarly, HitsStay
<1> QED BY <1>1, <1>2 DEF IInv

\* The inductive invariant holds in every reachable state.
THEOREM Invariance == Spec => []IInv
<1>1. IInv /\ SFP!IInv /\ SFP!IInv' /\ [Next]_vars => IInv'
  BY TypesStep, EntriesStep, EarlyStep, HitsStep DEF IInv
<1> QED BY InitIInv, FlightsHold, <1>1, PTL DEF Spec

\* Every variable of the cache and of its flights has its type.
THEOREM TypeCorrect == Spec => []TypeOK
<1>1. IInv => TypeOK
  BY DEF IInv
<1> QED BY <1>1, Invariance, PTL

\* A cache hit was fetched for the same key, less than _ttl_s before the request
\* asked, for any number of callers that stored it again.
THEOREM CacheIsFresh == Spec => []HitsAreFresh
<1>1. IInv => HitsAreFresh
  BY DEF IInv, HitsStay, HitsAreFresh
<1> QED BY <1>1, Invariance, PTL
==============================================================================
