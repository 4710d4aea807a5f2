------------------------ MODULE CachedEvaluatorProofs ------------------------
(***************************************************************************)
(* Proofs about CachedEvaluator for any number of requests, keys and L1    *)
(* entries: no search is redundant, since what is proved of SingleFlight   *)
(* holds of the evaluator's flights; whatever way a value takes through    *)
(* the tiers, it answers its own position; and the rule that writes to     *)
(* disk only when L1 is cold leaves nothing in memory alone whose row was  *)
(* not taken.                                                              *)
(***************************************************************************)
EXTENDS CachedEvaluator, TLAPS

SFP == INSTANCE SingleFlightProofs

-----------------------------------------------------------------------------
\* Every step of the evaluator is a step of SingleFlight or leaves it alone.
LEMMA StepSimulation == [Next]_vars => [SF!Next]_sfVars
<1> SUFFICES ASSUME [Next]_vars PROVE [SF!Next]_sfVars
  OBVIOUS
<1>1. ASSUME NEW r \in Request,
             \/ Lookup(r) \/ Disk(r) \/ CancelReader(r)
      PROVE  UNCHANGED sfVars
  BY <1>1 DEF Lookup, Hit, Miss, Rehydrate, LateHit, Disk, DiskRead, DiskWrite,
              CancelReader
<1>2. ASSUME NEW r \in Request, Fly(r) PROVE SF!Next
  BY <1>2 DEF Fly, Search, Wait, Written, Woken, SF!Next, SF!Complete
<1>3. ASSUME NEW r \in Request, Compute(r) PROVE SF!Next \/ UNCHANGED sfVars
  BY <1>3 DEF Compute, Searched, SearchFailed, SF!Next, SF!Complete
<1>4. ASSUME NEW r \in Request, CancelSearch(r) \/ CancelWaiter(r) PROVE SF!Next
  BY <1>4 DEF CancelSearch, CancelWaiter, SF!Next
<1>5. ASSUME ClearL1 \/ ClearDisk PROVE UNCHANGED sfVars
  BY <1>5 DEF ClearL1, ClearDisk
<1>6. CASE UNCHANGED vars
  BY <1>6 DEF vars
<1> QED BY <1>1, <1>2, <1>3, <1>4, <1>5, <1>6 DEF Next, Cancel

\* SingleFlightProofs speaks of an instance of its own, of the same variables.
LEMMA SameInstance ==
  /\ SF!Init => SFP!Init
  /\ [SF!Next]_sfVars => [SFP!Next]_sfVars
  /\ SFP!TableIsLive => SF!TableIsLive
  BY DEF SF!Init, SFP!Init, SF!Next, SFP!Next, SF!Lead, SFP!Lead, SF!Join, SFP!Join,
         SF!Complete, SFP!Complete, SF!CancelProducer, SFP!CancelProducer,
         SF!Wake, SFP!Wake, SF!CancelWaiter, SFP!CancelWaiter,
         SF!Settle, SFP!Settle, SF!End, SFP!End, SF!TableIsLive, SFP!TableIsLive

\* Hence the table holds exactly the running flights.
LEMMA TableExact == Spec => []SF!TableIsLive
<1>1. SFP!Spec => []SFP!TableIsLive
  BY CacheAssumption, SFP!TableExact DEF SFP!FlightAssumption
<1>2. Init => SFP!Init
  BY SameInstance DEF Init
<1>3. [Next]_vars => [SFP!Next]_sfVars
  BY SameInstance, StepSimulation
<1>4. SFP!TableIsLive => SF!TableIsLive
  BY SameInstance
<1> QED BY <1>1, <1>2, <1>3, <1>4, PTL DEF Spec, SFP!Spec, SFP!vars, sfVars

-----------------------------------------------------------------------------
\* A request searches, or stores what it found, exactly while its flight runs.
Flying ==
  /\ stage \in [Request -> Stage]
  /\ pc \in [Request -> {"idle", "producing", "waiting", "done"}]
  /\ key \in [Request -> Key]
  /\ \A r \in Request : stage[r] \in {"searching", "writing"} <=> pc[r] = "producing"

\* Stage and flight stay in step.
LEMMA FlyingStep == Flying /\ [Next]_vars => Flying'
<1> SUFFICES ASSUME Flying, [Next]_vars PROVE Flying'
  OBVIOUS
<1> USE DEF Flying, Stage, Goto, End
<1>1. ASSUME NEW r \in Request, Lookup(r) PROVE Flying'
  BY <1>1 DEF Lookup, Hit, Miss, Rehydrate, LateHit, NoRow, sfVars
<1>2. ASSUME NEW r \in Request, Disk(r) PROVE Flying'
  BY <1>2 DEF Disk, DiskRead, DiskWrite, sfVars, taskVars
<1>3. ASSUME NEW r \in Request, Search(r) PROVE Flying'
  BY <1>3 DEF Search, SF!Lead
<1>4. ASSUME NEW r \in Request, Wait(r) PROVE Flying'
  BY <1>4 DEF Wait, SF!Join, NoRow
<1>5. ASSUME NEW r \in Request, Written(r) \/ SearchFailed(r) \/ CancelSearch(r)
      PROVE  Flying'
  BY <1>5 DEF Written, SearchFailed, CancelSearch, SF!CancelProducer, SF!Settle, SF!End
<1>6. ASSUME NEW r \in Request, Searched(r) PROVE Flying'
  BY <1>6 DEF Searched, SF!Settle, SF!End, sfVars
<1>7. ASSUME NEW r \in Request, Woken(r) \/ CancelWaiter(r) PROVE Flying'
  BY <1>7 DEF Woken, CancelWaiter, SF!Wake, SF!CancelWaiter, SF!End
<1>8. ASSUME NEW r \in Request, CancelReader(r) PROVE Flying'
  BY <1>8 DEF CancelReader, sfVars
<1>9. ASSUME ClearL1 \/ ClearDisk \/ UNCHANGED vars PROVE Flying'
  BY <1>9 DEF ClearL1, ClearDisk, vars, sfVars, taskVars
<1> QED BY <1>1, <1>2, <1>3, <1>4, <1>5, <1>6, <1>7, <1>8, <1>9
        DEF Next, Fly, Compute, Cancel

\* ... in every behaviour.
LEMMA FlyingInvariant == Spec => []Flying
<1>1. Init => Flying
  BY DEF Init, SF!Init, Flying, Stage
<1> QED BY <1>1, FlyingStep, PTL DEF Spec

\* A search starts only when L1 has no value for the key and no other search
\* for it runs, however late the request is and whatever L2 said.
THEOREM SearchesAreNeeded == Spec => NoRedundantSearch
<1> DEFINE Needed ==
      \A r \in Request : stage[r] # "searching" /\ stage'[r] = "searching" =>
        /\ ~L1Holds(key[r])
        /\ \A s \in Request : stage[s] \in {"searching", "writing"} => key[s] # key[r]
<1>1. Flying /\ SF!TableIsLive /\ [Next]_vars => [Needed]_vars
  <2> SUFFICES ASSUME Flying, SF!TableIsLive, Next, NEW q \in Request,
                      stage[q] # "searching", stage'[q] = "searching"
               PROVE  /\ ~L1Holds(key[q])
                      /\ \A s \in Request :
                           stage[s] \in {"searching", "writing"} => key[s] # key[q]
    OBVIOUS
  <2>1. Search(q)
    BY DEF Next, Lookup, Hit, Miss, Rehydrate, LateHit, Fly, Search, Wait, Written, Woken,
           Compute, Searched, SearchFailed, Disk, DiskRead, DiskWrite, Cancel, CancelReader,
           CancelSearch, CancelWaiter, ClearL1, ClearDisk, Goto, End, taskVars, Flying
  <2>2. ~L1Holds(key[q]) /\ inFlight[key[q]] = NoFlight
    BY <2>1 DEF Search, SF!Lead
  <2>3. ASSUME NEW s \in Request, stage[s] \in {"searching", "writing"}, key[s] = key[q]
        PROVE  FALSE
    BY <2>2, <2>3, CacheAssumption DEF Flying, SF!TableIsLive
  <2> QED BY <2>2, <2>3
<1> QED BY <1>1, FlyingInvariant, TableExact, PTL DEF Spec, NoRedundantSearch

-----------------------------------------------------------------------------
(* The values in the tiers.                                                *)

Typed ==
  /\ l1 \in [Key -> Value]
  /\ l2 \in [Key -> Value \cup {Garbage}]
  /\ thread \in [Request -> {"none", "read", "write", "done"}]
  /\ row \in [Request -> Value \cup {Garbage}]
  /\ answer \in [Request -> Value]

\* The search of request v for key k has found its value.
Found(v, k) == key[v] = k /\ stage[v] \in {"writing", "ended"}

ValuesFound ==
  /\ \A k \in Key : /\ L1Holds(k) => Found(l1[k], k)
                    /\ l2[k] \in Request => Found(l2[k], k)
  /\ \A r \in Request : /\ row[r] \in Request => Found(row[r], key[r])
                        /\ answer[r] # NoValue => Found(answer[r], key[r])
                        /\ thread[r] = "write" => stage[r] \in {"writing", "ended"}
                        /\ pc[r] = "done" => stage[r] = "ended"

\* What a thread has read is still on disk, unless it was taken meanwhile; and
\* the thread of a request that has not started is not in use.
RowsAccounted ==
  \A r \in Request :
    /\ stage[r] = "new" => thread[r] = "none"
    /\ row[r] \in Request => l2[key[r]] \in Request \/ key[r] \in lost

IInv == Typed /\ ValuesFound /\ RowsAccounted /\ MemoryBackedByDisk

\* What L1Set does to L1, whichever entry it evicts.
LEMMA L1After ==
  ASSUME NEW k \in Key, NEW v \in Value, Typed, L1Set(k, v)
  PROVE  /\ l1' \in [Key -> Value] /\ l1'[k] = v
         /\ \A q \in Key \ {k} : l1'[q] \in {l1[q], NoValue}
  BY DEF Typed, L1Set, Value

\* A search that has found its value has found it for good.
LEMMA StagesAdvance ==
  ASSUME Flying, [Next]_vars
  PROVE  /\ key' = key
         /\ \A v \in Request :
              /\ stage[v] = "ended" => stage'[v] = "ended"
              /\ stage[v] = "writing" => stage'[v] \in {"writing", "ended"}
              /\ stage'[v] = "new" => stage[v] = "new"
              /\ pc'[v] = "done" => pc[v] = "done" \/ stage'[v] = "ended"
<1> USE DEF Flying, Stage, Goto, End, sfVars
<1> DEFINE Advance == key' = key
         /\ \A v \in Request :
              /\ stage[v] = "ended" => stage'[v] = "ended"
              /\ stage[v] = "writing" => stage'[v] \in {"writing", "ended"}
              /\ stage'[v] = "new" => stage[v] = "new"
              /\ pc'[v] = "done" => pc[v] = "done" \/ stage'[v] = "ended"
<1>1. ASSUME NEW r \in Request, Lookup(r) \/ Disk(r) \/ CancelReader(r) PROVE Advance
  BY <1>1 DEF Lookup, Hit, Miss, Rehydrate, LateHit, NoRow, Disk, DiskRead, DiskWrite,
              CancelReader, taskVars
<1>2. ASSUME NEW r \in Request, Search(r) \/ Wait(r) PROVE Advance
  BY <1>2 DEF Search, Wait, NoRow, SF!Lead, SF!Join
<1>3. ASSUME NEW r \in Request, Written(r) \/ SearchFailed(r) \/ CancelSearch(r)
      PROVE  Advance
  BY <1>3 DEF Written, SearchFailed, CancelSearch, SF!CancelProducer, SF!Settle, SF!End
<1>4. ASSUME NEW r \in Request, Searched(r) PROVE Advance
  BY <1>4 DEF Searched, SF!Settle, SF!End
<1>5. ASSUME NEW r \in Request, Woken(r) \/ CancelWaiter(r) PROVE Advance
  BY <1>5 DEF Woken, CancelWaiter, SF!Wake, SF!CancelWaiter, SF!End
<1>6. ASSUME ClearL1 \/ ClearDisk \/ UNCHANGED vars PROVE Advance
  BY <1>6 DEF ClearL1, ClearDisk, vars, taskVars
<1> QED BY <1>1, <1>2, <1>3, <1>4, <1>5, <1>6 DEF Next, Fly, Compute, Cancel

\* A waiter whose flight ended in a result gets the value of a search for its
\* own key that is over.
LEMMA WaitersFlight ==
  ASSUME Flying, ValuesFound, SFP!IInv, NEW r \in Request,
         pc[r] = "waiting", future[flight[r]] = "result"
  PROVE  flight[r] \in Request /\ Found(flight[r], key[r])
<1>1. flight[r] \in Request
  BY DEF SFP!IInv, SFP!TypeOK, SFP!FuturesFollowProducers
<1>2. pc[flight[r]] = "done" /\ key[flight[r]] = key[r]
  BY <1>1 DEF SFP!IInv, SFP!FuturesFollowProducers, SFP!SharedOutcome
<1> QED BY <1>1, <1>2 DEF ValuesFound, Found

-----------------------------------------------------------------------------
\* Every step keeps the types.
LEMMA TypedStep ==
  ASSUME Typed, Flying, ValuesFound, SFP!IInv, [Next]_vars PROVE Typed'
<1> USE DEF Typed, Flying, Value, Start, Resumed, End
<1>1. ASSUME NEW r \in Request, Hit(r) \/ Miss(r) PROVE Typed'
  BY <1>1 DEF Hit, Miss, L1Get, l2Vars, threadVars, l1Vars
<1>2. ASSUME NEW r \in Request, Rehydrate(r) PROVE Typed'
  BY <1>2, L1After DEF Rehydrate, l2Vars
<1>3. ASSUME NEW r \in Request, LateHit(r) \/ Search(r) \/ Wait(r) PROVE Typed'
  BY <1>3 DEF LateHit, Search, Wait, NoRow, L1Get, l2Vars, l1Vars
<1>4. ASSUME NEW r \in Request, DiskRead(r) PROVE Typed'
  BY <1>4 DEF DiskRead, KeptOrEmptied, l1Vars, l2Vars, taskVars, NoRows
<1>5. ASSUME NEW r \in Request, DiskWrite(r) PROVE Typed'
  BY <1>5 DEF DiskWrite, Inserted, KeptOrEmptied, l1Vars, taskVars, NoRows
<1>6. ASSUME NEW r \in Request, Searched(r) PROVE Typed'
  BY <1>6, L1After DEF Searched, l2Vars
<1>7. ASSUME NEW r \in Request, Written(r) \/ SearchFailed(r) PROVE Typed'
  BY <1>7 DEF Written, SearchFailed, l1Vars, l2Vars, threadVars
<1>8. ASSUME NEW r \in Request, Woken(r) PROVE Typed'
  <2>1. future[flight[r]] = "result" => flight[r] \in Request
    BY <1>8, WaitersFlight DEF Woken, SF!Wake
  <2> QED BY <1>8, <2>1 DEF Woken, l1Vars, l2Vars, threadVars
<1>9. ASSUME NEW r \in Request, CancelReader(r) \/ CancelSearch(r) \/ CancelWaiter(r)
      PROVE  Typed'
  BY <1>9 DEF CancelReader, CancelSearch, CancelWaiter, l1Vars, l2Vars, threadVars
<1>10. ASSUME ClearL1 \/ ClearDisk \/ UNCHANGED vars PROVE Typed'
  BY <1>10 DEF ClearL1, ClearDisk, KeptOrEmptied, NoRows, vars, l1Vars, l2Vars, taskVars,
               threadVars
<1> QED BY <1>1, <1>2, <1>3, <1>4, <1>5, <1>6, <1>7, <1>8, <1>9, <1>10
        DEF Next, Lookup, Fly, Compute, Disk, Cancel
-----------------------------------------------------------------------------
\* Found, in the state after a step.
FoundNext(v, k) == key'[v] = k /\ stage'[v] \in {"writing", "ended"}

\* Values that are copied, or newly found, keep ValuesFound.
LEMMA ValuesNext ==
  ASSUME Typed, Flying, ValuesFound, [Next]_vars,
         \A k \in Key : l1'[k] \in {l1[k], NoValue} \/ FoundNext(l1'[k], k),
         \A k \in Key : l2'[k] \in {l2[k], NoValue} \/ FoundNext(l2'[k], k),
         \A r \in Request : row'[r] \in {row[r], NoValue, l2[key[r]]},
         \A r \in Request : answer'[r] \in {answer[r], NoValue} \/ FoundNext(answer'[r], key[r]),
         \A r \in Request : thread'[r] = "write" =>
           thread[r] = "write" \/ stage'[r] = "writing"
  PROVE  ValuesFound'
<1>1. /\ key' = key /\ \A r \in Request : key[r] \in Key
      /\ \A v \in Request : stage[v] \in {"writing", "ended"} =>
           stage'[v] \in {"writing", "ended"}
      /\ \A v \in Request : /\ stage[v] = "ended" => stage'[v] = "ended"
                            /\ pc'[v] = "done" => pc[v] = "done" \/ stage'[v] = "ended"
  BY StagesAdvance DEF Flying
<1>2. \A v \in Request, k \in Key : Found(v, k) => FoundNext(v, k)
  BY <1>1 DEF Found, FoundNext
<1>3. /\ \A k \in Key : l1[k] # NoValue => l1[k] \in Request /\ Found(l1[k], k)
      /\ \A k \in Key : l2[k] \in Request => Found(l2[k], k)
      /\ \A r \in Request : /\ answer[r] # NoValue =>
                                 answer[r] \in Request /\ Found(answer[r], key[r])
                            /\ row[r] \in Request => Found(row[r], key[r])
  BY DEF Typed, Value, ValuesFound, L1Holds
<1>4. /\ \A k \in Key : l1'[k] # NoValue => FoundNext(l1'[k], k)
      /\ \A k \in Key : l2'[k] \in Request => FoundNext(l2'[k], k)
      /\ \A r \in Request : row'[r] \in Request => FoundNext(row'[r], key[r])
      /\ \A r \in Request : answer'[r] # NoValue => FoundNext(answer'[r], key[r])
  BY <1>1, <1>2, <1>3, CacheAssumption
<1>5. \A r \in Request : /\ thread'[r] = "write" => stage'[r] \in {"writing", "ended"}
                         /\ pc'[r] = "done" => stage'[r] = "ended"
  BY <1>1 DEF ValuesFound
<1> QED BY <1>1, <1>4, <1>5 DEF ValuesFound, L1Holds, Found, FoundNext

\* Every step keeps ValuesFound: a value enters the caches when it is found, and
\* goes from there to requests for its own key only.
LEMMA ValuesStep ==
  ASSUME Typed, Flying, ValuesFound, SFP!IInv, [Next]_vars PROVE ValuesFound'
<1>0. key' = key /\ key \in [Request -> Key] /\ stage \in [Request -> Stage]
  BY StagesAdvance DEF Flying
<1> USE <1>0 DEF Typed, Start, Resumed, Goto, End
<1>1. ASSUME NEW r \in Request, Hit(r) PROVE ValuesFound'
  <2>1. Found(l1[key[r]], key[r])
    BY <1>1 DEF Hit, ValuesFound
  <2>2. l1[key[r]] \in Request
    BY <1>1 DEF Hit, Value, L1Holds
  <2>3. FoundNext(l1[key[r]], key[r])
    BY <2>1, <2>2, StagesAdvance DEF Found, FoundNext
  <2> QED BY <1>1, <2>3, ValuesNext DEF Hit, L1Get, l2Vars, threadVars
<1>2. ASSUME NEW r \in Request, LateHit(r) PROVE ValuesFound'
  <2>1. Found(l1[key[r]], key[r])
    BY <1>2 DEF LateHit, ValuesFound
  <2>2. l1[key[r]] \in Request
    BY <1>2 DEF LateHit, Value, L1Holds
  <2>3. FoundNext(l1[key[r]], key[r])
    BY <2>1, <2>2, StagesAdvance DEF Found, FoundNext
  <2> QED BY <1>2, <2>3, ValuesNext DEF LateHit, NoRow, L1Get, l2Vars
<1>3. ASSUME NEW r \in Request, Rehydrate(r) PROVE ValuesFound'
  <2>1. row[r] \in Request /\ Found(row[r], key[r])
    BY <1>3 DEF Rehydrate, ValuesFound
  <2>2. FoundNext(row[r], key[r])
    BY <2>1, StagesAdvance DEF Found, FoundNext
  <2>3. /\ l1'[key[r]] = row[r]
        /\ \A q \in Key \ {key[r]} : l1'[q] \in {l1[q], NoValue}
    BY <1>3, <2>1, L1After DEF Rehydrate, Value
  <2> QED BY <1>3, <2>2, <2>3, ValuesNext DEF Rehydrate, l2Vars
<1>4. ASSUME NEW r \in Request, Searched(r) PROVE ValuesFound'
  <2>1. FoundNext(r, key[r])
    BY <1>4 DEF Searched, FoundNext
  <2>2. /\ l1'[key[r]] = r
        /\ \A q \in Key \ {key[r]} : l1'[q] \in {l1[q], NoValue}
    BY <1>4, L1After DEF Searched, Value
  <2>3. \A q \in Request : /\ answer'[q] = answer[q] \/ FoundNext(answer'[q], key[q])
                           /\ thread'[q] = "write" => thread[q] = "write" \/ stage'[q] = "writing"
    BY <1>4, <2>1 DEF Searched
  <2> QED BY <1>4, <2>1, <2>2, <2>3, ValuesNext DEF Searched, l2Vars
<1>5. ASSUME NEW r \in Request, Written(r) PROVE ValuesFound'
  <2>1. FoundNext(r, key[r])
    BY <1>5 DEF Written, FoundNext
  <2> QED BY <1>5, <2>1, ValuesNext DEF Written, l1Vars, l2Vars
<1>6. ASSUME NEW r \in Request, Woken(r) PROVE ValuesFound'
  <2>1. future[flight[r]] = "result" => FoundNext(flight[r], key[r])
    BY <1>6, WaitersFlight, StagesAdvance DEF Woken, SF!Wake, Found, FoundNext
  <2> QED BY <1>6, <2>1, ValuesNext DEF Woken, l1Vars, l2Vars, threadVars
<1>7. ASSUME NEW r \in Request, DiskRead(r) PROVE ValuesFound'
  BY <1>7, ValuesNext DEF DiskRead, KeptOrEmptied, NoRows, l1Vars, l2Vars, taskVars
<1>8. ASSUME NEW r \in Request, DiskWrite(r) PROVE ValuesFound'
  <2>1. FoundNext(r, key[r])
    BY <1>8, StagesAdvance DEF DiskWrite, ValuesFound, FoundNext
  <2>2. \A k \in Key : l2'[k] \in {l2[k], NoValue} \/ (k = key[r] /\ l2'[k] = r)
    BY <1>8 DEF DiskWrite, Inserted, KeptOrEmptied, NoRows
  <2> QED BY <1>8, <2>1, <2>2, ValuesNext DEF DiskWrite, l1Vars, taskVars
<1>9. ASSUME NEW r \in Request, Miss(r) \/ Search(r) \/ Wait(r) PROVE ValuesFound'
  BY <1>9, ValuesNext DEF Miss, Search, Wait, NoRow, l1Vars, l2Vars
<1>10. ASSUME NEW r \in Request, SearchFailed(r) \/ CancelReader(r) \/ CancelSearch(r)
                                 \/ CancelWaiter(r)
       PROVE  ValuesFound'
  BY <1>10, ValuesNext DEF SearchFailed, CancelReader, CancelSearch, CancelWaiter, l1Vars,
                           l2Vars, threadVars
<1>11. ASSUME ClearL1 \/ ClearDisk \/ UNCHANGED vars PROVE ValuesFound'
  BY <1>11, ValuesNext DEF ClearL1, ClearDisk, KeptOrEmptied, NoRows, vars, l1Vars, l2Vars,
                           taskVars, threadVars
<1> QED BY <1>1, <1>2, <1>3, <1>4, <1>5, <1>6, <1>7, <1>8, <1>9, <1>10, <1>11
        DEF Next, Lookup, Fly, Compute, Disk, Cancel

-----------------------------------------------------------------------------
\* A row that was on disk before a step and is not after it is accounted for,
\* and so is a writer that ends without one.
RowsKept ==
  /\ \A k \in Key : /\ l2[k] \in Request => l2'[k] \in Request \/ k \in lost'
                    /\ k \in lost => l2'[k] \in Request \/ k \in lost'
  /\ \A r \in Request : thread[r] = "write" =>
       \/ thread'[r] = "write" \/ l2'[key[r]] \in Request \/ key[r] \in lost'

\* What the disk calls do to the rows.
LEMMA DiskKeepsAccount ==
  ASSUME Typed, Flying, NEW r \in Request,
         DiskRead(r) \/ DiskWrite(r)
  PROVE  RowsKept
<1>1. key \in [Request -> Key] /\ key[r] \in Key
  BY DEF Flying
<1>2. CASE DiskRead(r)
  BY <1>1, <1>2 DEF DiskRead, KeptOrEmptied, Stored, Start, l2Vars, Typed, RowsKept
<1>3. CASE thread' = [thread EXCEPT ![r] = "done"] /\ Inserted(r)
  <2>1. PICK gone \in SUBSET (Key \ {key[r]}) :
          /\ l2' = [k \in Key |-> IF k = key[r] THEN r
                                 ELSE IF k \in gone THEN NoValue ELSE l2[k]]
          /\ lost' = (lost \cup Stored(gone)) \ {key[r]}
    BY <1>3 DEF Inserted
  <2>2. l2'[key[r]] \in Request
    BY <1>1, <2>1
  <2>3. \A k \in Key \ {key[r]} :
          /\ l2[k] \in Request => l2'[k] \in Request \/ k \in lost'
          /\ k \in lost => k \in lost'
    BY <2>1 DEF Stored
  <2> QED BY <1>1, <1>3, <2>2, <2>3 DEF Typed, RowsKept
<1>4. CASE thread' = [thread EXCEPT ![r] = "done"] /\ KeptOrEmptied({key[r]})
  BY <1>1, <1>4 DEF KeptOrEmptied, Stored, Typed, RowsKept
<1> QED BY <1>2, <1>3, <1>4 DEF DiskWrite, Start

\* Every step accounts for the rows.
LEMMA RowsStep ==
  ASSUME Typed, Flying, RowsAccounted, [Next]_vars PROVE RowsKept
<1>0. key \in [Request -> Key] /\ stage \in [Request -> Stage]
  BY DEF Flying
<1>1. CASE \E r \in Request : Disk(r)
  BY <1>1, DiskKeepsAccount DEF Disk
<1>2. CASE ClearDisk
  BY <1>0, <1>2 DEF ClearDisk, KeptOrEmptied, Stored, threadVars, RowsKept
<1>3. ASSUME NEW r \in Request, Lookup(r) PROVE RowsKept
  <2>1. \A q \in Request : thread[q] = "write" => thread'[q] = "write"
    <3>1. CASE Hit(r)
      BY <3>1 DEF Hit, threadVars
    <3>2. CASE Miss(r) \/ Rehydrate(r) \/ LateHit(r)
      BY <3>2 DEF Miss, Rehydrate, LateHit, NoRow, Resumed, Start, Typed, RowsAccounted
    <3> QED BY <1>3, <3>1, <3>2 DEF Lookup
  <2> QED BY <1>3, <2>1 DEF Lookup, Hit, Miss, Rehydrate, LateHit, l2Vars, RowsKept
<1>4. ASSUME NEW r \in Request, Fly(r) \/ Compute(r) PROVE RowsKept
  BY <1>0, <1>4 DEF Fly, Search, Wait, Written, Woken, Compute, Searched, SearchFailed,
                    NoRow, Resumed, Start, l2Vars, threadVars, Typed, RowsKept
<1>5. ASSUME NEW r \in Request, Cancel(r) PROVE RowsKept
  BY <1>5 DEF Cancel, CancelReader, CancelSearch, CancelWaiter, l2Vars, threadVars,
              RowsKept
<1>6. CASE ClearL1 \/ UNCHANGED vars
  BY <1>6 DEF ClearL1, vars, l2Vars, threadVars, RowsKept
<1> QED BY <1>1, <1>2, <1>3, <1>4, <1>5, <1>6 DEF Next

\* Every step keeps RowsAccounted.
LEMMA AccountStep ==
  ASSUME Typed, Flying, RowsAccounted, [Next]_vars PROVE RowsAccounted'
<1>0. /\ key' = key /\ key \in [Request -> Key] /\ stage \in [Request -> Stage]
      /\ \A v \in Request : stage'[v] = "new" => stage[v] = "new"
  BY StagesAdvance DEF Flying
<1>1. RowsKept
  BY RowsStep
<1>2. \A r \in Request : row'[r] \in Request =>
        row'[r] = row[r] \/ (row'[r] = l2[key[r]] /\ l2' = l2)
  <2>1. CASE \E q \in Request : DiskRead(q)
    BY <1>0, <2>1 DEF DiskRead, l2Vars, Typed
  <2>2. CASE \E q \in Request : Lookup(q)
    BY <2>2, CacheAssumption DEF Lookup, Hit, Miss, Rehydrate, LateHit, NoRow, Resumed,
                                 threadVars, Typed
  <2>3. CASE \E q \in Request : Fly(q)
    BY <2>3, CacheAssumption DEF Fly, Search, Wait, Written, Woken, NoRow, Resumed,
                                 threadVars, Typed
  <2>4. CASE \E q \in Request : Compute(q) \/ DiskWrite(q) \/ Cancel(q)
    BY <2>4 DEF Compute, Searched, SearchFailed, DiskWrite, Cancel, CancelReader,
                CancelSearch, CancelWaiter, threadVars
  <2>5. CASE ClearL1 \/ ClearDisk \/ UNCHANGED vars
    BY <2>5 DEF ClearL1, ClearDisk, threadVars, vars
  <2> QED BY <2>1, <2>2, <2>3, <2>4, <2>5 DEF Next, Disk
<1>3. \A r \in Request : stage'[r] = "new" /\ thread[r] = "none" => thread'[r] = "none"
  BY <1>0
  DEF Next, Lookup, Hit, Miss, Rehydrate, LateHit, NoRow, Fly, Search, Wait, Written, Woken,
      Compute, Searched, SearchFailed, Disk, DiskRead, DiskWrite, Cancel, CancelReader,
      CancelSearch, CancelWaiter, ClearL1, ClearDisk, Resumed, Start, Goto, End,
      threadVars, taskVars, vars, Typed
<1> QED BY <1>0, <1>1, <1>2, <1>3 DEF RowsAccounted, RowsKept

\* A step that gives L1 only values whose key has a row or a writer, or whose
\* row was taken, leaves no other value memory-only.
LEMMA BackedNext ==
  ASSUME MemoryBackedByDisk, RowsKept, key' = key,
         \A k \in Key : l1'[k] # NoValue =>
           \/ l1[k] # NoValue \/ l2'[k] \in Request \/ k \in lost'
           \/ \E r \in Request : thread'[r] = "write" /\ key[r] = k
  PROVE  MemoryBackedByDisk'
<1> SUFFICES ASSUME NEW k \in Key, l1'[k] # NoValue
             PROVE  \/ l2'[k] \in Request \/ k \in lost'
                    \/ \E r \in Request : thread'[r] = "write" /\ key[r] = k
  BY DEF MemoryBackedByDisk, L1Holds
<1>1. CASE l1[k] = NoValue
  BY <1>1
<1>2. CASE l1[k] # NoValue
  BY <1>2 DEF MemoryBackedByDisk, L1Holds, RowsKept
<1> QED BY <1>1, <1>2

\* Every step keeps MemoryBackedByDisk.  A search that finds L1 warm need not
\* write: whoever warmed it has written, or has a thread that will.
LEMMA BackedStep ==
  ASSUME Typed, Flying, RowsAccounted, MemoryBackedByDisk, [Next]_vars
  PROVE  MemoryBackedByDisk'
<1>0. /\ key' = key /\ key \in [Request -> Key] /\ RowsKept
      /\ \A q \in Request : key[q] \in Key
  BY StagesAdvance, RowsStep DEF Flying
<1> USE <1>0 DEF Typed
<1>1. ASSUME NEW r \in Request, Rehydrate(r) PROVE MemoryBackedByDisk'
  <2>1. l2'[key[r]] \in Request \/ key[r] \in lost'
    BY <1>1 DEF Rehydrate, RowsAccounted, l2Vars
  <2>2. \A q \in Key \ {key[r]} : l1'[q] \in {l1[q], NoValue}
    BY <1>1, L1After DEF Rehydrate, Value
  <2> QED BY <2>1, <2>2, BackedNext
<1>2. ASSUME NEW r \in Request, Searched(r) PROVE MemoryBackedByDisk'
  <2>1. \A q \in Key \ {key[r]} : l1'[q] \in {l1[q], NoValue}
    BY <1>2, L1After DEF Searched, Value
  <2>2. l1[key[r]] # NoValue \/ thread'[r] = "write"
    BY <1>2 DEF Searched, L1Holds, Start
  <2> QED BY <2>1, <2>2, BackedNext
<1>3. ASSUME NEW r \in Request, Hit(r) \/ Miss(r) \/ LateHit(r) PROVE MemoryBackedByDisk'
  BY <1>3, BackedNext DEF Hit, Miss, LateHit, L1Get, l1Vars
<1>4. ASSUME NEW r \in Request, Fly(r) \/ SearchFailed(r) \/ Disk(r) \/ Cancel(r)
      PROVE  MemoryBackedByDisk'
  BY <1>4, BackedNext DEF Fly, Search, Wait, Written, Woken, SearchFailed, Disk, DiskRead,
                          DiskWrite, Cancel, CancelReader, CancelSearch, CancelWaiter, l1Vars
<1>5. CASE ClearL1
  BY <1>5 DEF ClearL1, NoRows, MemoryBackedByDisk, L1Holds
<1>6. CASE ClearDisk \/ UNCHANGED vars
  BY <1>6, BackedNext DEF ClearDisk, vars, l1Vars
<1> QED BY <1>1, <1>2, <1>3, <1>4, <1>5, <1>6 DEF Next, Lookup, Compute

-----------------------------------------------------------------------------
\* What is proved of SingleFlight holds of the flights of the evaluator.
LEMMA FlightsHold == Spec => []SFP!IInv
<1>1. SFP!Spec => []SFP!IInv
  BY CacheAssumption, SFP!Invariance DEF SFP!FlightAssumption
<1>2. Init => SFP!Init
  BY SameInstance DEF Init
<1>3. [Next]_vars => [SFP!Next]_sfVars
  BY SameInstance, StepSimulation
<1> QED BY <1>1, <1>2, <1>3, PTL DEF Spec, SFP!Spec, SFP!vars, sfVars

\* Initially nothing has been found.
LEMMA InitIInv == Init => IInv
  BY CacheAssumption
  DEF Init, SF!Init, NoRows, Value, IInv, Typed, ValuesFound, RowsAccounted,
      MemoryBackedByDisk, L1Holds

\* The inductive invariant holds in every reachable state.
THEOREM Invariance == Spec => []IInv
<1>1. IInv /\ Flying /\ SFP!IInv /\ [Next]_vars => IInv'
  BY TypedStep, ValuesStep, AccountStep, BackedStep DEF IInv
<1> QED BY InitIInv, FlyingInvariant, FlightsHold, <1>1, PTL DEF Spec

\* Whichever tier or flight it came through, a value answers the position of the
\* request, and the search it comes from has run to its end.
THEOREM AnswersAreTheirOwn == Spec => []AnswersMatchTheirKey
<1>1. IInv => AnswersMatchTheirKey
  BY DEF IInv, ValuesFound, Found, AnswersMatchTheirKey
<1> QED BY <1>1, Invariance, PTL

\* Writing to disk only when L1 is cold leaves no value memory-only, unless its
\* row was taken (pruned, cleared, gone with the database) or could not be written.
THEOREM MemoryIsBacked == Spec => []MemoryBackedByDisk
<1>1. IInv => MemoryBackedByDisk
  BY DEF IInv
<1> QED BY <1>1, Invariance, PTL
=============================================================================
