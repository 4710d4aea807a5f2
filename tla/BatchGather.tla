----------------------------- MODULE BatchGather -----------------------------
(***************************************************************************)
(* gather_evaluate_positions_bounded (mcp_server/engine/parallel_gather.py)*)
(* among other requests: the positions of a game are cut into slices, each *)
(* slice holds a permit and one engine of the pool while it evaluates its  *)
(* positions in turn, and any of them may already be searched by somebody  *)
(* else, whose flight it then waits for.  A single request starts a flight *)
(* first and asks the pool for an engine afterwards.                       *)
(*                                                                         *)
(* The module composes the pieces that are modelled on their own: the pool *)
(* is a number of idle engines with the crash rules of EnginePool, flights *)
(* are those of SingleFlight, the cache is the set of known positions, and *)
(* the breaker is EngineRetry with a clock that stands still: once it has  *)
(* tripped, calls are refused until one that is under way succeeds.        *)
(***************************************************************************)
EXTENDS Integers, Sequences, FiniteSets

CONSTANTS
  Gather,      \* the calls of gather_evaluate_positions_bounded
  Single,      \* other evaluations, one position each
  Position,    \* positions, by their cache keys
  Boards,      \* gather -> the positions it is given
  Wanted,      \* single -> its position
  Short,       \* positions that short_circuit answers
  PoolSize, Permits,
  NoTask,      \* "no flight"
  MaxRetries, Threshold, Window, Cooldown   \* see EngineRetry

ASSUME GatherAssumption ==
  /\ Boards \in [Gather -> Seq(Position)]
  /\ Wanted \in [Single -> Position]
  /\ Short \subseteq Position
  /\ PoolSize \in Nat \ {0} /\ Permits \in Nat \ {0}
  /\ IsFiniteSet(Gather) /\ IsFiniteSet(Single)
  /\ \A g \in Gather, i \in 1..PoolSize : <<g, i>> \notin Single

VARIABLES
  failures, openedAt, call, attempt, failedAt,  \* EngineRetry
  idle,      \* engines in the queue of the pool
  lost,      \* engines the self-heal task has yet to replace
  permits,   \* the evaluate semaphore
  flight,    \* position -> the task that searches it, or NoTask
  known,     \* the cached positions
  place,     \* where each task is
  found,     \* the results of each task by the index of their position
  retried,   \* the tasks that run on the replacement of a crashed engine
  heard      \* how the flight a task waits for ended

retryVars == <<failures, openedAt, call, attempt, failedAt>>
poolVars == <<idle, lost, retried>>
vars == <<retryVars, poolVars, permits, flight, known, place, found, heard>>

-----------------------------------------------------------------------------
\* The slices.  Small pools leave one engine to others, larger ones two.
AtLeast1(n) == IF n >= 1 THEN n ELSE 1
Smaller(a, b) == IF a <= b THEN a ELSE b
MaxWorkers == AtLeast1(IF PoolSize >= 5 THEN PoolSize - 2 ELSE PoolSize - 1)
WorkerCount(n) == AtLeast1(Smaller(MaxWorkers, n))
Chunk(n) == (n + WorkerCount(n) - 1) \div WorkerCount(n)   \* math.ceil

\* Faulty variant: the end of the range is left out.
SliceOpen(n, i) == ((i - 1) * Chunk(n) + 1) .. (Smaller(i * Chunk(n), n) - 1)

\* The indexes of slice i; the slices beyond the last position do not exist.
Slice(n, i) == ((i - 1) * Chunk(n) + 1) .. Smaller(i * Chunk(n), n)
Slices(n) == {i \in 1..WorkerCount(n) : (i - 1) * Chunk(n) < n}

Workers(g) == {<<g, i>> : i \in Slices(Len(Boards[g]))}
Worker == UNION {Workers(g) : g \in Gather}
Task == Worker \cup Single

Retry == INSTANCE EngineRetry WITH Call <- Task, at <- call, now <- 1

Work == [t \in Task |-> IF t \in Single THEN {1} ELSE Slice(Len(Boards[t[1]]), t[2])]
Indexes(t) == Work[t]
BoardAt(t, i) == IF t \in Single THEN Wanted[t] ELSE Boards[t[1]][i]

\* The index a task works at: the first without a result.
IsFinished(t) == Indexes(t) \subseteq DOMAIN found[t]
Here(t) == CHOOSE i \in Indexes(t) \ DOMAIN found[t] :
             \A j \in Indexes(t) \ DOMAIN found[t] : i <= j
Board(t) == BoardAt(t, Here(t))

Nothing == [i \in {} |-> 0]

Init ==
  /\ Retry!RetryInit
  /\ idle = PoolSize /\ lost = 0 /\ permits = Permits
  /\ flight = [p \in Position |-> NoTask]
  /\ known = {}
  /\ place = [t \in Task |-> IF t \in Single THEN "looking" ELSE "new"]
  /\ found = [t \in Task |-> Nothing]
  /\ retried = {}
  /\ heard = [t \in Task |-> "nothing"]

Goto(t, where) == place' = [place EXCEPT ![t] = where]
Note(t) == found' = [found EXCEPT ![t] =
  [i \in DOMAIN @ \cup {Here(t)} |-> IF i = Here(t) THEN Board(t) ELSE @[i]]]

-----------------------------------------------------------------------------
\* A slice: async with sem, then pool.run.
TakePermit(w) ==
  /\ place[w] = "new" /\ permits > 0
  /\ permits' = permits - 1
  /\ Goto(w, "queued")
  /\ UNCHANGED <<retryVars, poolVars, flight, known, found, heard>>

TakeEngine(t) ==
  /\ place[t] = "queued" /\ idle > 0
  /\ t \in Single => call[t] = "trying"
  /\ idle' = idle - 1
  /\ Goto(t, IF t \in Single THEN "searching" ELSE "looking")
  /\ UNCHANGED <<retryVars, lost, retried, permits, flight, known, found, heard>>

\* Faulty variant: the permit is returned by the slices that succeed.
LeavesKeepingPermit(t, how) ==
  /\ Goto(t, how)
  /\ permits' = IF t \in Single \/ how = "raised" THEN permits ELSE permits + 1

\* The task is over.  Its permit goes back; its siblings in the gather go on.
Leaves(t, how) ==
  /\ Goto(t, how)
  /\ permits' = IF t \in Single THEN permits ELSE permits + 1

\* _on_worker returns, and the engine goes back to the queue.
Finish(t) ==
  /\ place[t] = "looking" /\ IsFinished(t)
  /\ Leaves(t, "done")
  /\ idle' = IF t \in Single THEN idle ELSE idle + 1
  /\ UNCHANGED <<retryVars, lost, retried, flight, known, found, heard>>

IsKnown(t) == Board(t) \in known \/ (t \in Worker /\ Board(t) \in Short)

\* The position needs no search.
Skip(t) ==
  /\ place[t] = "looking" /\ ~IsFinished(t)
  /\ IsKnown(t)
  /\ Note(t)
  /\ UNCHANGED <<retryVars, poolVars, permits, flight, known, place, heard>>

Misses(t) ==
  /\ place[t] = "looking" /\ ~IsFinished(t)
  /\ ~IsKnown(t)

Join(t) ==
  /\ Misses(t) /\ flight[Board(t)] # NoTask
  /\ Goto(t, "waiting")
  /\ UNCHANGED <<retryVars, poolVars, permits, flight, known, found, heard>>

\* The task leads a flight.  A slice has its engine; a single asks for one.
Lead(t) ==
  /\ Misses(t) /\ flight[Board(t)] = NoTask
  /\ flight' = [flight EXCEPT ![Board(t)] = t]
  /\ Retry!Enter(t)
  /\ Goto(t, IF t \in Single THEN "queued" ELSE "searching")
  /\ UNCHANGED <<poolVars, permits, known, found, heard>>

\* The flight of t is over, one way or the other: those who wait hear of it.
Settle(t, how) ==
  /\ flight' = [flight EXCEPT ![Board(t)] = NoTask]
  /\ heard' = [s \in Task |->
       IF place[s] = "waiting" /\ Board(s) = Board(t) THEN how ELSE heard[s]]

Succeed(t) ==
  /\ place[t] = "searching"
  /\ Retry!Succeed(t)
  /\ Settle(t, "result")
  /\ known' = known \cup {Board(t)}
  /\ Note(t)
  /\ Goto(t, "looking")
  /\ idle' = IF t \in Single THEN idle + 1 ELSE idle
  /\ UNCHANGED <<lost, retried, permits>>

\* The pool replaces the crashed engine of a single, at once or by its
\* self-heal task.
Replaced ==
  \/ (idle' = idle + 1 /\ lost' = lost)
  \/ (idle' = idle /\ lost' = lost + 1)

\* An attempt ends in a transport error, and there will be another.  A single
\* asks the pool again; a slice tries again on the engine it has.
Fail(t) ==
  /\ place[t] = "searching" /\ attempt[t] <= MaxRetries
  /\ Retry!Fail(t)
  /\ IF t \in Single THEN Goto(t, "queued") /\ Replaced
     ELSE UNCHANGED <<place, idle, lost>>
  /\ UNCHANGED <<retried, permits, flight, known, found, heard>>

Again(t) ==
  /\ Retry!Again(t)
  /\ UNCHANGED <<poolVars, permits, flight, known, place, found, heard>>

-----------------------------------------------------------------------------
\* pool.run hears a transport error from a slice: it drops the engine and, the
\* first time, runs the slice again from its start if the factory gives an engine.
Drop(w) ==
  \/ /\ w \notin retried
     /\ retried' = retried \cup {w}
     /\ found' = [found EXCEPT ![w] = Nothing]
     /\ Goto(w, "looking")
     /\ UNCHANGED <<idle, lost, permits>>
  \/ /\ Leaves(w, "raised")
     /\ lost' = lost + 1
     /\ UNCHANGED <<idle, retried, found>>

\* What a task does with an exception of the breaker or of the flight it waited
\* for.  A single holds no engine then.  pool.run cannot tell the failure of a
\* flight from one of the engine in its hands: it drops that as well.
Suffer(t, how) ==
  IF t \in Worker /\ how = "transport" THEN Drop(t)
  ELSE /\ Leaves(t, "raised")
       /\ idle' = IF t \in Single THEN idle ELSE idle + 1
       /\ UNCHANGED <<lost, retried, found>>

\* The breaker refuses the call: EngineUnavailable.
Refused(t) ==
  /\ Misses(t) /\ flight[Board(t)] = NoTask
  /\ Retry!Refuse(t)
  /\ Suffer(t, "refused")
  /\ UNCHANGED <<flight, known, heard>>

\* The last attempt ends in a transport error: so do the call and the flight.
FailLast(t) ==
  /\ place[t] = "searching" /\ attempt[t] > MaxRetries
  /\ Retry!Fail(t)
  /\ Settle(t, "transport")
  /\ IF t \in Single
     THEN Leaves(t, "raised") /\ Replaced /\ UNCHANGED <<retried, found>>
     ELSE Drop(t)
  /\ UNCHANGED known

\* Faulty variant: nobody gives up waiting for an engine.
GiveUpNever(t) == FALSE /\ UNCHANGED vars

\* No engine within the acquire timeout: PoolBusy.
GiveUp(t) ==
  /\ place[t] = "queued" /\ idle = 0
  /\ IF t \in Single
     THEN /\ call[t] = "trying" /\ Retry!Raise(t)
          /\ Settle(t, "busy")
     ELSE UNCHANGED <<retryVars, flight, heard>>
  /\ Leaves(t, "raised")
  /\ UNCHANGED <<poolVars, known, found>>

\* A waiter runs again.
Woken(t) ==
  /\ place[t] = "waiting" /\ heard[t] # "nothing"
  /\ heard' = [heard EXCEPT ![t] = "nothing"]
  /\ IF heard[t] = "result"
     THEN /\ Note(t) /\ Goto(t, "looking")
          /\ UNCHANGED <<poolVars, permits>>
     ELSE Suffer(t, heard[t])
  /\ UNCHANGED <<retryVars, flight, known>>

Heal ==
  /\ lost > 0
  /\ lost' = lost - 1 /\ idle' = idle + 1
  /\ UNCHANGED <<retryVars, retried, permits, flight, known, place, found, heard>>

Starts(t) == TakePermit(t) \/ TakeEngine(t) \/ Skip(t) \/ Join(t) \/ Lead(t)
Searches(t) == Succeed(t) \/ Fail(t) \/ FailLast(t) \/ Again(t)
Ends(t) == Finish(t) \/ Refused(t) \/ Woken(t) \/ GiveUp(t)
Step(t) == Starts(t) \/ Searches(t) \/ Ends(t)

Next == (\E t \in Task : Step(t)) \/ Heal

Spec == Init /\ [][Next]_vars

\* Searches end (they have timeouts), so does the wait for an engine, and a
\* task that can go on does.
Fairness == \A t \in Task : WF_vars(Step(t))

FairSpec == Spec /\ Fairness

-----------------------------------------------------------------------------
Holding == {t \in Task : \/ place[t] = "searching"
                         \/ t \in Worker /\ place[t] \in {"looking", "waiting"}}
Permitted == {w \in Worker : place[w] \notin {"new", "done", "raised"}}

TypeOK ==
  /\ Retry!RetryOK
  /\ place \in [Task -> {"new", "queued", "looking", "searching", "waiting",
                         "done", "raised"}]
  /\ \A p \in Position : flight[p] # NoTask =>
       place[flight[p]] \in {"queued", "searching"} /\ Board(flight[p]) = p

\* However slices crash, are refused and give up, and whatever they hear from
\* flights of others, every engine and every permit is in one place.
NothingLeaks ==
  /\ idle + lost + Cardinality(Holding) = PoolSize
  /\ permits + Cardinality(Permitted) = Permits

\* asyncio.gather returns when all slices have, and raises with the first that does.
Ended(g, how) == {w \in Workers(g) : place[w] = how}
Outcome == [g \in Gather |->
  IF Ended(g, "done") = Workers(g) THEN "answered"
  ELSE IF Ended(g, "raised") # {} THEN "failed" ELSE "open"]

\* The loop that files the results of the slices under their indexes.
Filed(g) == UNION {{<<i, found[w][i]>> : i \in DOMAIN found[w]} : w \in Workers(g)}
Results == [g \in Gather |-> IF Outcome[g] = "answered" THEN Filed(g) ELSE {}]

Promise == INSTANCE Gathering WITH outcome <- Outcome, results <- Results

\* Refinement: whatever slices were cut, which of them ran twice, and whose
\* flight a result came from, a call ends once, with one result for each position
\* it was given in their order, or with none.  No slice that runs on after its
\* sibling raised changes that.
KeepsPromise == Promise!Spec

\* Slices that hold all the engines may wait for a flight whose leader waits for
\* an engine.  The acquire timeout ends that: every task ends.
TasksEnd == \A t \in Task : <>(place[t] \in {"done", "raised"})
=============================================================================
