--------------------------- MODULE CachedEvaluator ---------------------------
(***************************************************************************)
(* The cache-aside path of evaluate_game_position_cached                   *)
(* (mcp_server/engine/cached_evaluator.py): the two-tier MultiTierCache in *)
(* front of the SingleFlight coalescer, on one event loop.                 *)
(*                                                                         *)
(* L1 is used without suspending (its lock is never contended).  Each L2   *)
(* call runs in a thread (asyncio.to_thread), which reads or writes at a   *)
(* moment of its own and is not stopped when the request that started it   *)
(* is cancelled.  The engine search is the fn of SingleFlight: it ends in  *)
(* a value or in an exception.  A value is named after the request whose   *)
(* search found it.                                                        *)
(***************************************************************************)
EXTENDS Integers, SequencesExt

CONSTANTS
  Request,   \* the calls of evaluate_game_position_cached
  Key,       \* the cache keys of their positions
  NoFlight,  \* "no flight" of SingleFlight
  NoValue,   \* a cache miss
  Garbage,   \* an L2 row that does not parse as a value
  L1Size     \* the L1 capacity, maxsize

ASSUME CacheAssumption ==
  /\ NoFlight \notin Request
  /\ NoValue \notin Request /\ Garbage \notin Request /\ NoValue # Garbage
  /\ L1Size \in Nat \ {0}

VARIABLES
  inFlight, future, pc, key, flight, outcome, cancelled,  \* SingleFlight
  l1,        \* the values in L1
  order,     \* the keys of L1, least recently used first
  l2,        \* the rows of the SQLite table
  stage,     \* where each request is
  thread,    \* the L2 job of each request's thread
  row,       \* what that thread read
  answer,    \* the value each request returned
  cleaner,   \* where clear() is
  lost       \* history: keys whose row was taken, or not written, since their
             \* last write that succeeded

SF == INSTANCE SingleFlight WITH
  Request <- Request, Key <- Key, NoFlight <- NoFlight, inFlight <- inFlight,
  future <- future, pc <- pc, key <- key, flight <- flight, outcome <- outcome,
  cancelled <- cancelled

sfVars == <<inFlight, future, pc, key, flight, outcome, cancelled>>
l1Vars == <<l1, order>>
l2Vars == <<l2, lost>>
taskVars == <<stage, answer>>
threadVars == <<thread, row>>
vars == <<sfVars, l1Vars, l2Vars, taskVars, threadVars, cleaner>>

Stage == {"new", "reading", "searching", "writing", "waiting", "ended"}
Value == Request \cup {NoValue}
NoRows == [k \in Key |-> NoValue]

\* L2 may hold rows of an older build, copied by _migrate_legacy_cache.
Init ==
  /\ SF!Init
  /\ l1 = NoRows
  /\ order = <<>>
  /\ l2 \in [Key -> {NoValue, Garbage}]
  /\ stage = [r \in Request |-> "new"]
  /\ thread = [r \in Request |-> "none"]
  /\ row = [r \in Request |-> NoValue]
  /\ answer = [r \in Request |-> NoValue]
  /\ cleaner = "idle"
  /\ lost = {}

-----------------------------------------------------------------------------
\* AsyncLRUCache.get moves the key to the end; set evicts the oldest key.
L1Get(k) ==
  /\ order' = Append(Remove(order, k), k)
  /\ UNCHANGED l1

L1Set(k, v) ==
  LET grown == Append(Remove(order, k), k)
      full == Len(grown) > L1Size
  IN /\ order' = IF full THEN Tail(grown) ELSE grown
     /\ l1' = [q \in Key |-> IF q = k THEN v
                             ELSE IF full /\ q = Head(grown) THEN NoValue
                             ELSE l1[q]]

L1Holds(k) == l1[k] # NoValue

Goto(r, s) == stage' = [stage EXCEPT ![r] = s]

\* The request returns value v, or raises if v is NoValue.
End(r, v) ==
  /\ Goto(r, "ended")
  /\ answer' = [answer EXCEPT ![r] = v]

Start(r, job) == thread' = [thread EXCEPT ![r] = job]

\* The request runs again with what its thread found.
Resumed(r) ==
  /\ thread[r] = "done"
  /\ thread' = [thread EXCEPT ![r] = "none"]
  /\ row' = [row EXCEPT ![r] = NoValue]

-----------------------------------------------------------------------------
\* get_eval: an L1 hit answers at once ...
Hit(r) ==
  /\ stage[r] = "new"
  /\ L1Holds(key[r])
  /\ L1Get(key[r])
  /\ End(r, l1[key[r]])
  /\ UNCHANGED <<sfVars, l2Vars, threadVars, cleaner>>

\* ... and an L1 miss awaits the L2 lookup.
Miss(r) ==
  /\ stage[r] = "new"
  /\ ~L1Holds(key[r])
  /\ Goto(r, "reading")
  /\ Start(r, "read")
  /\ UNCHANGED <<sfVars, l1Vars, l2Vars, answer, row, cleaner>>

\* Faulty variant: the SELECT has no WHERE clause.
DiskReadAnyRow(r) ==
  /\ thread[r] = "read"
  /\ Start(r, "done")
  /\ \E k \in Key : row' = [row EXCEPT ![r] = l2[k]]
  /\ UNCHANGED <<sfVars, l1Vars, l2Vars, taskVars, cleaner>>

\* The keys among gone whose row is there to be taken.
Stored(gone) == {k \in gone : l2[k] \in Request}

\* A call that does not go well leaves the rows as they are, or with none: by a
\* DELETE, or because _handle_db_corruption removes the database files.
KeptOrEmptied(unwritten) ==
  \/ UNCHANGED l2 /\ lost' = lost \cup unwritten
  \/ l2' = NoRows /\ lost' = lost \cup Stored(Key) \cup unwritten

\* _get_sync: the row; or None after an error, which for a DatabaseError also
\* removes the database.
DiskRead(r) ==
  /\ thread[r] = "read"
  /\ Start(r, "done")
  /\ \/ row' = [row EXCEPT ![r] = l2[key[r]]] /\ UNCHANGED l2Vars
     \/ KeptOrEmptied({}) /\ UNCHANGED row
  /\ UNCHANGED <<sfVars, l1Vars, taskVars, cleaner>>

\* INSERT OR REPLACE, after which rows of other keys may be gone: the DELETE
\* prunes the oldest rows beyond max_entries of a table that many more keys
\* share; and an insert that is tried again finds the database removed.
Inserted(r) ==
  \E gone \in SUBSET (Key \ {key[r]}) :
    /\ l2' = [k \in Key |-> IF k = key[r] THEN r
                            ELSE IF k \in gone THEN NoValue ELSE l2[k]]
    /\ lost' = (lost \cup Stored(gone)) \ {key[r]}

\* _set_sync: it inserts, at the first or the second try, or it drops the row,
\* with or without the database.
DiskWrite(r) ==
  /\ thread[r] = "write"
  /\ Start(r, "done")
  /\ Inserted(r) \/ KeptOrEmptied({key[r]})
  /\ UNCHANGED <<sfVars, l1Vars, taskVars, row, cleaner>>

\* The L2 row parses: it goes to L1 and answers the request.
Rehydrate(r) ==
  /\ stage[r] = "reading" /\ Resumed(r)
  /\ row[r] \in Request
  /\ L1Set(key[r], row[r])
  /\ End(r, row[r])
  /\ UNCHANGED <<sfVars, l2Vars, cleaner>>

\* No row, or one that does not parse: L1 is looked at again.
NoRow(r) == stage[r] = "reading" /\ Resumed(r) /\ row[r] \notin Request

LateHit(r) ==
  /\ NoRow(r)
  /\ L1Holds(key[r])
  /\ L1Get(key[r])
  /\ End(r, l1[key[r]])
  /\ UNCHANGED <<sfVars, l2Vars, cleaner>>

\* Faulty variant: L1 is not looked at again after the L2 lookup.
SearchUnchecked(r) ==
  /\ NoRow(r)
  /\ SF!Lead(r)
  /\ Goto(r, "searching")
  /\ UNCHANGED <<l1Vars, l2Vars, answer, cleaner>>

\* The miss stands.  Nothing is awaited up to SingleFlight's table: the
\* request joins the flight of its key or starts a search.
Search(r) ==
  /\ NoRow(r)
  /\ ~L1Holds(key[r])
  /\ SF!Lead(r)
  /\ Goto(r, "searching")
  /\ UNCHANGED <<l1Vars, l2Vars, answer, cleaner>>

Wait(r) ==
  /\ NoRow(r)
  /\ ~L1Holds(key[r])
  /\ SF!Join(r)
  /\ Goto(r, "waiting")
  /\ UNCHANGED <<l1Vars, l2Vars, answer, cleaner>>

\* Faulty variant: L1 is tested after it was set, and is never cold.
SearchedNeverCold(r) ==
  /\ stage[r] = "searching"
  /\ L1Set(key[r], r)
  /\ SF!Settle(r, "result")
  /\ End(r, r)
  /\ UNCHANGED <<cancelled, l2Vars, threadVars, cleaner>>

\* The search finds a value.  set_eval puts it in L1; it is written to L2 too
\* if L1 was cold, and otherwise the flight is over.
Searched(r) ==
  /\ stage[r] = "searching"
  /\ L1Set(key[r], r)
  /\ IF L1Holds(key[r])
     THEN /\ SF!Settle(r, "result")
          /\ End(r, r)
          /\ UNCHANGED <<thread, cancelled>>
     ELSE /\ Start(r, "write")
          /\ Goto(r, "writing")
          /\ UNCHANGED <<sfVars, answer>>
  /\ UNCHANGED <<l2Vars, row, cleaner>>

SearchFailed(r) ==
  /\ stage[r] = "searching"
  /\ SF!Settle(r, "exception")
  /\ End(r, NoValue)
  /\ UNCHANGED <<cancelled, l1Vars, l2Vars, threadVars, cleaner>>

\* The thread is back from the write: the flight is over.
Written(r) ==
  /\ stage[r] = "writing" /\ Resumed(r)
  /\ SF!Settle(r, "result")
  /\ End(r, r)
  /\ UNCHANGED <<cancelled, l1Vars, l2Vars, cleaner>>

\* A waiter runs again with its flight's result.
Woken(r) ==
  /\ stage[r] = "waiting"
  /\ SF!Wake(r)
  /\ End(r, IF future[flight[r]] = "result" THEN flight[r] ELSE NoValue)
  /\ UNCHANGED <<l1Vars, l2Vars, threadVars, cleaner>>

\* The client goes away.  A thread that runs goes on running.
CancelReader(r) ==
  /\ stage[r] = "reading"
  /\ End(r, NoValue)
  /\ UNCHANGED <<sfVars, l1Vars, l2Vars, threadVars, cleaner>>

\* Faulty variant: the flight of a cancelled search is not settled.
CancelSearchOnly(r) ==
  /\ stage[r] \in {"searching", "writing"}
  /\ End(r, NoValue)
  /\ UNCHANGED <<sfVars, l1Vars, l2Vars, threadVars, cleaner>>

CancelSearch(r) ==
  /\ stage[r] \in {"searching", "writing"}
  /\ SF!CancelProducer(r)
  /\ End(r, NoValue)
  /\ UNCHANGED <<l1Vars, l2Vars, threadVars, cleaner>>

CancelWaiter(r) ==
  /\ stage[r] = "waiting"
  /\ SF!CancelWaiter(r)
  /\ End(r, NoValue)
  /\ UNCHANGED <<l1Vars, l2Vars, threadVars, cleaner>>

-----------------------------------------------------------------------------
\* clear() empties L1 and awaits the thread that empties L2.
ClearL1 ==
  /\ cleaner = "idle"
  /\ l1' = NoRows
  /\ order' = <<>>
  /\ cleaner' = "disk"
  /\ UNCHANGED <<sfVars, l2Vars, taskVars, threadVars>>

\* _clear_sync swallows every error.
ClearDisk ==
  /\ cleaner = "disk"
  /\ KeptOrEmptied({})
  /\ cleaner' = "idle"
  /\ UNCHANGED <<sfVars, l1Vars, taskVars, threadVars>>

-----------------------------------------------------------------------------
Lookup(r) == Hit(r) \/ Miss(r) \/ Rehydrate(r) \/ LateHit(r)
Fly(r) == Search(r) \/ Wait(r) \/ Written(r) \/ Woken(r)
Compute(r) == Searched(r) \/ SearchFailed(r)
Disk(r) == DiskRead(r) \/ DiskWrite(r)
Cancel(r) == CancelReader(r) \/ CancelSearch(r) \/ CancelWaiter(r)

Next ==
  \/ \E r \in Request :
       Lookup(r) \/ Fly(r) \/ Compute(r) \/ Disk(r) \/ Cancel(r)
  \/ ClearL1 \/ ClearDisk

Spec == Init /\ [][Next]_vars

\* Threads end (SQLite gives up after its busy timeout), searches end (the
\* engine calls have timeouts) and a task that can go on does.
Fairness == \A r \in Request :
  /\ WF_vars(Lookup(r)) /\ WF_vars(Fly(r))
  /\ WF_vars(Compute(r)) /\ WF_vars(Disk(r))

FairSpec == Spec /\ Fairness

-----------------------------------------------------------------------------
TypeOK ==
  /\ SF!TypeOK
  /\ l1 \in [Key -> Value]
  /\ Len(order) <= L1Size /\ IsInjective(order)
  /\ ToSet(order) = {k \in Key : L1Holds(k)}
  /\ l2 \in [Key -> Value \cup {Garbage}]
  /\ stage \in [Request -> Stage]
  /\ thread \in [Request -> {"none", "read", "write", "done"}]
  /\ row \in [Request -> Value \cup {Garbage}]
  /\ answer \in [Request -> Value]
  /\ cleaner \in {"idle", "disk"}
  /\ lost \subseteq Key

\* One engine search per wave of requests: a search for a key starts only when
\* no other search for it runs and L1 has no value for it, although the L2
\* lookup that found nothing may be as old as the previous search.
NoRedundantSearch ==
  [][\A r \in Request : stage[r] # "searching" /\ stage'[r] = "searching" =>
       /\ ~L1Holds(key[r])
       /\ \A s \in Request :
            stage[s] \in {"searching", "writing"} => key[s] # key[r]]_vars

\* The write-only-when-cold rule of set_eval leaves no value memory-only: each
\* value in L1 has a row on disk or a thread that is about to write one, unless
\* the row was taken after it was written (pruned, cleared, or gone with the
\* database), or writing it failed.
MemoryBackedByDisk ==
  \A k \in Key : L1Holds(k) =>
    \/ l2[k] \in Request
    \/ \E r \in Request : thread[r] = "write" /\ key[r] = k
    \/ k \in lost

\* Whatever tier or flight a value came through, it answers the request's own
\* position, and it comes from a search that ran to its end.
AnswersMatchTheirKey ==
  /\ \A r \in Request : answer[r] # NoValue =>
       key[answer[r]] = key[r] /\ stage[answer[r]] \in {"writing", "ended"}
  /\ \A k \in Key : /\ L1Holds(k) => key[l1[k]] = k
                    /\ l2[k] \in Request => key[l2[k]] = k

\* Every request ends, whatever happens to the flight it waits for.
RequestsEnd == \A r \in Request : stage[r] = "reading" ~> stage[r] = "ended"
=============================================================================
