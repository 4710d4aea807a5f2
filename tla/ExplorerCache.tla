---------------------------- MODULE ExplorerCache ----------------------------
(***************************************************************************)
(* The cache in front of the Lichess opening explorer, get_or_fetch of     *)
(* mcp_server/lichess_explorer/cache.py: L1, then L2, then one HTTP fetch  *)
(* through SingleFlight, whose answer every caller stores again.           *)
(*                                                                         *)
(* Unlike MultiTierCache it reads the clock once, before its awaits, and   *)
(* does not look at L1 again after the L2 lookup.  A value is named after  *)
(* the request whose fetch it came from.                                   *)
(***************************************************************************)
EXTENDS Integers

CONSTANTS
  Request,   \* the calls of get_or_fetch
  Key,       \* their cache keys
  NoFlight,  \* "no flight" of SingleFlight
  NoEntry,   \* a miss
  Ttl,       \* how long an entry lives, _ttl_s
  MaxTime    \* bound: the clock stops here

ASSUME ExplorerAssumption ==
  /\ NoFlight \notin Request
  /\ Ttl \in Nat /\ MaxTime \in Nat

VARIABLES
  inFlight, future, pc, key, flight, outcome, cancelled,  \* SingleFlight
  clock,     \* time.time()
  l1, l2,    \* the entries of both tiers
  stage,     \* where each request is
  now,       \* the clock as each request read it
  thread,    \* the L2 job of each request's thread
  entry,     \* what that thread read or writes
  answer,    \* the value each request returned
  hit,       \* the requests that returned it as a cache hit
  fetchedAt  \* history: when each request's fetch was answered

SF == INSTANCE SingleFlight

sfVars == <<inFlight, future, pc, key, flight, outcome, cancelled>>
tierVars == <<l1, l2>>
taskVars == <<stage, now, answer, hit>>
threadVars == <<thread, entry>>
vars == <<sfVars, clock, tierVars, taskVars, threadVars, fetchedAt>>

Time == 0..MaxTime
Entry == [value : Request, expires : 0..(MaxTime + Ttl)]
Stage == {"new", "reading", "fetching", "waiting", "storing", "ended"}
NoEntries == [k \in Key |-> NoEntry]
Alive(e, t) == e # NoEntry /\ t < e.expires

Init ==
  /\ SF!Init
  /\ clock = 0
  /\ l1 = NoEntries
  /\ l2 = NoEntries
  /\ stage = [r \in Request |-> "new"]
  /\ now = [r \in Request |-> 0]
  /\ thread = [r \in Request |-> "none"]
  /\ entry = [r \in Request |-> NoEntry]
  /\ answer = [r \in Request |-> NoFlight]
  /\ hit = {}
  /\ fetchedAt = [r \in Request |-> 0]

-----------------------------------------------------------------------------
Goto(r, s) == stage' = [stage EXCEPT ![r] = s]

\* The request raises, or returns with an answer that was noted before.
Leave(r) == Goto(r, "ended") /\ UNCHANGED <<now, answer, hit>>

AnswerHit(r, e) ==
  /\ Goto(r, "ended")
  /\ answer' = [answer EXCEPT ![r] = e.value]
  /\ hit' = hit \cup {r}

Resumed(r) ==
  /\ thread[r] = "done"
  /\ thread' = [thread EXCEPT ![r] = "none"]
  /\ entry' = [entry EXCEPT ![r] = NoEntry]

\* A live L1 entry answers at once; otherwise the L2 lookup is awaited.
Hit(r) ==
  /\ stage[r] = "new"
  /\ Alive(l1[key[r]], clock)
  /\ now' = [now EXCEPT ![r] = clock]
  /\ AnswerHit(r, l1[key[r]])
  /\ UNCHANGED <<sfVars, clock, tierVars, threadVars, fetchedAt>>

Miss(r) ==
  /\ stage[r] = "new"
  /\ ~Alive(l1[key[r]], clock)
  /\ now' = [now EXCEPT ![r] = clock]
  /\ Goto(r, "reading")
  /\ thread' = [thread EXCEPT ![r] = "read"]
  /\ UNCHANGED <<sfVars, clock, tierVars, answer, hit, entry, fetchedAt>>

\* Faulty variant: the rehydrated entry lives for another _ttl_s.
RehydrateRenewed(r) ==
  /\ stage[r] = "reading"
  /\ Resumed(r)
  /\ Alive(entry[r], now[r])
  /\ l1' = [l1 EXCEPT ![key[r]] = [entry[r] EXCEPT !.expires = now[r] + Ttl]]
  /\ AnswerHit(r, entry[r])
  /\ UNCHANGED <<sfVars, clock, l2, now, fetchedAt>>

\* A live row goes to L1 with the expiry it was stored with.
Rehydrate(r) ==
  /\ stage[r] = "reading"
  /\ Resumed(r)
  /\ Alive(entry[r], now[r])
  /\ l1' = [l1 EXCEPT ![key[r]] = entry[r]]
  /\ AnswerHit(r, entry[r])
  /\ UNCHANGED <<sfVars, clock, l2, now, fetchedAt>>

\* No live row: the request starts a fetch, or joins the one that runs.
Fetch(r) ==
  /\ stage[r] = "reading"
  /\ Resumed(r)
  /\ ~Alive(entry[r], now[r])
  /\ SF!Lead(r)
  /\ Goto(r, "fetching")
  /\ UNCHANGED <<clock, tierVars, now, answer, hit, fetchedAt>>

Wait(r) ==
  /\ stage[r] = "reading"
  /\ Resumed(r)
  /\ ~Alive(entry[r], now[r])
  /\ SF!Join(r)
  /\ Goto(r, "waiting")
  /\ UNCHANGED <<clock, tierVars, now, answer, hit, fetchedAt>>

\* The request has value v from its flight: it sets L1 and awaits L2.set.
Store(r, v) ==
  LET e == [value |-> v, expires |-> now[r] + Ttl]
  IN /\ l1' = [l1 EXCEPT ![key[r]] = e]
     /\ entry' = [entry EXCEPT ![r] = e]
     /\ thread' = [thread EXCEPT ![r] = "write"]
     /\ answer' = [answer EXCEPT ![r] = v]
     /\ Goto(r, "storing")

Fetched(r) ==
  /\ stage[r] = "fetching"
  /\ SF!Settle(r, "result")
  /\ fetchedAt' = [fetchedAt EXCEPT ![r] = clock]
  /\ Store(r, r)
  /\ UNCHANGED <<cancelled, clock, l2, now, hit>>

FetchFailed(r) ==
  /\ stage[r] = "fetching"
  /\ SF!Settle(r, "exception")
  /\ Leave(r)
  /\ UNCHANGED <<cancelled, clock, tierVars, threadVars, fetchedAt>>

Woken(r) ==
  /\ stage[r] = "waiting"
  /\ SF!Wake(r)
  /\ IF future[flight[r]] = "result"
     THEN Store(r, flight[r]) /\ UNCHANGED <<l2, now, hit>>
     ELSE Leave(r) /\ UNCHANGED <<tierVars, threadVars>>
  /\ UNCHANGED <<clock, fetchedAt>>

Stored(r) ==
  /\ stage[r] = "storing"
  /\ Resumed(r)
  /\ Leave(r)
  /\ UNCHANGED <<sfVars, clock, tierVars, fetchedAt>>

\* The client goes away; a thread that runs goes on running.
Cancel(r) ==
  /\ \/ stage[r] \in {"reading", "storing"} /\ UNCHANGED sfVars
     \/ stage[r] = "fetching" /\ SF!CancelProducer(r)
     \/ stage[r] = "waiting" /\ SF!CancelWaiter(r)
  /\ Leave(r)
  /\ UNCHANGED <<clock, tierVars, threadVars, fetchedAt>>

-----------------------------------------------------------------------------
\* The rows of the table without those of the keys gone.
RowsWithout(gone) == [k \in Key |-> IF k \in gone THEN NoEntry ELSE l2[k]]

\* The threads of SQLiteDiskCache; a failed call reads or writes nothing, and a
\* write may prune the oldest rows of other keys.
DiskRead(r) ==
  /\ thread[r] = "read"
  /\ thread' = [thread EXCEPT ![r] = "done"]
  /\ \E e \in {l2[key[r]], NoEntry} : entry' = [entry EXCEPT ![r] = e]
  /\ UNCHANGED <<sfVars, clock, tierVars, taskVars, fetchedAt>>

DiskWrite(r) ==
  /\ thread[r] = "write"
  /\ thread' = [thread EXCEPT ![r] = "done"]
  /\ \/ UNCHANGED l2
     \/ \E gone \in SUBSET (Key \ {key[r]}) :
          l2' = [RowsWithout(gone) EXCEPT ![key[r]] = entry[r]]
  /\ UNCHANGED <<sfVars, clock, l1, taskVars, entry, fetchedAt>>

\* Other keys push an entry out of L1; the table, which MultiTierCache shares,
\* is pruned by its writes or cleared, or removed after a DatabaseError.
Evict(k) ==
  /\ l1' = [l1 EXCEPT ![k] = NoEntry]
  /\ UNCHANGED <<sfVars, clock, l2, taskVars, threadVars, fetchedAt>>

Wipe ==
  /\ \E gone \in SUBSET Key : l2' = RowsWithout(gone)
  /\ UNCHANGED <<sfVars, clock, l1, taskVars, threadVars, fetchedAt>>

Tick ==
  /\ clock < MaxTime
  /\ clock' = clock + 1
  /\ UNCHANGED <<sfVars, tierVars, taskVars, threadVars, fetchedAt>>

-----------------------------------------------------------------------------
RequestStep(r) ==
  \/ Hit(r) \/ Miss(r) \/ Rehydrate(r) \/ Fetch(r) \/ Wait(r) \/ Fetched(r)
  \/ FetchFailed(r) \/ Woken(r) \/ Stored(r) \/ Cancel(r)
  \/ DiskRead(r) \/ DiskWrite(r)

Next ==
  \/ \E r \in Request : RequestStep(r)
  \/ \E k \in Key : Evict(k)
  \/ Wipe \/ Tick

Spec == Init /\ [][Next]_vars

-----------------------------------------------------------------------------
TypeOK ==
  /\ SF!TypeOK
  /\ clock \in Time
  /\ l1 \in [Key -> Entry \cup {NoEntry}]
  /\ l2 \in [Key -> Entry \cup {NoEntry}]
  /\ stage \in [Request -> Stage]
  /\ now \in [Request -> Time]
  /\ thread \in [Request -> {"none", "read", "write", "done"}]
  /\ entry \in [Request -> Entry \cup {NoEntry}]
  /\ answer \in [Request -> Request \cup {NoFlight}]
  /\ hit \subseteq Request
  /\ fetchedAt \in [Request -> Time]

\* "Cached for 8 minutes": a cache hit was fetched less than _ttl_s before the
\* request asked, whichever tier kept it and however often it was stored
\* again by waiters of the flight or rehydrated from L2.
HitsAreFresh ==
  \A r \in hit : /\ key[answer[r]] = key[r]
                 /\ now[r] < fetchedAt[answer[r]] + Ttl

\* "Concurrent identical calls coalesce into a single HTTP roundtrip": nobody
\* starts a fetch while L1 has a live answer.
NoRedundantFetch ==
  [][\A r \in Request : stage[r] # "fetching" /\ stage'[r] = "fetching" =>
       ~Alive(l1[key[r]], clock)]_vars
=============================================================================
