---------------------------- MODULE EnginePool ----------------------------
(***************************************************************************)
(* The crash-resilient engine pool of core/engines/pool.py (_EnginePool):  *)
(* the requests inside run(), the background self-heal task and close(),   *)
(* interleaved on one asyncio event loop.                                  *)
(*                                                                         *)
(* One action is the code between two suspension points.  An uncontended   *)
(* asyncio.Lock does not suspend, and no body of _cardinality_lock awaits, *)
(* so a block under that lock belongs to the action around it.  Whatever   *)
(* the code awaits (the queue, the search fn, the factory, an engine's     *)
(* close, a sleep) ends in a later action, and a cancellation may arrive   *)
(* there instead.                                                          *)
(***************************************************************************)
EXTENDS Integers, SequencesExt

CONSTANTS
  Caller,           \* the requests that use the pool
  Engine,           \* identities of engine processes; a closed one is reused
  NoEngine,         \* what a task holds when it holds no engine
  Target,           \* _target_size, the number of engines the pool starts with
  MaxStray          \* bound: engines that failed creations may leave running

ASSUME PoolAssumption ==
  /\ IsFiniteSet(Caller)
  /\ NoEngine \notin Engine
  /\ Target \in Nat \ {0}
  /\ MaxStray \in Nat
  /\ Injection(1..Target, Engine) # {}

VARIABLES
  queue,       \* self._q, oldest engine first
  aliveCount,  \* self._alive_count
  pc,          \* where each request is inside run()
  held,        \* the engine in each request's hands
  healer,      \* where the self-heal task is; "off" if there is none
  healEngine,  \* the surplus engine the self-heal task is closing
  closer,      \* where close() is; self._closed is closer # "open"
  closeEngine, \* the engine close() is closing
  up,          \* engine processes spawned and not yet closed
  stray,       \* those of them whose create() did not return: nobody has them
  tainted,     \* engines that were cut off in the middle of a search
  abandoned    \* history: recoveries cancelled while nothing else healed

slotVars == <<queue, aliveCount>>
callerVars == <<pc, held>>
healVars == <<healer, healEngine>>
closeVars == <<closer, closeEngine>>
procVars == <<up, stray, tainted>>
vars == <<slotVars, callerVars, healVars, closeVars, procVars, abandoned>>

closed == closer # "open"
Queued == ToSet(queue)

\* A request is "waiting" in q.get, "busy" in fn(inst), "dropping" the dead
\* engine, "spawning" its replacement, "retrying" fn(fresh), "returning" a
\* fresh engine the pool did not accept, or in "cleanup" of the engine it was
\* cancelled or cut off on.
CallerPC == {"idle", "waiting", "busy", "dropping", "spawning",
             "retrying", "returning", "cleanup"}
HolderPC == {"busy", "dropping", "retrying", "returning", "cleanup"}
RecoveringPC == {"dropping", "spawning", "retrying", "cleanup"}
HealerPC == {"off", "starting", "sleeping", "spawning", "discarding"}
CloserPC == {"open", "joining", "draining", "discarding", "done"}

Busy == {c \in Caller : pc[c] = "busy"}
Recovering == {c \in Caller : pc[c] \in RecoveringPC}

-----------------------------------------------------------------------------
\* __init__: every instance is queued and counted.  Which identities processes
\* get is of no consequence, so here and in Fresh it is a fixed choice.
Init ==
  /\ queue = CHOOSE q \in Injection(1..Target, Engine) : TRUE
  /\ aliveCount = Target
  /\ pc = [c \in Caller |-> "idle"]
  /\ held = [c \in Caller |-> NoEngine]
  /\ healer = "off"
  /\ healEngine = NoEngine
  /\ closer = "open"
  /\ closeEngine = NoEngine
  /\ up = Queued
  /\ stray = {}
  /\ tainted = {}
  /\ abandoned = 0

\* The identity of the next engine process, if one is left.
Fresh == IF up = Engine THEN {} ELSE {CHOOSE e \in Engine : e \notin up}

Goto(c, label) == pc' = [pc EXCEPT ![c] = label]
Hold(c, e) == held' = [held EXCEPT ![c] = e]

\* self._alive_count = max(0, self._alive_count - 1)
LoseSlot == aliveCount' = IF aliveCount = 0 THEN 0 ELSE aliveCount - 1

\* put_nowait raises QueueFull on a full queue and the engine is dropped;
\* SlotsAccounted and NoOrphanEngine show that it never happens.
PutBack(e) == queue' = IF Len(queue) < Target THEN Append(queue, e) ELSE queue

\* _discard is over, however it ended: close() told the engine to quit before
\* its first await, and every Exception is swallowed.
Discarded(e) ==
  /\ up' = up \ {e}
  /\ tainted' = tainted \ {e}
  /\ UNCHANGED stray

\* The factory does not return.  Analyzer.create and TCPAnalyzer.create first
\* start the process or connection, then await configure unguarded: an error or
\* a cancellation before that leaves nothing, one in configure an engine that
\* runs on and that no variable of the program refers to.
CreateAborted ==
  /\ \/ UNCHANGED <<up, stray>>
     \/ /\ Cardinality(stray) < MaxStray
        /\ \E e \in Fresh :
             /\ up' = up \cup {e}
             /\ stray' = stray \cup {e}
  /\ UNCHANGED tainted

\* _start_self_heal: nothing on a closed pool or while the task still runs.
StartSelfHeal ==
  healer' = IF ~closed /\ healer = "off" THEN "starting" ELSE healer

\* Faulty variant: without the closed test.
CanAcceptClosed == aliveCount < Target /\ Len(queue) < Target

\* The test of _accept_fresh under the lock.
CanAccept == ~closed /\ aliveCount < Target /\ Len(queue) < Target

AcceptFresh(e) ==
  /\ queue' = Append(queue, e)
  /\ aliveCount' = aliveCount + 1

-----------------------------------------------------------------------------
\* run() is called and awaits q.get.
Request(c) ==
  /\ pc[c] = "idle"
  /\ Goto(c, "waiting")
  /\ UNCHANGED <<held, slotVars, healVars, closeVars, procVars, abandoned>>

\* q.get returns the oldest engine and fn(inst) starts.
Acquire(c) ==
  /\ pc[c] = "waiting"
  /\ queue # <<>>
  /\ queue' = Tail(queue)
  /\ Hold(c, Head(queue))
  /\ Goto(c, "busy")
  /\ UNCHANGED <<aliveCount, healVars, closeVars, procVars, abandoned>>

\* The acquire timeout (PoolBusy), or a cancellation, while waiting.
GiveUp(c) ==
  /\ pc[c] = "waiting"
  /\ Goto(c, "idle")
  /\ UNCHANGED <<held, slotVars, healVars, closeVars, procVars, abandoned>>

\* fn(inst) returns, or raises an error that is neither of the transport nor
\* a cancellation: the engine is healthy and goes back.
Finish(c) ==
  /\ pc[c] = "busy"
  /\ PutBack(held[c])
  /\ Hold(c, NoEngine)
  /\ Goto(c, "idle")
  /\ UNCHANGED <<aliveCount, healVars, closeVars, procVars, abandoned>>

\* fn(inst) raises a transport error: _replace_and_retry gives the slot up
\* and starts to close the dead engine.
TransportError(c) ==
  /\ pc[c] = "busy"
  /\ LoseSlot
  /\ tainted' = tainted \cup {held[c]}
  /\ Goto(c, "dropping")
  /\ UNCHANGED <<queue, held, up, stray, healVars, closeVars, abandoned>>

\* Faulty variant: a cancelled request puts its engine back.
CancelRunRequeues(c) ==
  /\ pc[c] = "busy"
  /\ PutBack(held[c])
  /\ tainted' = tainted \cup {held[c]}
  /\ Hold(c, NoEngine)
  /\ Goto(c, "idle")
  /\ UNCHANGED <<aliveCount, up, stray, healVars, closeVars, abandoned>>

\* The request is cancelled inside fn(inst).
CancelRun(c) ==
  /\ pc[c] = "busy"
  /\ LoseSlot
  /\ tainted' = tainted \cup {held[c]}
  /\ Goto(c, "cleanup")
  /\ UNCHANGED <<queue, held, up, stray, healVars, closeVars, abandoned>>

\* The dead engine is closed; the factory starts.
Dropped(c) ==
  /\ pc[c] = "dropping"
  /\ Discarded(held[c])
  /\ Hold(c, NoEngine)
  /\ Goto(c, "spawning")
  /\ UNCHANGED <<slotVars, healVars, closeVars, abandoned>>

\* The factory returns a fresh engine, outside the queue and uncounted, and
\* fn(fresh) starts.
Respawned(c) ==
  /\ pc[c] = "spawning"
  /\ \E e \in Fresh :
       /\ up' = up \cup {e}
       /\ Hold(c, e)
  /\ Goto(c, "retrying")
  /\ UNCHANGED <<stray, tainted, slotVars, healVars, closeVars, abandoned>>

\* Faulty variant: nobody is told of the lost slot.
RespawnFailedSilently(c) ==
  /\ pc[c] = "spawning"
  /\ Goto(c, "idle")
  /\ UNCHANGED <<held, slotVars, healVars, closeVars, procVars, abandoned>>

\* The factory raises: the slot is left to the self-heal task.
RespawnFailed(c) ==
  /\ pc[c] = "spawning"
  /\ CreateAborted
  /\ StartSelfHeal
  /\ Goto(c, "idle")
  /\ UNCHANGED <<held, healEngine, slotVars, closeVars, abandoned>>

\* fn(fresh) returns or raises an application error, and the pool takes the
\* fresh engine.
RetryAccepted(c) ==
  /\ pc[c] = "retrying"
  /\ CanAccept
  /\ AcceptFresh(held[c])
  /\ Hold(c, NoEngine)
  /\ Goto(c, "idle")
  /\ UNCHANGED <<healVars, closeVars, procVars, abandoned>>

\* Faulty variant: the refused engine is forgotten.
RetryRefusedForgets(c) ==
  /\ pc[c] = "retrying"
  /\ ~CanAccept
  /\ Hold(c, NoEngine)
  /\ Goto(c, "idle")
  /\ UNCHANGED <<slotVars, healVars, closeVars, procVars, abandoned>>

\* ... or refuses it: closed meanwhile, or the self-heal task was faster.
RetryRefused(c) ==
  /\ pc[c] = "retrying"
  /\ ~CanAccept
  /\ Goto(c, "returning")
  /\ UNCHANGED <<held, slotVars, healVars, closeVars, procVars, abandoned>>

\* fn(fresh) meets a transport error or the request is cancelled in it.
RetryFailed(c) ==
  /\ pc[c] = "retrying"
  /\ tainted' = tainted \cup {held[c]}
  /\ Goto(c, "cleanup")
  /\ UNCHANGED <<held, up, stray, slotVars, healVars, closeVars, abandoned>>

\* The refused engine is closed (or the request is cancelled in that close).
Returned(c) ==
  /\ pc[c] = "returning"
  /\ Discarded(held[c])
  /\ Hold(c, NoEngine)
  /\ Goto(c, "idle")
  /\ UNCHANGED <<slotVars, healVars, closeVars, abandoned>>

\* The engine of a cancelled or twice-failed request is closed, and then the
\* self-heal task is started.
CleanedUp(c) ==
  /\ pc[c] = "cleanup"
  /\ Discarded(held[c])
  /\ Hold(c, NoEngine)
  /\ StartSelfHeal
  /\ Goto(c, "idle")
  /\ UNCHANGED <<healEngine, slotVars, closeVars, abandoned>>

\* A cancellation in "await self._discard(...)" or "await self._factory()":
\* neither catches CancelledError, so the request leaves and _start_self_heal
\* is not reached.
CancelRecovery(c) ==
  /\ \/ pc[c] \in {"dropping", "cleanup"} /\ Discarded(held[c])
     \/ pc[c] = "spawning" /\ CreateAborted
  /\ Hold(c, NoEngine)
  /\ Goto(c, "idle")
  /\ abandoned' = abandoned + IF ~closed /\ healer = "off" THEN 1 ELSE 0
  /\ UNCHANGED <<slotVars, healVars, closeVars>>

-----------------------------------------------------------------------------
\* One round of _self_heal_loop, the first or the one after a sleep.  Once the
\* pool is closed the task is only ever cancelled.
HealRound ==
  /\ healer \in {"starting", "sleeping"}
  /\ ~closed
  /\ healer' = IF aliveCount < Target THEN "spawning" ELSE "sleeping"
  /\ UNCHANGED <<healEngine, slotVars, callerVars, closeVars, procVars,
                 abandoned>>

\* Faulty variant: a factory error ends the task.
HealGivesUp ==
  /\ healer = "spawning"
  /\ ~closed
  /\ healer' = "off"
  /\ UNCHANGED <<healEngine, slotVars, callerVars, closeVars, procVars,
                 abandoned>>

\* The factory raises; the interval grows and the task sleeps.
HealSpawnFailed ==
  /\ healer = "spawning"
  /\ ~closed
  /\ CreateAborted
  /\ healer' = "sleeping"
  /\ UNCHANGED <<healEngine, slotVars, callerVars, closeVars, abandoned>>

\* The factory returns and the pool, looked at again, takes the engine ...
HealAccepted ==
  /\ healer = "spawning"
  /\ CanAccept
  /\ \E e \in Fresh :
       /\ up' = up \cup {e}
       /\ AcceptFresh(e)
  /\ healer' = "sleeping"
  /\ UNCHANGED <<healEngine, stray, tainted, callerVars, closeVars, abandoned>>

\* ... or the slot was refilled meanwhile and the engine is closed.
HealRefused ==
  /\ healer = "spawning"
  /\ ~closed /\ ~CanAccept
  /\ \E e \in Fresh :
       /\ up' = up \cup {e}
       /\ healEngine' = e
  /\ healer' = "discarding"
  /\ UNCHANGED <<stray, tainted, slotVars, callerVars, closeVars, abandoned>>

HealDiscarded ==
  /\ healer = "discarding"
  /\ ~closed
  /\ Discarded(healEngine)
  /\ healEngine' = NoEngine
  /\ healer' = "sleeping"
  /\ UNCHANGED <<slotVars, callerVars, closeVars, abandoned>>

\* Faulty variant: the task swallows its cancellation and goes on.
HealCancelSwallowed ==
  /\ closer = "joining"
  /\ healer # "off"
  /\ healer' = "sleeping"
  /\ Discarded(healEngine)
  /\ healEngine' = NoEngine
  /\ UNCHANGED <<slotVars, callerVars, closeVars, abandoned>>

\* close() cancelled the task: it ends at the await it is suspended in.
HealCancelled ==
  /\ closer = "joining"
  /\ healer # "off"
  /\ healer' = "off"
  /\ IF healer = "spawning" THEN CreateAborted ELSE Discarded(healEngine)
  /\ healEngine' = NoEngine
  /\ UNCHANGED <<slotVars, callerVars, closeVars, abandoned>>

-----------------------------------------------------------------------------
\* close() sets _closed and cancels the self-heal task.
Close ==
  /\ closer = "open"
  /\ closer' = "joining"
  /\ UNCHANGED <<closeEngine, slotVars, callerVars, healVars, procVars,
                 abandoned>>

\* The loop of close(): take the next queued engine and await its close; when
\* the queue is empty, clear the count.
CloseJoined ==
  /\ closer = "joining"
  /\ healer = "off"
  /\ closer' = "draining"
  /\ UNCHANGED <<closeEngine, slotVars, callerVars, healVars, procVars,
                 abandoned>>

CloseNext ==
  /\ closer = "draining"
  /\ queue # <<>>
  /\ closeEngine' = Head(queue)
  /\ queue' = Tail(queue)
  /\ closer' = "discarding"
  /\ UNCHANGED <<aliveCount, callerVars, healVars, procVars, abandoned>>

CloseDiscarded ==
  /\ closer = "discarding"
  /\ Discarded(closeEngine)
  /\ closeEngine' = NoEngine
  /\ closer' = "draining"
  /\ UNCHANGED <<slotVars, callerVars, healVars, abandoned>>

CloseDone ==
  /\ closer = "draining"
  /\ queue = <<>>
  /\ aliveCount' = 0
  /\ closer' = "done"
  /\ UNCHANGED <<queue, closeEngine, callerVars, healVars, procVars, abandoned>>

-----------------------------------------------------------------------------
CallerStep(c) ==
  \/ Request(c) \/ Acquire(c) \/ GiveUp(c)
  \/ Finish(c) \/ TransportError(c) \/ CancelRun(c)
  \/ Dropped(c) \/ Respawned(c) \/ RespawnFailed(c)
  \/ RetryAccepted(c) \/ RetryRefused(c) \/ RetryFailed(c)
  \/ Returned(c) \/ CleanedUp(c) \/ CancelRecovery(c)

HealerStep ==
  \/ HealRound \/ HealSpawnFailed \/ HealAccepted
  \/ HealRefused \/ HealDiscarded \/ HealCancelled

CloserStep == Close \/ CloseJoined \/ CloseNext \/ CloseDiscarded \/ CloseDone

Next == (\E c \in Caller : CallerStep(c)) \/ HealerStep \/ CloserStep

Spec == Init /\ [][Next]_vars

\* What the event loop guarantees: a task that can go on does so, and an
\* awaited engine close ends.  That the factory succeeds for the self-heal
\* task when it is tried for ever is the assumption self-healing rests on.
\* Nothing makes a client call the pool or the server close it.
Fairness ==
  /\ WF_vars(HealRound) /\ WF_vars(HealDiscarded) /\ WF_vars(HealCancelled)
  /\ SF_vars(HealAccepted)
  /\ WF_vars(CloseJoined) /\ WF_vars(CloseNext \/ CloseDone)
  /\ WF_vars(CloseDiscarded)

FairSpec == Spec /\ Fairness

-----------------------------------------------------------------------------
TypeOK ==
  /\ queue \in Seq(Engine)
  /\ aliveCount \in 0..Target
  /\ pc \in [Caller -> CallerPC]
  /\ held \in [Caller -> Engine \cup {NoEngine}]
  /\ healer \in HealerPC
  /\ healEngine \in Engine \cup {NoEngine}
  /\ closer \in CloserPC
  /\ closeEngine \in Engine \cup {NoEngine}
  /\ up \subseteq Engine
  /\ stray \subseteq Engine
  /\ tainted \subseteq up
  /\ abandoned \in 0..Target

\* The count never drifts: until the pool is closed, the counted slots are
\* exactly the queued engines and those running a first attempt, whatever
\* crashes, cancellations and refills came before; and they never outnumber
\* the queue's capacity, so putting an engine back cannot raise QueueFull.
CountIsExact ==
  /\ Len(queue) + Cardinality(Busy) <= Target
  /\ ~closed => aliveCount = Len(queue) + Cardinality(Busy)

Held == {held[c] : c \in Caller} \ {NoEngine}

\* No engine is in two hands: not queued twice, not queued while a task uses
\* it, not used by two tasks (an engine runs one UCI search at a time).
OneOwner ==
  /\ IsInjective(queue)
  /\ \A c, d \in Caller : held[c] = held[d] /\ held[c] # NoEngine => c = d
  /\ Queued \cap Held = {}
  /\ {healEngine, closeEngine} \cap (Queued \cup Held) = {}
  /\ healEngine = closeEngine => healEngine = NoEngine
  /\ stray \cap (Queued \cup Held \cup {healEngine, closeEngine}) = {}

\* Every engine process that runs is in the queue or in the hands of a task
\* that will queue or close it, or was left behind by a create() that did not
\* return: the pool itself never drops the last reference to a running engine,
\* at whatever await a crash, a cancellation or the shutdown meets it.
NoOrphanEngine ==
  up = Queued \cup Held \cup ({healEngine, closeEngine} \ {NoEngine})
              \cup stray

\* An engine whose search was cut off (severed transport, cancelled request)
\* is never queued again and never runs another request: its process may
\* still be searching and would answer with the previous position's result.
TaintedNeverServes ==
  /\ tainted \cap Queued = {}
  /\ \A c \in Caller : pc[c] \in {"busy", "retrying"} => held[c] \notin tainted

\* As long as the self-heal task was never needed, each slot missing from the
\* pool is one that a request is recovering right now, or one whose recovery
\* was cancelled: those cancellations are the only way to lose a slot, and
\* each loses one.
LostSlotsAccounted ==
  ~closed /\ healer = "off"
    => aliveCount + Cardinality(Recovering) + abandoned = Target

\* No slot is lost sight of: what is counted is there, and what is missing from
\* the count is being recovered or was given up by a cancelled recovery.
SlotsAccounted == CountIsExact /\ LostSlotsAccounted

\* A pool below its target size has somebody who will refill it: a request in
\* the middle of its own recovery, or the self-heal task.
EveryLostSlotRecovers ==
  ~closed /\ aliveCount < Target => healer # "off" \/ Recovering # {}

\* Nothing joins a pool after close(): the closed test of _accept_fresh is
\* made again after the factory's await, so a respawn that close() overtook
\* is discarded.
ClosedPoolNeverGrows == [][closed => aliveCount' <= aliveCount]_vars

\* A pool left alone gets all its engines back: once no request is inside
\* run() any more, the pool is closed or back at its target size for good,
\* unless all it lacks are slots whose recovery was cancelled.
Quiet == \A c \in Caller : pc[c] \in {"idle", "waiting"}
Refilled ==
  aliveCount = Target \/ (healer = "off" /\ aliveCount + abandoned = Target)
QuietPoolRefills == <>[]Quiet => <>[](closed \/ Refilled)

\* close() ends although requests keep taking and returning engines and the
\* self-heal task is in the middle of a spawn or of a discard.
CloseTerminates == closed ~> closer = "done"

\* close() leaves no engine process behind once every request has ended, but
\* those of creations that did not return.
ClosedPoolHasNoEngines ==
  closer = "done" /\ (\A c \in Caller : pc[c] = "idle") => up = stray
=============================================================================
