---------------------------- MODULE EngineProofs ----------------------------
(***************************************************************************)
(* Proofs about the engines and who holds them.                            *)
(*                                                                         *)
(* EnginePool, for every number of requests and every target size.  The    *)
(* inductive invariant IInv says, beside the properties, which program     *)
(* counters hold an engine and that the self-heal task is gone once        *)
(* close() drains.                                                         *)
(*                                                                         *)
(* TCPClient and the retries it extends, for every set of calls, every     *)
(* threshold, window and cool-down, and however often the connection       *)
(* breaks.                                                                 *)
(***************************************************************************)
EXTENDS EnginePool, TCPClient, FiniteSetTheorems, SequenceTheorems, TLAPS

\* A task holds an engine exactly where its code has one in a local variable.
HandsOK ==
  /\ \A c \in Caller : held[c] # NoEngine <=> pc[c] \in HolderPC
  /\ healEngine # NoEngine <=> healer = "discarding"
  /\ closeEngine # NoEngine <=> closer = "discarding"
  /\ closer \in {"draining", "discarding", "done"} => healer = "off"

\* The inductive invariant.
IInv ==
  /\ TypeOK
  /\ HandsOK
  /\ CountIsExact
  /\ OneOwner
  /\ NoOrphanEngine
  /\ TaintedNeverServes
  /\ LostSlotsAccounted

-----------------------------------------------------------------------------
\* Moving one request from pc[c] to label changes the number of requests in
\* Busy by the obvious amount.
LEMMA BusyCount ==
  ASSUME TypeOK, NEW c \in Caller, NEW label \in CallerPC,
         pc' = [pc EXCEPT ![c] = label]
  PROVE  /\ Cardinality(Busy) \in Nat
         /\ pc[c] = "busy" => Cardinality(Busy) >= 1
         /\ (pc[c] = "busy" <=> label = "busy")
              => Cardinality(Busy') = Cardinality(Busy)
         /\ pc[c] = "busy" /\ label # "busy"
              => Cardinality(Busy') = Cardinality(Busy) - 1
         /\ pc[c] # "busy" /\ label = "busy"
              => Cardinality(Busy') = Cardinality(Busy) + 1
<1>1. IsFiniteSet(Busy) /\ Cardinality(Busy) \in Nat
  BY PoolAssumption, FS_Subset, FS_CardinalityType DEF Busy
<1>2. pc[c] = "busy" => Cardinality(Busy) >= 1
  BY <1>1, FS_EmptySet DEF Busy
<1>3. CASE pc[c] = "busy" <=> label = "busy"
  <2>1. Busy' = Busy
    BY <1>3 DEF Busy, TypeOK
  <2>. QED  BY <1>1, <1>2, <1>3, <2>1
<1>4. CASE pc[c] = "busy" /\ label # "busy"
  <2>1. Busy' = Busy \ {c} /\ c \in Busy
    BY <1>4 DEF Busy, TypeOK
  <2>2. Cardinality(Busy') = Cardinality(Busy) - 1
    BY <1>1, <2>1, FS_RemoveElement
  <2>. QED  BY <1>1, <1>2, <1>4, <2>2
<1>5. CASE pc[c] # "busy" /\ label = "busy"
  <2>1. Busy' = Busy \cup {c} /\ c \notin Busy
    BY <1>5 DEF Busy, TypeOK
  <2>2. Cardinality(Busy') = Cardinality(Busy) + 1
    BY <1>1, <2>1, FS_AddElement
  <2>. QED  BY <1>1, <1>2, <1>5, <2>2
<1>. QED  BY <1>1, <1>2, <1>3, <1>4, <1>5

\* The same for Recovering.
LEMMA RecoveringCount ==
  ASSUME TypeOK, NEW c \in Caller, NEW label \in CallerPC,
         pc' = [pc EXCEPT ![c] = label]
  PROVE  /\ Cardinality(Recovering) \in Nat
         /\ pc[c] \in RecoveringPC => Cardinality(Recovering) >= 1
         /\ (pc[c] \in RecoveringPC <=> label \in RecoveringPC)
              => Cardinality(Recovering') = Cardinality(Recovering)
         /\ pc[c] \in RecoveringPC /\ label \notin RecoveringPC
              => Cardinality(Recovering') = Cardinality(Recovering) - 1
         /\ pc[c] \notin RecoveringPC /\ label \in RecoveringPC
              => Cardinality(Recovering') = Cardinality(Recovering) + 1
<1>1. IsFiniteSet(Recovering) /\ Cardinality(Recovering) \in Nat
  BY PoolAssumption, FS_Subset, FS_CardinalityType DEF Recovering
<1>2. pc[c] \in RecoveringPC => Cardinality(Recovering) >= 1
  BY <1>1, FS_EmptySet DEF Recovering
<1>3. CASE pc[c] \in RecoveringPC <=> label \in RecoveringPC
  <2>1. Recovering' = Recovering
    BY <1>3 DEF Recovering, TypeOK
  <2>. QED  BY <1>1, <1>2, <1>3, <2>1
<1>4. CASE pc[c] \in RecoveringPC /\ label \notin RecoveringPC
  <2>1. Recovering' = Recovering \ {c} /\ c \in Recovering
    BY <1>4 DEF Recovering, TypeOK
  <2>2. Cardinality(Recovering') = Cardinality(Recovering) - 1
    BY <1>1, <2>1, FS_RemoveElement
  <2>. QED  BY <1>1, <1>2, <1>4, <2>2
<1>5. CASE pc[c] \notin RecoveringPC /\ label \in RecoveringPC
  <2>1. Recovering' = Recovering \cup {c} /\ c \notin Recovering
    BY <1>5 DEF Recovering, TypeOK
  <2>2. Cardinality(Recovering') = Cardinality(Recovering) + 1
    BY <1>1, <2>1, FS_AddElement
  <2>. QED  BY <1>1, <1>2, <1>5, <2>2
<1>. QED  BY <1>1, <1>2, <1>3, <1>4, <1>5

\* Appending a new element keeps a queue free of duplicates.
LEMMA AppendDistinct ==
  ASSUME NEW q \in Seq(Engine), IsInjective(q), NEW e \in Engine, e \notin ToSet(q)
  PROVE  /\ Append(q, e) \in Seq(Engine)
         /\ Len(Append(q, e)) = Len(q) + 1
         /\ IsInjective(Append(q, e))
         /\ ToSet(Append(q, e)) = ToSet(q) \cup {e}
<1>1. /\ Append(q, e) \in Seq(Engine) /\ Len(Append(q, e)) = Len(q) + 1
      /\ \A i \in 1..Len(q) : Append(q, e)[i] = q[i]
      /\ Append(q, e)[Len(q) + 1] = e
      /\ Len(q) \in Nat
      /\ DOMAIN q = 1..Len(q) /\ DOMAIN Append(q, e) = 1..Len(q) + 1
  BY AppendProperties, LenProperties
<1>2. \A i \in 1..Len(q) : q[i] # e
  BY <1>1 DEF ToSet
<1>3. IsInjective(Append(q, e))
  BY <1>1, <1>2 DEF IsInjective
<1>4. ToSet(Append(q, e)) = ToSet(q) \cup {e}
  BY <1>1 DEF ToSet
<1>. QED  BY <1>1, <1>3, <1>4

\* Taking the head of a duplicate-free queue removes just that element.
LEMMA TailDistinct ==
  ASSUME NEW q \in Seq(Engine), IsInjective(q), q # <<>>
  PROVE  /\ Head(q) \in ToSet(q)
         /\ Head(q) \in Engine
         /\ Tail(q) \in Seq(Engine)
         /\ Len(Tail(q)) = Len(q) - 1
         /\ Len(q) \in Nat
         /\ IsInjective(Tail(q))
         /\ ToSet(Tail(q)) = ToSet(q) \ {Head(q)}
<1>1. /\ Head(q) = q[1] /\ Tail(q) \in Seq(Engine) /\ Len(q) \in Nat \ {0}
      /\ Len(Tail(q)) = Len(q) - 1
      /\ \A i \in 1..Len(q) - 1 : Tail(q)[i] = q[i + 1]
      /\ DOMAIN q = 1..Len(q) /\ DOMAIN Tail(q) = 1..Len(q) - 1
  BY HeadTailProperties, LenProperties
<1>2. Head(q) \in ToSet(q) /\ Head(q) \in Engine
  BY <1>1 DEF ToSet
<1>3. IsInjective(Tail(q))
  BY <1>1 DEF IsInjective
<1>4. ASSUME NEW x \in ToSet(q), x # Head(q)
      PROVE  x \in ToSet(Tail(q))
  <2>1. PICK i \in 1..Len(q) : x = q[i]
    BY <1>1 DEF ToSet
  <2>2. i - 1 \in 1..Len(q) - 1 /\ Tail(q)[i - 1] = x
    BY <1>1, <1>4, <2>1
  <2>. QED  BY <1>1, <2>2 DEF ToSet
<1>5. ASSUME NEW x \in ToSet(Tail(q))
      PROVE  x \in ToSet(q) /\ x # Head(q)
  <2>1. PICK i \in 1..Len(q) - 1 : x = q[i + 1]
    BY <1>1 DEF ToSet
  <2>. QED  BY <1>1, <2>1 DEF ToSet, IsInjective
<1>. QED  BY <1>1, <1>2, <1>3, <1>4, <1>5

\* What the requests hold after one of them takes or gives up an engine.
LEMMA HeldTake ==
  ASSUME TypeOK, NEW c \in Caller, NEW e \in Engine,
         held[c] = NoEngine, held' = [held EXCEPT ![c] = e]
  PROVE  Held' = Held \cup {e}
BY PoolAssumption DEF TypeOK, Held

\* The engine a request gives up is held by nobody else.
LEMMA HeldDrop ==
  ASSUME TypeOK, OneOwner, NEW c \in Caller,
         held' = [held EXCEPT ![c] = NoEngine]
  PROVE  Held' = Held \ {held[c]}
BY PoolAssumption DEF TypeOK, Held, OneOwner

-----------------------------------------------------------------------------

\* A fresh identity is one that no running engine has.
LEMMA FreshIsFree ==
  ASSUME NEW e \in Fresh, up \subseteq Engine
  PROVE  e \in Engine /\ e \notin up
BY DEF Fresh

\* A creation that does not return leaves at most one more engine running, in
\* nobody's hands.
LEMMA AbortedCreate ==
  ASSUME TypeOK, CreateAborted
  PROVE  /\ tainted' = tainted
         /\ \E some \in SUBSET (Engine \ up) :
              up' = up \cup some /\ stray' = stray \cup some
<1>1. CASE UNCHANGED <<up, stray>>
  <2>1. up' = up \cup {} /\ stray' = stray \cup {} /\ {} \in SUBSET (Engine \ up)
    BY <1>1
  <2>. QED  BY <2>1 DEF CreateAborted
<1>2. ASSUME NEW e \in Fresh, up' = up \cup {e}, stray' = stray \cup {e}
      PROVE  \E some \in SUBSET (Engine \ up) :
               up' = up \cup some /\ stray' = stray \cup some
  <2>1. {e} \in SUBSET (Engine \ up)
    BY FreshIsFree DEF TypeOK
  <2>. QED  BY <1>2, <2>1
<1>. QED  BY <1>1, <1>2 DEF CreateAborted

\* There is one lemma per action: it preserves IInv.  A request that only waits
\* touches neither engines nor counts.
LEMMA RequestStep ==
  ASSUME IInv, NEW c \in Caller, Request(c)
  PROVE  IInv'
<1>. USE DEF Request, Goto, slotVars, healVars, closeVars, procVars
<1>1. /\ Len(queue) \in Nat /\ aliveCount \in 0..Target /\ Target \in Nat
      /\ abandoned \in Nat
      /\ TypeOK /\ OneOwner
  BY PoolAssumption DEF IInv, TypeOK
<1>2. /\ Cardinality(Busy) \in Nat
      /\ Cardinality(Busy') = Cardinality(Busy)
      /\ Cardinality(Recovering) \in Nat
      /\ Cardinality(Recovering') = Cardinality(Recovering)
  BY <1>1, BusyCount, RecoveringCount DEF CallerPC, RecoveringPC
<1>3. Held' = Held
  BY DEF Held
<1>4. TypeOK'
  BY DEF IInv, TypeOK, CallerPC
<1>5. HandsOK'
  BY DEF IInv, HandsOK, HolderPC
<1>6. CountIsExact'
  BY <1>2 DEF IInv, CountIsExact, closed
<1>7. OneOwner'
  BY DEF IInv, OneOwner, Queued, Held
<1>8. NoOrphanEngine'
  BY <1>3 DEF IInv, NoOrphanEngine, Queued
<1>9. TaintedNeverServes'
  BY DEF IInv, TaintedNeverServes, Queued
<1>10. LostSlotsAccounted'
  BY <1>2 DEF IInv, LostSlotsAccounted, closed
<1>. QED  BY <1>4, <1>5, <1>6, <1>7, <1>8, <1>9, <1>10 DEF IInv

\* The head of the queue moves into the hand of a request that becomes busy.
LEMMA AcquireStep ==
  ASSUME IInv, NEW c \in Caller, Acquire(c)
  PROVE  IInv'
<1>. USE DEF Acquire, Goto, Hold, healVars, closeVars, procVars
<1>1. /\ Len(queue) \in Nat /\ aliveCount \in 0..Target /\ Target \in Nat
      /\ abandoned \in Nat
      /\ TypeOK /\ OneOwner
  BY PoolAssumption DEF IInv, TypeOK
<1>2. /\ Cardinality(Busy) \in Nat
      /\ Cardinality(Busy') = Cardinality(Busy) + 1
      /\ Cardinality(Recovering) \in Nat
      /\ Cardinality(Recovering') = Cardinality(Recovering)
  BY <1>1, BusyCount, RecoveringCount DEF CallerPC, RecoveringPC
<1>3. /\ Head(queue) \in Queued /\ Head(queue) \in Engine
      /\ queue' \in Seq(Engine) /\ Len(queue') = Len(queue) - 1
      /\ IsInjective(queue') /\ Queued' = Queued \ {Head(queue)}
  BY <1>1, TailDistinct DEF TypeOK, OneOwner, Queued
<1>4. Held' = Held \cup {Head(queue)}
  BY <1>3, HeldTake DEF IInv, HandsOK, HolderPC
<1>5. TypeOK'
  BY DEF IInv, TypeOK, CallerPC, CountIsExact, closed
<1>6. HandsOK'
  BY PoolAssumption DEF IInv, TypeOK, HandsOK, HolderPC, closed
<1>7. CountIsExact'
  BY <1>2 DEF IInv, CountIsExact, closed
<1>8. OneOwner'
  <2>1. IsInjective(queue')
    BY <1>3
  <2>2. \A b, d \in Caller : held'[b] = held'[d] /\ held'[b] # NoEngine => b = d
    BY <1>3 DEF IInv, OneOwner, Held
  <2>3. Queued' \cap Held' = {}
    BY <1>3, <1>4 DEF IInv, OneOwner, NoOrphanEngine
  <2>4. {healEngine', closeEngine'} \cap (Queued' \cup Held') = {}
    BY <1>3, <1>4 DEF IInv, OneOwner
  <2>5. healEngine' = closeEngine' => healEngine' = NoEngine
    BY DEF IInv, OneOwner
  <2>6. stray' \cap (Queued' \cup Held' \cup {healEngine', closeEngine'}) = {}
    BY <1>3, <1>4 DEF IInv, OneOwner
  <2>. QED  BY <2>1, <2>2, <2>3, <2>4, <2>5, <2>6 DEF OneOwner
<1>9. NoOrphanEngine'
  BY <1>3, <1>4 DEF IInv, NoOrphanEngine, Queued
<1>10. TaintedNeverServes'
  BY <1>3 DEF IInv, TypeOK, TaintedNeverServes, NoOrphanEngine, Queued, Held
<1>11. LostSlotsAccounted'
  BY <1>2 DEF IInv, LostSlotsAccounted, closed
<1>. QED  BY <1>5, <1>6, <1>7, <1>8, <1>9, <1>10, <1>11 DEF IInv

\* A request that gave up waiting never had an engine.
LEMMA GiveUpStep ==
  ASSUME IInv, NEW c \in Caller, GiveUp(c)
  PROVE  IInv'
<1>. USE DEF GiveUp, Goto, slotVars, healVars, closeVars, procVars
<1>1. /\ Len(queue) \in Nat /\ aliveCount \in 0..Target /\ Target \in Nat
      /\ abandoned \in Nat
      /\ TypeOK /\ OneOwner
  BY PoolAssumption DEF IInv, TypeOK
<1>2. /\ Cardinality(Busy) \in Nat
      /\ Cardinality(Busy') = Cardinality(Busy)
      /\ Cardinality(Recovering) \in Nat
      /\ Cardinality(Recovering') = Cardinality(Recovering)
  BY <1>1, BusyCount, RecoveringCount DEF CallerPC, RecoveringPC
<1>3. Held' = Held
  BY DEF Held
<1>4. TypeOK'
  BY DEF IInv, TypeOK, CallerPC
<1>5. HandsOK'
  BY DEF IInv, HandsOK, HolderPC
<1>6. CountIsExact'
  BY <1>2 DEF IInv, CountIsExact, closed
<1>7. OneOwner'
  BY DEF IInv, OneOwner, Queued, Held
<1>8. NoOrphanEngine'
  BY <1>3 DEF IInv, NoOrphanEngine, Queued
<1>9. TaintedNeverServes'
  BY DEF IInv, TaintedNeverServes, Queued
<1>10. LostSlotsAccounted'
  BY <1>2 DEF IInv, LostSlotsAccounted, closed
<1>. QED  BY <1>4, <1>5, <1>6, <1>7, <1>8, <1>9, <1>10 DEF IInv

\* What a request has in its hands, if anything, nobody else has.
LEMMA HandsApart ==
  ASSUME IInv, NEW c \in Caller
  PROVE  /\ held[c] \notin Queued \cup ({healEngine, closeEngine} \ {NoEngine})
         /\ held[c] \notin stray
         /\ NoEngine \notin up
<1>1. NoEngine \notin up /\ NoEngine \notin Queued /\ NoEngine \notin stray
  BY PoolAssumption DEF IInv, TypeOK, NoOrphanEngine
<1>2. CASE held[c] = NoEngine
  BY <1>1, <1>2
<1>3. CASE held[c] # NoEngine
  <2>1. held[c] \in Held
    BY <1>3 DEF Held
  <2>. QED  BY <1>1, <2>1 DEF IInv, OneOwner
<1>. QED  BY <1>2, <1>3

\* The engine of a task that holds one is running, and nobody else has it.
LEMMA HolderOwns ==
  ASSUME IInv, NEW c \in Caller, pc[c] \in HolderPC
  PROVE  /\ held[c] \in Engine /\ held[c] \in up /\ held[c] \notin Queued
         /\ held[c] \notin {healEngine, closeEngine} /\ held[c] \notin stray
<1>1. held[c] # NoEngine
  BY DEF IInv, HandsOK
<1>2. held[c] \in Engine
  BY <1>1 DEF IInv, TypeOK
<1>3. held[c] \in Held
  BY <1>1 DEF Held
<1>4. held[c] \in up
  BY <1>3 DEF IInv, NoOrphanEngine
<1>5. /\ held[c] \notin Queued /\ held[c] \notin {healEngine, closeEngine}
      /\ held[c] \notin stray
  BY <1>3 DEF IInv, OneOwner
<1>. QED  BY <1>2, <1>4, <1>5

\* A busy request holds an engine that is not queued, so the queue has room for it.
LEMMA FinishStep ==
  ASSUME IInv, NEW c \in Caller, Finish(c)
  PROVE  IInv'
<1>. USE DEF Finish, Goto, Hold, PutBack, healVars, closeVars, procVars
<1>1. /\ Len(queue) \in Nat /\ aliveCount \in 0..Target /\ Target \in Nat
      /\ abandoned \in Nat
      /\ TypeOK /\ OneOwner
  BY PoolAssumption DEF IInv, TypeOK
<1>0. /\ held[c] \in Engine /\ held[c] \in up /\ held[c] \notin Queued
      /\ held[c] \notin {healEngine, closeEngine} /\ held[c] \notin stray
  BY HolderOwns DEF HolderPC
<1>2. /\ Cardinality(Busy) \in Nat
      /\ Cardinality(Busy') = Cardinality(Busy) - 1
      /\ Cardinality(Recovering) \in Nat
      /\ Cardinality(Recovering') = Cardinality(Recovering)
      /\ Cardinality(Busy) >= 1
  BY <1>1, BusyCount, RecoveringCount DEF CallerPC, RecoveringPC
<1>3. Len(queue) < Target
  BY <1>1, <1>2 DEF IInv, CountIsExact
<1>4. /\ queue' \in Seq(Engine) /\ Len(queue') = Len(queue) + 1
      /\ IsInjective(queue') /\ Queued' = Queued \cup {held[c]}
  BY <1>0, <1>1, <1>3, AppendDistinct DEF TypeOK, OneOwner, Queued
<1>5. Held' = Held \ {held[c]}
  BY <1>1, HeldDrop DEF Hold
<1>6. TypeOK'
  BY DEF IInv, TypeOK, HandsOK, HolderPC, CallerPC, HealerPC, CloserPC, Queued,
     Held, NoOrphanEngine, LostSlotsAccounted, CountIsExact, closed
<1>7. HandsOK'
  BY DEF IInv, TypeOK, HandsOK, HolderPC, closed
<1>8. CountIsExact'
  BY <1>2, <1>4 DEF IInv, CountIsExact, closed
<1>9. OneOwner'
  <2>1. IsInjective(queue')
    BY <1>4
  <2>2. \A b, d \in Caller : held'[b] = held'[d] /\ held'[b] # NoEngine => b = d
    BY DEF IInv, OneOwner
  <2>3. Queued' \cap Held' = {}
    BY <1>4, <1>5 DEF IInv, OneOwner, NoOrphanEngine
  <2>4. {healEngine', closeEngine'} \cap (Queued' \cup Held') = {}
    BY <1>0, <1>4, <1>5 DEF IInv, OneOwner, NoOrphanEngine
  <2>5. healEngine' = closeEngine' => healEngine' = NoEngine
    BY DEF IInv, OneOwner
  <2>6. stray' \cap (Queued' \cup Held' \cup {healEngine', closeEngine'}) = {}
    BY <1>0, <1>4, <1>5 DEF IInv, OneOwner
  <2>. QED  BY <2>1, <2>2, <2>3, <2>4, <2>5, <2>6 DEF OneOwner
<1>10. NoOrphanEngine'
  BY <1>0, <1>4, <1>5 DEF IInv, NoOrphanEngine, Queued
<1>11. TaintedNeverServes'
  BY <1>4 DEF IInv, TypeOK, TaintedNeverServes, NoOrphanEngine, Queued, Held
<1>12. LostSlotsAccounted'
  BY <1>2 DEF IInv, LostSlotsAccounted, closed
<1>. QED  BY <1>6, <1>7, <1>8, <1>9, <1>10, <1>11, <1>12 DEF IInv

\* The failing request still holds the engine; only the count moves.
LEMMA TransportErrorStep ==
  ASSUME IInv, NEW c \in Caller, TransportError(c)
  PROVE  IInv'
<1>. USE DEF TransportError, Goto, LoseSlot, healVars, closeVars
<1>1. /\ Len(queue) \in Nat /\ aliveCount \in 0..Target /\ Target \in Nat
      /\ abandoned \in Nat
      /\ TypeOK /\ OneOwner
  BY PoolAssumption DEF IInv, TypeOK
<1>2. /\ Cardinality(Busy) \in Nat
      /\ Cardinality(Busy') = Cardinality(Busy) - 1
      /\ Cardinality(Recovering) \in Nat
      /\ Cardinality(Recovering') = Cardinality(Recovering) + 1
      /\ Cardinality(Busy) >= 1
  BY <1>1, BusyCount, RecoveringCount DEF CallerPC, RecoveringPC
<1>3. ~closed => aliveCount >= 1
  BY <1>2 DEF IInv, CountIsExact
<1>4. Held' = Held
  BY DEF Held
<1>5. TypeOK'
  BY <1>1 DEF IInv, TypeOK, HandsOK, HolderPC, CallerPC, HealerPC, CloserPC,
     Queued, Held, NoOrphanEngine, LostSlotsAccounted, CountIsExact, closed
<1>6. HandsOK'
  BY DEF IInv, HandsOK, HolderPC
<1>7. CountIsExact'
  BY <1>1, <1>2 DEF IInv, CountIsExact, closed
<1>8. OneOwner'
  BY DEF IInv, OneOwner, Queued, Held
<1>9. NoOrphanEngine'
  BY <1>4 DEF IInv, NoOrphanEngine, Queued
<1>10. TaintedNeverServes'
  BY DEF IInv, TypeOK, HandsOK, HolderPC, OneOwner, TaintedNeverServes,
     NoOrphanEngine, Queued, Held
<1>11. LostSlotsAccounted'
  <2>. SUFFICES ASSUME ~closed, healer = "off"
                PROVE  aliveCount' + Cardinality(Recovering') + abandoned' = Target
    BY DEF LostSlotsAccounted, closed
  <2>1. aliveCount + Cardinality(Recovering) + abandoned = Target
    BY DEF IInv, LostSlotsAccounted
  <2>2. aliveCount' = aliveCount - 1 /\ abandoned' = abandoned
    BY <1>3
  <2>. QED  BY <1>1, <1>2, <2>1, <2>2
<1>. QED  BY <1>5, <1>6, <1>7, <1>8, <1>9, <1>10, <1>11 DEF IInv

\* As above; the engine is tainted, but in nobody else's hands.
LEMMA CancelRunStep ==
  ASSUME IInv, NEW c \in Caller, CancelRun(c)
  PROVE  IInv'
<1>. USE DEF CancelRun, Goto, LoseSlot, healVars, closeVars
<1>1. /\ Len(queue) \in Nat /\ aliveCount \in 0..Target /\ Target \in Nat
      /\ abandoned \in Nat
      /\ TypeOK /\ OneOwner
  BY PoolAssumption DEF IInv, TypeOK
<1>2. /\ Cardinality(Busy) \in Nat
      /\ Cardinality(Busy') = Cardinality(Busy) - 1
      /\ Cardinality(Recovering) \in Nat
      /\ Cardinality(Recovering') = Cardinality(Recovering) + 1
      /\ Cardinality(Busy) >= 1
  BY <1>1, BusyCount, RecoveringCount DEF CallerPC, RecoveringPC
<1>3. ~closed => aliveCount >= 1
  BY <1>2 DEF IInv, CountIsExact
<1>4. Held' = Held
  BY DEF Held
<1>5. TypeOK'
  BY <1>1 DEF IInv, TypeOK, HandsOK, HolderPC, CallerPC, HealerPC, CloserPC,
     Queued, Held, NoOrphanEngine, LostSlotsAccounted, CountIsExact, closed
<1>6. HandsOK'
  BY DEF IInv, HandsOK, HolderPC
<1>7. CountIsExact'
  BY <1>1, <1>2 DEF IInv, CountIsExact, closed
<1>8. OneOwner'
  BY DEF IInv, OneOwner, Queued, Held
<1>9. NoOrphanEngine'
  BY <1>4 DEF IInv, NoOrphanEngine, Queued
<1>10. TaintedNeverServes'
  BY DEF IInv, TypeOK, HandsOK, HolderPC, OneOwner, TaintedNeverServes,
     NoOrphanEngine, Queued, Held
<1>11. LostSlotsAccounted'
  <2>. SUFFICES ASSUME ~closed, healer = "off"
                PROVE  aliveCount' + Cardinality(Recovering') + abandoned' = Target
    BY DEF LostSlotsAccounted, closed
  <2>1. aliveCount + Cardinality(Recovering) + abandoned = Target
    BY DEF IInv, LostSlotsAccounted
  <2>2. aliveCount' = aliveCount - 1 /\ abandoned' = abandoned
    BY <1>3
  <2>. QED  BY <1>1, <1>2, <2>1, <2>2
<1>. QED  BY <1>5, <1>6, <1>7, <1>8, <1>9, <1>10, <1>11 DEF IInv

\* The dead engine was held by this request alone, so closing it robs nobody.
LEMMA DroppedStep ==
  ASSUME IInv, NEW c \in Caller, Dropped(c)
  PROVE  IInv'
<1>. USE DEF Dropped, Goto, Hold, Discarded, slotVars, healVars, closeVars
<1>1. /\ Len(queue) \in Nat /\ aliveCount \in 0..Target /\ Target \in Nat
      /\ abandoned \in Nat
      /\ TypeOK /\ OneOwner
  BY PoolAssumption DEF IInv, TypeOK
<1>0. /\ held[c] \notin Queued \cup ({healEngine, closeEngine} \ {NoEngine})
      /\ held[c] \notin stray
  BY HandsApart
<1>2. /\ Cardinality(Busy) \in Nat
      /\ Cardinality(Busy') = Cardinality(Busy)
      /\ Cardinality(Recovering) \in Nat
      /\ Cardinality(Recovering') = Cardinality(Recovering)
      /\ Cardinality(Recovering) >= 1
  BY <1>1, BusyCount, RecoveringCount DEF CallerPC, RecoveringPC
<1>3. Held' = Held \ {held[c]}
  BY <1>1, HeldDrop DEF Hold
<1>4. TypeOK'
  BY DEF IInv, TypeOK, CallerPC, CountIsExact, closed
<1>5. HandsOK'
  BY DEF IInv, TypeOK, HandsOK, HolderPC
<1>6. CountIsExact'
  BY <1>2 DEF IInv, CountIsExact, closed
<1>7. OneOwner'
  BY DEF IInv, OneOwner, Queued, Held
<1>8. NoOrphanEngine'
  BY <1>0, <1>3 DEF IInv, NoOrphanEngine, Queued
<1>9. TaintedNeverServes'
  BY DEF IInv, TaintedNeverServes, Queued
<1>10. LostSlotsAccounted'
  BY <1>2 DEF IInv, LostSlotsAccounted, closed
<1>. QED  BY <1>4, <1>5, <1>6, <1>7, <1>8, <1>9, <1>10 DEF IInv

\* A fresh engine did not run before, so nobody had it.
LEMMA RespawnedStep ==
  ASSUME IInv, NEW c \in Caller, Respawned(c)
  PROVE  IInv'
<1>. USE DEF Respawned, Goto, Hold, slotVars, healVars, closeVars
<1>1. /\ Len(queue) \in Nat /\ aliveCount \in 0..Target /\ Target \in Nat
      /\ abandoned \in Nat
      /\ TypeOK /\ OneOwner
  BY PoolAssumption DEF IInv, TypeOK
<1>2. /\ Cardinality(Busy) \in Nat
      /\ Cardinality(Busy') = Cardinality(Busy)
      /\ Cardinality(Recovering) \in Nat
      /\ Cardinality(Recovering') = Cardinality(Recovering)
      /\ Cardinality(Recovering) >= 1
  BY <1>1, BusyCount, RecoveringCount DEF CallerPC, RecoveringPC
<1>3. PICK e \in Engine \ up : up' = up \cup {e} /\ held' = [held EXCEPT ![c] = e]
  BY <1>1, FreshIsFree DEF TypeOK
<1>4. Held' = Held \cup {e}
  BY <1>3, HeldTake DEF IInv, HandsOK, HolderPC
<1>5. TypeOK'
  BY <1>3 DEF IInv, TypeOK, CallerPC, CountIsExact, closed
<1>6. HandsOK'
  BY PoolAssumption, <1>3 DEF IInv, TypeOK, HandsOK, HolderPC, closed
<1>7. CountIsExact'
  BY <1>2 DEF IInv, CountIsExact, closed
<1>8. OneOwner'
  BY PoolAssumption, <1>2, <1>3, <1>4 DEF IInv, TypeOK, HandsOK, HolderPC,
     OneOwner, NoOrphanEngine, Queued, Held
<1>9. NoOrphanEngine'
  BY <1>3, <1>4 DEF IInv, NoOrphanEngine, Queued
<1>10. TaintedNeverServes'
  BY <1>3 DEF IInv, TypeOK, TaintedNeverServes, NoOrphanEngine, Queued, Held
<1>11. LostSlotsAccounted'
  BY <1>2 DEF IInv, LostSlotsAccounted, closed
<1>. QED  BY <1>5, <1>6, <1>7, <1>8, <1>9, <1>10, <1>11 DEF IInv

\* The lost slot passes from the recovery to the self-heal task.
LEMMA RespawnFailedStep ==
  ASSUME IInv, NEW c \in Caller, RespawnFailed(c)
  PROVE  IInv'
<1>. USE DEF RespawnFailed, Goto, StartSelfHeal, slotVars, closeVars
<1>1. /\ Len(queue) \in Nat /\ aliveCount \in 0..Target /\ Target \in Nat
      /\ abandoned \in Nat
      /\ TypeOK /\ OneOwner
  BY PoolAssumption DEF IInv, TypeOK
<1>2. /\ Cardinality(Busy) \in Nat
      /\ Cardinality(Busy') = Cardinality(Busy)
      /\ Cardinality(Recovering) \in Nat
      /\ Cardinality(Recovering') = Cardinality(Recovering) - 1
      /\ Cardinality(Recovering) >= 1
  BY <1>1, BusyCount, RecoveringCount DEF CallerPC, RecoveringPC
<1>3. Held' = Held
  BY DEF Held
<1>0. /\ tainted' = tainted
      /\ \E some \in SUBSET (Engine \ up) :
           up' = up \cup some /\ stray' = stray \cup some
  BY <1>1, AbortedCreate
<1>4. TypeOK'
  BY <1>0 DEF IInv, TypeOK, CallerPC, HealerPC, LostSlotsAccounted, CountIsExact,
     closed
<1>5. HandsOK'
  BY DEF IInv, HandsOK, HolderPC, closed
<1>6. CountIsExact'
  BY <1>2 DEF IInv, CountIsExact, closed
<1>7. OneOwner'
  BY PoolAssumption, <1>0 DEF IInv, TypeOK, OneOwner, NoOrphanEngine, Queued, Held
<1>8. NoOrphanEngine'
  BY <1>0, <1>3 DEF IInv, NoOrphanEngine, Queued
<1>9. TaintedNeverServes'
  BY <1>0 DEF IInv, TaintedNeverServes, Queued
<1>10. LostSlotsAccounted'
  BY DEF CountIsExact, LostSlotsAccounted, closed
<1>. QED  BY <1>4, <1>5, <1>6, <1>7, <1>8, <1>9, <1>10 DEF IInv

\* The slot was free when the engine was accepted, so count and queue grow by one.
LEMMA RetryAcceptedStep ==
  ASSUME IInv, NEW c \in Caller, RetryAccepted(c)
  PROVE  IInv'
<1>. USE DEF RetryAccepted, Goto, Hold, CanAccept, AcceptFresh, healVars,
   closeVars, procVars
<1>1. /\ Len(queue) \in Nat /\ aliveCount \in 0..Target /\ Target \in Nat
      /\ abandoned \in Nat
      /\ TypeOK /\ OneOwner
  BY PoolAssumption DEF IInv, TypeOK
<1>0. /\ held[c] \in Engine /\ held[c] \in up /\ held[c] \notin Queued
      /\ held[c] \notin {healEngine, closeEngine} /\ held[c] \notin stray
  BY HolderOwns DEF HolderPC
<1>2. /\ Cardinality(Busy) \in Nat
      /\ Cardinality(Busy') = Cardinality(Busy)
      /\ Cardinality(Recovering) \in Nat
      /\ Cardinality(Recovering') = Cardinality(Recovering) - 1
      /\ Cardinality(Recovering) >= 1
  BY <1>1, BusyCount, RecoveringCount DEF CallerPC, RecoveringPC
<1>3. ~closed /\ aliveCount < Target /\ aliveCount = Len(queue) + Cardinality(Busy)
  BY DEF IInv, CountIsExact
<1>4. /\ queue' \in Seq(Engine) /\ Len(queue') = Len(queue) + 1
      /\ IsInjective(queue') /\ Queued' = Queued \cup {held[c]}
  BY <1>0, <1>1, AppendDistinct DEF TypeOK, OneOwner, Queued
<1>5. Held' = Held \ {held[c]}
  BY <1>1, HeldDrop DEF Hold
<1>6. TypeOK'
  BY <1>1 DEF IInv, TypeOK, HandsOK, HolderPC, CallerPC, HealerPC, CloserPC,
     Queued, Held, NoOrphanEngine, LostSlotsAccounted, CountIsExact, closed
<1>7. HandsOK'
  BY DEF IInv, TypeOK, HandsOK, HolderPC
<1>8. CountIsExact'
  <2>1. Len(queue') + Cardinality(Busy') = aliveCount'
    BY <1>2, <1>3
  <2>. QED  BY <1>1, <1>0, <1>2, <1>3, <1>4, <1>5, <2>1 DEF CountIsExact
<1>9. OneOwner'
  <2>1. IsInjective(queue')
    BY <1>4
  <2>2. \A b, d \in Caller : held'[b] = held'[d] /\ held'[b] # NoEngine => b = d
    BY DEF IInv, OneOwner
  <2>3. Queued' \cap Held' = {}
    BY <1>4, <1>5 DEF IInv, OneOwner, NoOrphanEngine
  <2>4. {healEngine', closeEngine'} \cap (Queued' \cup Held') = {}
    BY <1>0, <1>4, <1>5 DEF IInv, OneOwner, NoOrphanEngine
  <2>5. healEngine' = closeEngine' => healEngine' = NoEngine
    BY DEF IInv, OneOwner
  <2>6. stray' \cap (Queued' \cup Held' \cup {healEngine', closeEngine'}) = {}
    BY <1>0, <1>4, <1>5 DEF IInv, OneOwner
  <2>. QED  BY <2>1, <2>2, <2>3, <2>4, <2>5, <2>6 DEF OneOwner
<1>10. NoOrphanEngine'
  BY <1>0, <1>4, <1>5 DEF IInv, NoOrphanEngine, Queued
<1>11. TaintedNeverServes'
  BY <1>4 DEF IInv, TypeOK, TaintedNeverServes, NoOrphanEngine, Queued, Held
<1>12. LostSlotsAccounted'
  BY <1>2 DEF IInv, CountIsExact, LostSlotsAccounted
<1>. QED  BY <1>6, <1>7, <1>8, <1>9, <1>10, <1>11, <1>12 DEF IInv

\* The refused engine stays in the hand that is going to close it.
LEMMA RetryRefusedStep ==
  ASSUME IInv, NEW c \in Caller, RetryRefused(c)
  PROVE  IInv'
<1>. USE DEF RetryRefused, Goto, CanAccept, slotVars, healVars, closeVars,
   procVars
<1>1. /\ Len(queue) \in Nat /\ aliveCount \in 0..Target /\ Target \in Nat
      /\ abandoned \in Nat
      /\ TypeOK /\ OneOwner
  BY PoolAssumption DEF IInv, TypeOK
<1>2. /\ Cardinality(Busy) \in Nat
      /\ Cardinality(Busy') = Cardinality(Busy)
      /\ Cardinality(Recovering) \in Nat
      /\ Cardinality(Recovering') = Cardinality(Recovering) - 1
      /\ Cardinality(Recovering) >= 1
  BY <1>1, BusyCount, RecoveringCount DEF CallerPC, RecoveringPC
<1>3. Held' = Held
  BY DEF Held
<1>4. TypeOK'
  BY DEF IInv, TypeOK, CallerPC
<1>5. HandsOK'
  BY DEF IInv, HandsOK, HolderPC
<1>6. CountIsExact'
  BY <1>2 DEF IInv, CountIsExact, closed
<1>7. OneOwner'
  BY DEF IInv, OneOwner, Queued, Held
<1>8. NoOrphanEngine'
  BY <1>3 DEF IInv, NoOrphanEngine, Queued
<1>9. TaintedNeverServes'
  BY DEF IInv, TaintedNeverServes, Queued
<1>10. LostSlotsAccounted'
  BY <1>1, <1>2 DEF IInv, CountIsExact, LostSlotsAccounted, closed
<1>. QED  BY <1>4, <1>5, <1>6, <1>7, <1>8, <1>9, <1>10 DEF IInv

\* An engine that fails in its first use is tainted in the hand of its request.
LEMMA RetryFailedStep ==
  ASSUME IInv, NEW c \in Caller, RetryFailed(c)
  PROVE  IInv'
<1>. USE DEF RetryFailed, Goto, slotVars, healVars, closeVars
<1>1. /\ Len(queue) \in Nat /\ aliveCount \in 0..Target /\ Target \in Nat
      /\ abandoned \in Nat
      /\ TypeOK /\ OneOwner
  BY PoolAssumption DEF IInv, TypeOK
<1>2. /\ Cardinality(Busy) \in Nat
      /\ Cardinality(Busy') = Cardinality(Busy)
      /\ Cardinality(Recovering) \in Nat
      /\ Cardinality(Recovering') = Cardinality(Recovering)
      /\ Cardinality(Recovering) >= 1
  BY <1>1, BusyCount, RecoveringCount DEF CallerPC, RecoveringPC
<1>3. Held' = Held
  BY DEF Held
<1>4. TypeOK'
  BY DEF IInv, TypeOK, HandsOK, HolderPC, CallerPC, HealerPC, CloserPC, Queued,
     Held, NoOrphanEngine, LostSlotsAccounted, CountIsExact, closed
<1>5. HandsOK'
  BY DEF IInv, HandsOK, HolderPC
<1>6. CountIsExact'
  BY <1>2 DEF IInv, CountIsExact, closed
<1>7. OneOwner'
  BY DEF IInv, OneOwner, Queued, Held
<1>8. NoOrphanEngine'
  BY <1>3 DEF IInv, NoOrphanEngine, Queued
<1>9. TaintedNeverServes'
  BY DEF IInv, TypeOK, HandsOK, HolderPC, OneOwner, TaintedNeverServes,
     NoOrphanEngine, Queued, Held
<1>10. LostSlotsAccounted'
  BY <1>2 DEF IInv, LostSlotsAccounted, closed
<1>. QED  BY <1>4, <1>5, <1>6, <1>7, <1>8, <1>9, <1>10 DEF IInv

\* Closing a refused engine empties the hand that held it.
LEMMA ReturnedStep ==
  ASSUME IInv, NEW c \in Caller, Returned(c)
  PROVE  IInv'
<1>. USE DEF Returned, Goto, Hold, Discarded, slotVars, healVars, closeVars
<1>1. /\ Len(queue) \in Nat /\ aliveCount \in 0..Target /\ Target \in Nat
      /\ abandoned \in Nat
      /\ TypeOK /\ OneOwner
  BY PoolAssumption DEF IInv, TypeOK
<1>0. /\ held[c] \notin Queued \cup ({healEngine, closeEngine} \ {NoEngine})
      /\ held[c] \notin stray
  BY HandsApart
<1>2. /\ Cardinality(Busy) \in Nat
      /\ Cardinality(Busy') = Cardinality(Busy)
      /\ Cardinality(Recovering) \in Nat
      /\ Cardinality(Recovering') = Cardinality(Recovering)
  BY <1>1, BusyCount, RecoveringCount DEF CallerPC, RecoveringPC
<1>3. Held' = Held \ {held[c]}
  BY <1>1, HeldDrop DEF Hold
<1>4. TypeOK'
  BY DEF IInv, TypeOK, CallerPC, CountIsExact, closed
<1>5. HandsOK'
  BY DEF IInv, TypeOK, HandsOK, HolderPC
<1>6. CountIsExact'
  BY <1>2 DEF IInv, CountIsExact, closed
<1>7. OneOwner'
  BY DEF IInv, OneOwner, Queued, Held
<1>8. NoOrphanEngine'
  BY <1>0, <1>3 DEF IInv, NoOrphanEngine, Queued
<1>9. TaintedNeverServes'
  BY DEF IInv, TaintedNeverServes, Queued
<1>10. LostSlotsAccounted'
  BY <1>2 DEF IInv, LostSlotsAccounted, closed
<1>. QED  BY <1>4, <1>5, <1>6, <1>7, <1>8, <1>9, <1>10 DEF IInv

\* The tainted engine is gone before the self-heal task hears of the slot.
LEMMA CleanedUpStep ==
  ASSUME IInv, NEW c \in Caller, CleanedUp(c)
  PROVE  IInv'
<1>. USE DEF CleanedUp, Goto, Hold, Discarded, StartSelfHeal, slotVars, closeVars
<1>1. /\ Len(queue) \in Nat /\ aliveCount \in 0..Target /\ Target \in Nat
      /\ abandoned \in Nat
      /\ TypeOK /\ OneOwner
  BY PoolAssumption DEF IInv, TypeOK
<1>0. /\ held[c] \notin Queued \cup ({healEngine, closeEngine} \ {NoEngine})
      /\ held[c] \notin stray
  BY HandsApart
<1>2. /\ Cardinality(Busy) \in Nat
      /\ Cardinality(Busy') = Cardinality(Busy)
      /\ Cardinality(Recovering) \in Nat
      /\ Cardinality(Recovering') = Cardinality(Recovering) - 1
      /\ Cardinality(Recovering) >= 1
  BY <1>1, BusyCount, RecoveringCount DEF CallerPC, RecoveringPC
<1>3. Held' = Held \ {held[c]}
  BY <1>1, HeldDrop DEF Hold
<1>4. TypeOK'
  BY DEF IInv, TypeOK, CallerPC, HealerPC, Held, NoOrphanEngine,
     LostSlotsAccounted, CountIsExact, closed
<1>5. HandsOK'
  BY DEF IInv, TypeOK, HandsOK, HolderPC, closed
<1>6. CountIsExact'
  BY <1>2 DEF IInv, CountIsExact, closed
<1>7. OneOwner'
  BY DEF IInv, OneOwner, Queued, Held
<1>8. NoOrphanEngine'
  BY <1>0, <1>3 DEF IInv, NoOrphanEngine, Queued
<1>9. TaintedNeverServes'
  BY DEF IInv, TaintedNeverServes, Queued
<1>10. LostSlotsAccounted'
  BY DEF LostSlotsAccounted, closed
<1>. QED  BY <1>4, <1>5, <1>6, <1>7, <1>8, <1>9, <1>10 DEF IInv

\* A cancelled recovery is the one way to lose a slot, and abandoned counts it.
LEMMA CancelRecoveryStep ==
  ASSUME IInv, NEW c \in Caller, CancelRecovery(c)
  PROVE  IInv'
<1>. USE DEF CancelRecovery, Goto, Hold, slotVars, healVars, closeVars
<1>1. /\ Len(queue) \in Nat /\ aliveCount \in 0..Target /\ Target \in Nat
      /\ abandoned \in Nat
      /\ TypeOK /\ OneOwner
  BY PoolAssumption DEF IInv, TypeOK
<1>0. /\ held[c] \notin Queued \cup ({healEngine, closeEngine} \ {NoEngine})
      /\ held[c] \notin stray
      /\ pc[c] \in RecoveringPC /\ pc[c] # "busy" /\ NoEngine \notin up
  BY HandsApart DEF RecoveringPC
<1>2. /\ Cardinality(Busy) \in Nat
      /\ Cardinality(Busy') = Cardinality(Busy)
      /\ Cardinality(Recovering) \in Nat
      /\ Cardinality(Recovering') = Cardinality(Recovering) - 1
      /\ Cardinality(Recovering) >= 1
  BY <1>1, BusyCount, RecoveringCount DEF CallerPC, RecoveringPC
<1>3. ~closed /\ healer = "off" => abandoned' = abandoned + 1
  OBVIOUS
<1>4. Held' = Held \ {held[c]}
  BY <1>1, HeldDrop DEF Hold
<1>12. /\ tainted' = tainted \ {held[c]}
       /\ \E some \in SUBSET (Engine \ up) :
            up' = (up \ {held[c]}) \cup some /\ stray' = stray \cup some
  <2>1. CASE pc[c] \in {"dropping", "cleanup"} /\ Discarded(held[c])
    <3>1. /\ up' = (up \ {held[c]}) \cup {} /\ stray' = stray \cup {}
          /\ {} \in SUBSET (Engine \ up)
      BY <2>1 DEF Discarded
    <3>. QED  BY <2>1, <3>1 DEF Discarded
  <2>2. CASE pc[c] = "spawning" /\ CreateAborted
    <3>1. held[c] = NoEngine /\ up \ {held[c]} = up /\ tainted \ {held[c]} = tainted
      BY PoolAssumption, <2>2 DEF IInv, TypeOK, HandsOK, HolderPC
    <3>. QED  BY <1>1, <2>2, <3>1, AbortedCreate
  <2>. QED  BY <2>1, <2>2
<1>5. TypeOK'
  BY <1>2, <1>12 DEF IInv, TypeOK, CallerPC, Queued, Held, NoOrphanEngine,
     LostSlotsAccounted, CountIsExact, closed
<1>6. HandsOK'
  BY DEF IInv, TypeOK, HandsOK, HolderPC
<1>7. CountIsExact'
  BY <1>2 DEF IInv, CountIsExact, closed
<1>8. OneOwner'
  BY PoolAssumption, <1>12 DEF IInv, TypeOK, OneOwner, NoOrphanEngine, Queued,
     Held
<1>9. NoOrphanEngine'
  BY <1>0, <1>4, <1>12 DEF IInv, NoOrphanEngine, Queued
<1>10. TaintedNeverServes'
  BY <1>12 DEF IInv, TaintedNeverServes, Queued
<1>11. LostSlotsAccounted'
  <2>. SUFFICES ASSUME ~closed, healer = "off"
                PROVE  aliveCount' + Cardinality(Recovering') + abandoned' = Target
    BY DEF LostSlotsAccounted, closed
  <2>1. aliveCount + Cardinality(Recovering) + abandoned = Target
    BY DEF IInv, LostSlotsAccounted
  <2>2. aliveCount' = aliveCount /\ abandoned' = abandoned + 1
    OBVIOUS
  <2>. QED  BY <1>1, <1>2, <2>1, <2>2
<1>. QED  BY <1>5, <1>6, <1>7, <1>8, <1>9, <1>10, <1>11 DEF IInv

\* The self-heal task.  A round holds no engine yet.
LEMMA HealRoundStep ==
  ASSUME IInv, HealRound
  PROVE  IInv'
<1>. USE DEF HealRound, slotVars, callerVars, closeVars, procVars
<1>1. /\ Len(queue) \in Nat /\ aliveCount \in 0..Target /\ Target \in Nat
      /\ abandoned \in Nat
      /\ TypeOK /\ OneOwner
  BY PoolAssumption DEF IInv, TypeOK
<1>2. /\ Busy' = Busy /\ Cardinality(Busy) \in Nat
      /\ Recovering' = Recovering /\ Cardinality(Recovering) \in Nat
  BY PoolAssumption, FS_Subset, FS_CardinalityType DEF Busy, Recovering,
     callerVars
<1>3. Held' = Held
  BY DEF Held
<1>4. TypeOK'
  BY DEF IInv, TypeOK, HealerPC, LostSlotsAccounted, CountIsExact, closed
<1>5. HandsOK'
  BY DEF IInv, HandsOK
<1>6. CountIsExact'
  BY <1>2 DEF IInv, CountIsExact
<1>7. OneOwner'
  BY DEF IInv, OneOwner, Queued, Held
<1>8. NoOrphanEngine'
  BY <1>3 DEF IInv, NoOrphanEngine, Queued
<1>9. TaintedNeverServes'
  BY DEF IInv, TaintedNeverServes, Queued
<1>10. LostSlotsAccounted'
  BY DEF LostSlotsAccounted
<1>. QED  BY <1>4, <1>5, <1>6, <1>7, <1>8, <1>9, <1>10 DEF IInv

\* A failed round leaves at most a stray engine.
LEMMA HealSpawnFailedStep ==
  ASSUME IInv, HealSpawnFailed
  PROVE  IInv'
<1>. USE DEF HealSpawnFailed, slotVars, callerVars, closeVars
<1>1. /\ Len(queue) \in Nat /\ aliveCount \in 0..Target /\ Target \in Nat
      /\ abandoned \in Nat
      /\ TypeOK /\ OneOwner
  BY PoolAssumption DEF IInv, TypeOK
<1>2. /\ Busy' = Busy /\ Cardinality(Busy) \in Nat
      /\ Recovering' = Recovering /\ Cardinality(Recovering) \in Nat
  BY PoolAssumption, FS_Subset, FS_CardinalityType DEF Busy, Recovering,
     callerVars
<1>3. Held' = Held
  BY DEF Held
<1>0. /\ tainted' = tainted
      /\ \E some \in SUBSET (Engine \ up) :
           up' = up \cup some /\ stray' = stray \cup some
  BY <1>1, AbortedCreate
<1>4. TypeOK'
  BY <1>0 DEF IInv, TypeOK, HealerPC, LostSlotsAccounted, CountIsExact, closed
<1>5. HandsOK'
  BY DEF IInv, HandsOK
<1>6. CountIsExact'
  BY <1>2 DEF IInv, CountIsExact
<1>7. OneOwner'
  BY PoolAssumption, <1>0 DEF IInv, TypeOK, OneOwner, NoOrphanEngine, Queued, Held
<1>8. NoOrphanEngine'
  BY <1>0, <1>3 DEF IInv, NoOrphanEngine, Queued
<1>9. TaintedNeverServes'
  BY <1>0 DEF IInv, TaintedNeverServes, Queued
<1>10. LostSlotsAccounted'
  BY DEF LostSlotsAccounted
<1>. QED  BY <1>4, <1>5, <1>6, <1>7, <1>8, <1>9, <1>10 DEF IInv

\* A fresh engine enters the queue and the count together.
LEMMA HealAcceptedStep ==
  ASSUME IInv, HealAccepted
  PROVE  IInv'
<1>. USE DEF HealAccepted, CanAccept, AcceptFresh, callerVars, closeVars
<1>1. /\ Len(queue) \in Nat /\ aliveCount \in 0..Target /\ Target \in Nat
      /\ abandoned \in Nat
      /\ TypeOK /\ OneOwner
  BY PoolAssumption DEF IInv, TypeOK
<1>2. /\ Busy' = Busy /\ Cardinality(Busy) \in Nat
      /\ Recovering' = Recovering /\ Cardinality(Recovering) \in Nat
  BY PoolAssumption, FS_Subset, FS_CardinalityType DEF Busy, Recovering,
     callerVars
<1>3. PICK e \in Engine \ up : up' = up \cup {e} /\ AcceptFresh(e)
  BY <1>1, FreshIsFree DEF TypeOK
<1>4. e \notin Queued
  BY DEF IInv, NoOrphanEngine
<1>5. /\ queue' \in Seq(Engine) /\ Len(queue') = Len(queue) + 1
      /\ IsInjective(queue') /\ Queued' = Queued \cup {e}
  BY <1>1, <1>3, <1>4, AppendDistinct DEF TypeOK, OneOwner, Queued
<1>6. Held' = Held
  BY DEF Held
<1>7. TypeOK'
  BY <1>1, <1>3 DEF TypeOK, HealerPC, Held, NoOrphanEngine, LostSlotsAccounted,
     CountIsExact, closed
<1>8. HandsOK'
  BY DEF IInv, HandsOK
<1>9. CountIsExact'
  BY <1>1, <1>2 DEF IInv, CountIsExact
<1>10. OneOwner'
  <2>1. IsInjective(queue')
    BY <1>5
  <2>2. \A b, d \in Caller : held'[b] = held'[d] /\ held'[b] # NoEngine => b = d
    BY DEF IInv, OneOwner
  <2>3. Queued' \cap Held' = {}
    BY <1>5, <1>6 DEF IInv, OneOwner, NoOrphanEngine
  <2>4. {healEngine', closeEngine'} \cap (Queued' \cup Held') = {}
    BY PoolAssumption, <1>5, <1>6 DEF IInv, OneOwner, NoOrphanEngine
  <2>5. healEngine' = closeEngine' => healEngine' = NoEngine
    BY DEF IInv, OneOwner
  <2>6. stray' \cap (Queued' \cup Held' \cup {healEngine', closeEngine'}) = {}
    BY PoolAssumption, <1>3, <1>5, <1>6 DEF IInv, TypeOK, OneOwner,
       NoOrphanEngine
  <2>. QED  BY <2>1, <2>2, <2>3, <2>4, <2>5, <2>6 DEF OneOwner
<1>11. NoOrphanEngine'
  BY <1>3, <1>5, <1>6 DEF IInv, NoOrphanEngine, Queued
<1>12. TaintedNeverServes'
  BY <1>5 DEF IInv, TypeOK, TaintedNeverServes, NoOrphanEngine, Queued, Held
<1>13. LostSlotsAccounted'
  BY DEF LostSlotsAccounted
<1>. QED  BY <1>7, <1>8, <1>9, <1>10, <1>11, <1>12, <1>13 DEF IInv

\* A fresh engine nobody needs is in the hand of the task only.
LEMMA HealRefusedStep ==
  ASSUME IInv, HealRefused
  PROVE  IInv'
<1>. USE DEF HealRefused, CanAccept, slotVars, callerVars, closeVars
<1>1. /\ Len(queue) \in Nat /\ aliveCount \in 0..Target /\ Target \in Nat
      /\ abandoned \in Nat
      /\ TypeOK /\ OneOwner
  BY PoolAssumption DEF IInv, TypeOK
<1>2. /\ Busy' = Busy /\ Cardinality(Busy) \in Nat
      /\ Recovering' = Recovering /\ Cardinality(Recovering) \in Nat
  BY PoolAssumption, FS_Subset, FS_CardinalityType DEF Busy, Recovering,
     callerVars
<1>3. PICK e \in Engine \ up : up' = up \cup {e} /\ healEngine' = e
  BY <1>1, FreshIsFree DEF TypeOK
<1>4. Held' = Held
  BY DEF Held
<1>5. TypeOK'
  BY <1>3 DEF IInv, TypeOK, HealerPC, Held, NoOrphanEngine, LostSlotsAccounted,
     CountIsExact, closed
<1>6. HandsOK'
  BY PoolAssumption, <1>3 DEF IInv, HandsOK
<1>7. CountIsExact'
  BY <1>2 DEF IInv, CountIsExact
<1>8. OneOwner'
  BY PoolAssumption, <1>3 DEF TypeOK, HandsOK, HolderPC, IInv, OneOwner, NoOrphanEngine, Queued, Held
<1>9. NoOrphanEngine'
  BY PoolAssumption, <1>3, <1>4 DEF IInv, HandsOK, HolderPC, OneOwner, NoOrphanEngine,
     Queued
<1>10. TaintedNeverServes'
  BY DEF IInv, TaintedNeverServes, Queued
<1>11. LostSlotsAccounted'
  BY DEF LostSlotsAccounted
<1>. QED  BY <1>5, <1>6, <1>7, <1>8, <1>9, <1>10, <1>11 DEF IInv

\* Closing it empties that hand.
LEMMA HealDiscardedStep ==
  ASSUME IInv, HealDiscarded
  PROVE  IInv'
<1>. USE DEF HealDiscarded, Discarded, slotVars, callerVars, closeVars
<1>1. /\ Len(queue) \in Nat /\ aliveCount \in 0..Target /\ Target \in Nat
      /\ abandoned \in Nat
      /\ TypeOK /\ OneOwner
  BY PoolAssumption DEF IInv, TypeOK
<1>2. /\ Busy' = Busy /\ Cardinality(Busy) \in Nat
      /\ Recovering' = Recovering /\ Cardinality(Recovering) \in Nat
  BY PoolAssumption, FS_Subset, FS_CardinalityType DEF Busy, Recovering,
     callerVars
<1>3. Held' = Held
  BY DEF Held
<1>4. TypeOK'
  BY DEF IInv, TypeOK, HealerPC, LostSlotsAccounted, CountIsExact, closed
<1>5. HandsOK'
  BY DEF IInv, HandsOK
<1>6. CountIsExact'
  BY <1>2 DEF IInv, CountIsExact
<1>7. OneOwner'
  BY DEF IInv, HandsOK, OneOwner, Queued, Held
<1>8. NoOrphanEngine'
  BY <1>3 DEF IInv, OneOwner, NoOrphanEngine, Queued
<1>9. TaintedNeverServes'
  BY DEF IInv, TaintedNeverServes, Queued
<1>10. LostSlotsAccounted'
  BY DEF LostSlotsAccounted
<1>. QED  BY <1>4, <1>5, <1>6, <1>7, <1>8, <1>9, <1>10 DEF IInv

\* The cancelled task takes the engine in its hand along.
LEMMA HealCancelledStep ==
  ASSUME IInv, HealCancelled
  PROVE  IInv'
<1>. USE DEF HealCancelled, slotVars, callerVars, closeVars
<1>1. /\ Len(queue) \in Nat /\ aliveCount \in 0..Target /\ Target \in Nat
      /\ abandoned \in Nat
      /\ TypeOK /\ OneOwner
  BY PoolAssumption DEF IInv, TypeOK
<1>0. NoEngine \notin up
  BY PoolAssumption DEF IInv, TypeOK
<1>2. /\ Busy' = Busy /\ Cardinality(Busy) \in Nat
      /\ Recovering' = Recovering /\ Cardinality(Recovering) \in Nat
  BY PoolAssumption, FS_Subset, FS_CardinalityType DEF Busy, Recovering,
     callerVars
<1>3. Held' = Held
  BY DEF Held
<1>11. /\ tainted' = tainted \ {healEngine}
       /\ \E some \in SUBSET (Engine \ up) :
            up' = (up \ {healEngine}) \cup some /\ stray' = stray \cup some
  <2>1. CASE healer # "spawning" /\ Discarded(healEngine)
    <3>1. /\ up' = (up \ {healEngine}) \cup {} /\ stray' = stray \cup {}
          /\ {} \in SUBSET (Engine \ up)
      BY <2>1 DEF Discarded
    <3>. QED  BY <2>1, <3>1 DEF Discarded
  <2>2. CASE healer = "spawning" /\ CreateAborted
    <3>1. healEngine = NoEngine /\ up \ {healEngine} = up
          /\ tainted \ {healEngine} = tainted
      BY <1>0, <2>2 DEF IInv, TypeOK, HandsOK
    <3>. QED  BY <1>1, <2>2, <3>1, AbortedCreate
  <2>. QED  BY <2>1, <2>2
<1>4. TypeOK'
  BY <1>0, <1>11 DEF IInv, TypeOK, HealerPC, Held, NoOrphanEngine, LostSlotsAccounted,
     CountIsExact, closed
<1>5. HandsOK'
  BY DEF IInv, HandsOK
<1>6. CountIsExact'
  BY <1>2 DEF IInv, CountIsExact, closed
<1>7. OneOwner'
  BY PoolAssumption, <1>0, <1>11 DEF IInv, TypeOK, HandsOK, OneOwner,
     NoOrphanEngine, Queued, Held
<1>8. NoOrphanEngine'
  BY <1>3, <1>11 DEF IInv, OneOwner, NoOrphanEngine, Queued
<1>9. TaintedNeverServes'
  BY <1>11 DEF IInv, TaintedNeverServes, Queued
<1>10. LostSlotsAccounted'
  BY DEF LostSlotsAccounted, closed
<1>. QED  BY <1>4, <1>5, <1>6, <1>7, <1>8, <1>9, <1>10 DEF IInv

\* close().  From here on the count is not spoken of.
LEMMA CloseStep ==
  ASSUME IInv, Close
  PROVE  IInv'
<1>. USE DEF Close, slotVars, callerVars, healVars, procVars
<1>1. /\ Len(queue) \in Nat /\ aliveCount \in 0..Target /\ Target \in Nat
      /\ abandoned \in Nat
      /\ TypeOK /\ OneOwner
  BY PoolAssumption DEF IInv, TypeOK
<1>2. /\ Busy' = Busy /\ Cardinality(Busy) \in Nat
      /\ Recovering' = Recovering /\ Cardinality(Recovering) \in Nat
  BY PoolAssumption, FS_Subset, FS_CardinalityType DEF Busy, Recovering,
     callerVars
<1>3. Held' = Held
  BY DEF Held
<1>4. TypeOK'
  BY DEF IInv, TypeOK, CloserPC
<1>5. HandsOK'
  BY DEF IInv, HandsOK
<1>6. CountIsExact'
  BY <1>2 DEF IInv, CountIsExact, closed
<1>7. OneOwner'
  BY DEF IInv, OneOwner, Queued, Held
<1>8. NoOrphanEngine'
  BY <1>3 DEF IInv, NoOrphanEngine, Queued
<1>9. TaintedNeverServes'
  BY DEF IInv, TaintedNeverServes, Queued
<1>10. LostSlotsAccounted'
  BY DEF CountIsExact, LostSlotsAccounted, closed
<1>. QED  BY <1>4, <1>5, <1>6, <1>7, <1>8, <1>9, <1>10 DEF IInv

\* Draining starts only when the self-heal task is gone.
LEMMA CloseJoinedStep ==
  ASSUME IInv, CloseJoined
  PROVE  IInv'
<1>. USE DEF CloseJoined, slotVars, callerVars, healVars, procVars
<1>1. /\ Len(queue) \in Nat /\ aliveCount \in 0..Target /\ Target \in Nat
      /\ abandoned \in Nat
      /\ TypeOK /\ OneOwner
  BY PoolAssumption DEF IInv, TypeOK
<1>2. /\ Busy' = Busy /\ Cardinality(Busy) \in Nat
      /\ Recovering' = Recovering /\ Cardinality(Recovering) \in Nat
  BY PoolAssumption, FS_Subset, FS_CardinalityType DEF Busy, Recovering,
     callerVars
<1>3. Held' = Held
  BY DEF Held
<1>4. TypeOK'
  BY DEF IInv, TypeOK, CloserPC
<1>5. HandsOK'
  BY DEF IInv, HandsOK
<1>6. CountIsExact'
  BY <1>2 DEF IInv, CountIsExact, closed
<1>7. OneOwner'
  BY DEF IInv, OneOwner, Queued, Held
<1>8. NoOrphanEngine'
  BY <1>3 DEF IInv, NoOrphanEngine, Queued
<1>9. TaintedNeverServes'
  BY DEF IInv, TaintedNeverServes, Queued
<1>10. LostSlotsAccounted'
  BY DEF CountIsExact, LostSlotsAccounted, closed
<1>. QED  BY <1>4, <1>5, <1>6, <1>7, <1>8, <1>9, <1>10 DEF IInv

\* The head of the queue moves into the hand of close().
LEMMA CloseNextStep ==
  ASSUME IInv, CloseNext
  PROVE  IInv'
<1>. USE DEF CloseNext, callerVars, healVars, procVars
<1>1. /\ Len(queue) \in Nat /\ aliveCount \in 0..Target /\ Target \in Nat
      /\ abandoned \in Nat
      /\ TypeOK /\ OneOwner
  BY PoolAssumption DEF IInv, TypeOK
<1>2. /\ Busy' = Busy /\ Cardinality(Busy) \in Nat
      /\ Recovering' = Recovering /\ Cardinality(Recovering) \in Nat
  BY PoolAssumption, FS_Subset, FS_CardinalityType DEF Busy, Recovering,
     callerVars
<1>3. /\ Head(queue) \in Queued /\ Head(queue) \in Engine
      /\ queue' \in Seq(Engine) /\ Len(queue') = Len(queue) - 1
      /\ IsInjective(queue') /\ Queued' = Queued \ {Head(queue)}
  BY <1>1, TailDistinct DEF TypeOK, OneOwner, Queued
<1>4. Held' = Held
  BY DEF Held
<1>5. TypeOK'
  BY DEF IInv, TypeOK, CloserPC, CountIsExact, closed
<1>6. HandsOK'
  BY PoolAssumption DEF IInv, TypeOK, HandsOK
<1>7. CountIsExact'
  BY <1>1, <1>2 DEF IInv, CountIsExact, closed
<1>8. OneOwner'
  <2>1. IsInjective(queue')
    BY <1>3
  <2>2. \A b, d \in Caller : held'[b] = held'[d] /\ held'[b] # NoEngine => b = d
    BY DEF IInv, OneOwner
  <2>3. Queued' \cap Held' = {}
    BY <1>3, <1>4 DEF IInv, OneOwner, NoOrphanEngine
  <2>4. {healEngine', closeEngine'} \cap (Queued' \cup Held') = {}
    BY <1>3, <1>4 DEF IInv, OneOwner
  <2>5. healEngine' = closeEngine' => healEngine' = NoEngine
    BY DEF IInv, HandsOK
  <2>6. stray' \cap (Queued' \cup Held' \cup {healEngine', closeEngine'}) = {}
    BY <1>3, <1>4 DEF IInv, OneOwner
  <2>. QED  BY <2>1, <2>2, <2>3, <2>4, <2>5, <2>6 DEF OneOwner
<1>9. NoOrphanEngine'
  BY <1>3, <1>4 DEF IInv, HandsOK, HolderPC, OneOwner, NoOrphanEngine, Queued
<1>10. TaintedNeverServes'
  BY <1>3 DEF IInv, TaintedNeverServes
<1>11. LostSlotsAccounted'
  BY DEF LostSlotsAccounted, closed
<1>. QED  BY <1>5, <1>6, <1>7, <1>8, <1>9, <1>10, <1>11 DEF IInv

\* Closing it empties that hand.
LEMMA CloseDiscardedStep ==
  ASSUME IInv, CloseDiscarded
  PROVE  IInv'
<1>. USE DEF CloseDiscarded, Discarded, slotVars, callerVars, healVars
<1>1. /\ Len(queue) \in Nat /\ aliveCount \in 0..Target /\ Target \in Nat
      /\ abandoned \in Nat
      /\ TypeOK /\ OneOwner
  BY PoolAssumption DEF IInv, TypeOK
<1>2. /\ Busy' = Busy /\ Cardinality(Busy) \in Nat
      /\ Recovering' = Recovering /\ Cardinality(Recovering) \in Nat
  BY PoolAssumption, FS_Subset, FS_CardinalityType DEF Busy, Recovering,
     callerVars
<1>3. Held' = Held
  BY DEF Held
<1>4. TypeOK'
  BY DEF IInv, TypeOK, CloserPC
<1>5. HandsOK'
  BY DEF IInv, HandsOK
<1>6. CountIsExact'
  BY <1>2 DEF IInv, CountIsExact, closed
<1>7. OneOwner'
  BY DEF IInv, HandsOK, OneOwner, Queued, Held
<1>8. NoOrphanEngine'
  BY <1>3 DEF IInv, OneOwner, NoOrphanEngine, Queued
<1>9. TaintedNeverServes'
  BY DEF IInv, TaintedNeverServes, Queued
<1>10. LostSlotsAccounted'
  BY DEF CountIsExact, LostSlotsAccounted, closed
<1>. QED  BY <1>4, <1>5, <1>6, <1>7, <1>8, <1>9, <1>10 DEF IInv

\* The count is cleared when the queue is empty.
LEMMA CloseDoneStep ==
  ASSUME IInv, CloseDone
  PROVE  IInv'
<1>. USE DEF CloseDone, callerVars, healVars, procVars
<1>1. /\ Len(queue) \in Nat /\ aliveCount \in 0..Target /\ Target \in Nat
      /\ abandoned \in Nat
      /\ TypeOK /\ OneOwner
  BY PoolAssumption DEF IInv, TypeOK
<1>2. /\ Busy' = Busy /\ Cardinality(Busy) \in Nat
      /\ Recovering' = Recovering /\ Cardinality(Recovering) \in Nat
  BY PoolAssumption, FS_Subset, FS_CardinalityType DEF Busy, Recovering,
     callerVars
<1>3. Held' = Held
  BY DEF Held
<1>4. TypeOK'
  BY <1>1 DEF TypeOK, CloserPC, CountIsExact, closed
<1>5. HandsOK'
  BY DEF IInv, HandsOK
<1>6. CountIsExact'
  BY <1>2 DEF IInv, CountIsExact, closed
<1>7. OneOwner'
  BY DEF IInv, OneOwner, Queued, Held
<1>8. NoOrphanEngine'
  BY <1>3 DEF IInv, NoOrphanEngine, Queued
<1>9. TaintedNeverServes'
  BY DEF IInv, TaintedNeverServes, Queued
<1>10. LostSlotsAccounted'
  BY DEF CountIsExact, LostSlotsAccounted, closed
<1>. QED  BY <1>4, <1>5, <1>6, <1>7, <1>8, <1>9, <1>10 DEF IInv
-----------------------------------------------------------------------------
\* The pool starts full, with every engine in the queue.
LEMMA InitIInv == Init => IInv
<1>. SUFFICES ASSUME Init PROVE IInv
  OBVIOUS
<1>1. /\ queue \in Seq(Engine) /\ Len(queue) = Target /\ IsInjective(queue)
      /\ Queued \subseteq Engine /\ Target \in Nat \ {0}
  BY PoolAssumption DEF Init, Injection, Queued, ToSet
<1>2. Busy = {} /\ Recovering = {} /\ Held = {}
  BY DEF Init, Busy, Recovering, RecoveringPC, Held
<1>3. Cardinality(Busy) = 0 /\ Cardinality(Recovering) = 0
  BY <1>2, FS_EmptySet
<1>4. TypeOK
  BY <1>1 DEF Init, TypeOK, CallerPC, HealerPC, CloserPC
<1>5. HandsOK
  BY DEF Init, HandsOK, HolderPC
<1>6. CountIsExact /\ LostSlotsAccounted
  BY <1>1, <1>3 DEF Init, CountIsExact, LostSlotsAccounted
<1>7. OneOwner /\ NoOrphanEngine
  BY PoolAssumption, <1>1, <1>2 DEF Init, OneOwner, NoOrphanEngine
<1>8. TaintedNeverServes
  BY DEF Init, TaintedNeverServes
<1>. QED  BY <1>4, <1>5, <1>6, <1>7, <1>8 DEF IInv

\* Every step preserves the invariant.
LEMMA NextIInv == IInv /\ [Next]_vars => IInv'
<1>. SUFFICES ASSUME IInv, [Next]_vars PROVE IInv'
  OBVIOUS
<1>1. ASSUME NEW c \in Caller, CallerStep(c) PROVE IInv'
  BY <1>1, RequestStep, AcquireStep, GiveUpStep, FinishStep, TransportErrorStep,
     CancelRunStep, DroppedStep, RespawnedStep, RespawnFailedStep,
     RetryAcceptedStep, RetryRefusedStep, RetryFailedStep, ReturnedStep,
     CleanedUpStep, CancelRecoveryStep
  DEF CallerStep
<1>2. ASSUME HealerStep PROVE IInv'
  BY <1>2, HealRoundStep, HealSpawnFailedStep, HealAcceptedStep,
     HealRefusedStep, HealDiscardedStep, HealCancelledStep
  DEF HealerStep
<1>3. ASSUME CloserStep PROVE IInv'
  BY <1>3, CloseStep, CloseJoinedStep, CloseNextStep, CloseDiscardedStep,
     CloseDoneStep
  DEF CloserStep
<1>4. CASE UNCHANGED vars
  <2>1. Busy' = Busy /\ Recovering' = Recovering /\ Held' = Held /\ Queued' = Queued
    BY <1>4 DEF vars, slotVars, callerVars, Busy, Recovering, Held, Queued
  <2>. QED  BY <1>4, <2>1 DEF vars, slotVars, callerVars, healVars, closeVars,
             procVars, IInv,
     TypeOK, HandsOK, CountIsExact, OneOwner, NoOrphanEngine,
     TaintedNeverServes, LostSlotsAccounted, closed
<1>. QED  BY <1>1, <1>2, <1>3, <1>4 DEF Next

\* The inductive invariant holds in every reachable state.
THEOREM Invariance == Spec => []IInv
BY InitIInv, NextIInv, PTL DEF Spec

\* The pool's variables stay in their types.
THEOREM TypeCorrect == Spec => []TypeOK
<1>1. IInv => TypeOK
  BY DEF IInv
<1>. QED  BY <1>1, Invariance, PTL

\* _alive_count is exact, putting an engine back never meets a full queue, and
\* slots are lost only to recoveries that were cancelled, one slot each.
THEOREM SlotsStayAccounted == Spec => []SlotsAccounted
<1>1. IInv => SlotsAccounted
  BY DEF IInv, SlotsAccounted
<1>. QED  BY <1>1, Invariance, PTL

\* No engine is ever in two hands, for any number of concurrent requests.
THEOREM ExclusiveEngines == Spec => []OneOwner
<1>1. IInv => OneOwner
  BY DEF IInv
<1>. QED  BY <1>1, Invariance, PTL

\* No running engine process is ever unreachable, but those whose create() did
\* not return.
THEOREM NoOrphans == Spec => []NoOrphanEngine
<1>1. IInv => NoOrphanEngine
  BY DEF IInv
<1>. QED  BY <1>1, Invariance, PTL

\* An engine cut off in a search never serves again.
THEOREM NoTaintedEngine == Spec => []TaintedNeverServes
<1>1. IInv => TaintedNeverServes
  BY DEF IInv
<1>. QED  BY <1>1, Invariance, PTL

\* A closed pool accepts no engine: none of its steps raises the count.
THEOREM ClosedNeverGrows == Spec => ClosedPoolNeverGrows
<1>1. TypeOK /\ [Next]_vars => [closed => aliveCount' <= aliveCount]_vars
  <2>. SUFFICES ASSUME TypeOK, Next, closed PROVE aliveCount' <= aliveCount
    BY DEF vars
  <2>. aliveCount \in 0..Target /\ Target \in Nat
    BY PoolAssumption DEF TypeOK
  <2>. USE DEF slotVars
  <2>1. ASSUME NEW c \in Caller, CallerStep(c) PROVE aliveCount' <= aliveCount
    BY <2>1 DEF CallerStep, Request, Acquire, GiveUp, Finish, TransportError,
       CancelRun, Dropped, Respawned, RespawnFailed, RetryAccepted,
       RetryRefused, RetryFailed, Returned, CleanedUp, CancelRecovery,
       LoseSlot, CanAccept
  <2>2. CASE HealerStep
    BY <2>2 DEF HealerStep, HealRound, HealSpawnFailed, HealAccepted,
       HealRefused, HealDiscarded, HealCancelled, CanAccept
  <2>3. CASE CloserStep
    BY <2>3 DEF CloserStep, Close, CloseJoined, CloseNext, CloseDiscarded,
       CloseDone
  <2>. QED  BY <2>1, <2>2, <2>3 DEF Next
<1>. QED  BY <1>1, TypeCorrect, PTL DEF Spec, ClosedPoolNeverGrows

-----------------------------------------------------------------------------
(* The breaker.                                                            *)

\* RetryOK in two parts: what the calls do (one that is under way has begun an
\* attempt), and what the breaker counted (its opening lies in the past).
CallsOK ==
  /\ at \in [Call -> Places]
  /\ attempt \in [Call -> 0..(MaxRetries + 1)]
  /\ \A c \in Call : at[c] = "pausing" => attempt[c] \in 1..MaxRetries
  /\ \A c \in Call : at[c] = "trying" => attempt[c] >= 1

CountOK ==
  /\ failures \in Nat
  /\ DOMAIN failedAt = 1..failures
  /\ openedAt = 0 <=> failures = 0
  /\ \A n \in 1..failures : /\ failedAt[n] \in openedAt..now
                            /\ failedAt[n] - openedAt <= Window
  /\ failures > 0 => failedAt[1] = openedAt
  /\ now \in Nat \ {0}
  /\ openedAt \in 0..now

Breaker == CallsOK /\ CountOK

LEMMA BreakerIsOK == Breaker => RetryOK
BY DEF Breaker, RetryOK, CallsOK, CountOK

\* The breaker that is reset counts nothing.
LEMMA ResetCount ==
  ASSUME now' \in Nat \ {0}, failures' = 0, openedAt' = 0,
         failedAt' = [n \in {} |-> 0]
  PROVE  CountOK'
BY DEF CountOK

LEMMA EnterPreserves ==
  ASSUME Breaker, NEW c \in Call, Enter(c), now' = now
  PROVE  Breaker'
<1>. USE RetryAssumption
<1>1. CallsOK'
  BY DEF Breaker, CallsOK, Enter, CallAt, Places
<1>2. CountOK'
  <2>1. CASE IsTripped
    BY <2>1, ResetCount DEF Breaker, Enter, CountOK
  <2>2. CASE ~IsTripped
    BY <2>2 DEF Breaker, Enter, CountOK, breakerVars
  <2>. QED  BY <2>1, <2>2
<1>. QED  BY <1>1, <1>2 DEF Breaker

LEMMA FailPreserves ==
  ASSUME Breaker, NEW c \in Call, Fail(c), now' = now
  PROVE  Breaker'
<1>. USE RetryAssumption
<1>1. CallsOK'
  <2>1. attempt[c] \in 0..(MaxRetries + 1) /\ attempt[c] >= 1
    BY DEF Breaker, CallsOK, Fail
  <2>. QED  BY <2>1 DEF Breaker, CallsOK, Fail, CallAt, Places
<1>2. CountOK'
  <2>1. CASE openedAt = 0 \/ now - openedAt > Window
    <3>1. /\ openedAt' = now /\ failures' = 1 /\ failedAt' = [n \in {1} |-> now]
          /\ now \in Nat \ {0} /\ 1..1 = {1}
      BY <2>1 DEF Breaker, CountOK, Fail, RecordFailure
    <3>. QED  BY <3>1 DEF CountOK
  <2>2. CASE ~(openedAt = 0 \/ now - openedAt > Window)
    <3>1. failures \in Nat /\ failures # 0 /\ DOMAIN failedAt = 1..failures
      BY <2>2 DEF Breaker, CountOK
    <3>2. 1..failures \cup {failures + 1} = 1..(failures + 1)
      BY <3>1
    <3>3. /\ openedAt' = openedAt /\ failures' = failures + 1
          /\ failedAt' = [n \in DOMAIN failedAt \cup {failures + 1} |->
                            IF n \in DOMAIN failedAt THEN failedAt[n] ELSE now]
      BY <2>2 DEF Fail, RecordFailure
    <3>4. failedAt' = [n \in 1..(failures + 1) |->
                         IF n \in 1..failures THEN failedAt[n] ELSE now]
      BY <3>1, <3>2, <3>3
    <3>. QED  BY <2>2, <3>1, <3>3, <3>4 DEF Breaker, CountOK
  <2>. QED  BY <2>1, <2>2
<1>. QED  BY <1>1, <1>2 DEF Breaker

LEMMA SucceedPreserves ==
  ASSUME Breaker, NEW c \in Call, Succeed(c), now' = now
  PROVE  Breaker'
<1>1. CallsOK'
  BY DEF Breaker, CallsOK, Succeed, CallAt, Places
<1>2. CountOK'
  BY ResetCount DEF Breaker, Succeed, CountOK
<1>. QED  BY <1>1, <1>2 DEF Breaker

\* A call that is refused, raises or tries again leaves the count alone.
LEMMA OthersPreserve ==
  ASSUME Breaker, NEW c \in Call, Refuse(c) \/ Raise(c) \/ Again(c), now' = now
  PROVE  Breaker'
<1>. USE RetryAssumption
<1>1. CASE Refuse(c)
  BY <1>1 DEF Breaker, CallsOK, CountOK, Refuse, CallAt, Places, breakerVars
<1>2. CASE Raise(c)
  BY <1>2 DEF Breaker, CallsOK, CountOK, Raise, CallAt, Places, breakerVars
<1>3. CASE Again(c)
  BY <1>3 DEF Breaker, CallsOK, CountOK, Again, CallAt, Places, breakerVars
<1>. QED  BY <1>1, <1>2, <1>3

\* Time that passes ages the failures but counts none.
LEMMA TimePreserves ==
  ASSUME Breaker, UNCHANGED retryVars, now' \in {now, now + 1}
  PROVE  Breaker'
BY DEF Breaker, CallsOK, CountOK, retryVars


-----------------------------------------------------------------------------
(* The connection.                                                         *)

Command == {"uciok", "readyok", "info"}
Line == {<<w>> : w \in Command} \cup
        {<<"bestmove", <<c, n>>>> : c \in Call, n \in Nat}

BusyPlaces == {"calling", "syncing", "searching"}

\* What the client, its peer and the call that uses them are made of.  A call
\* is under way exactly while the client works for it.
ClientOK ==
  /\ engine \in [alive: BOOLEAN, multipv: Nat, configured: BOOLEAN,
                 lines: Seq(Line), todo: Seq(Call \X Nat)]
  /\ multipv \in MultiPVs \cup {1} /\ wanted \in MultiPVs
  /\ place \in Waits \cup BusyPlaces \cup {"configuring", "idle", "broken"}
  /\ ending \in {"created", "none", "analyse", "transport", "cancelled"}
  /\ caller \in Call \cup {NoCall}

UnderWay ==
  /\ place \in BusyPlaces => ending # "created"
  /\ place = "idle" => ending = "none"
  /\ place = "configuring" => ending = "created"
  /\ place # "idle" /\ ending # "created" => caller \in Call /\ at[caller] = "trying"

\* What the client believes of the engine holds wherever the next step relies on it.
BeliefsHold ==
  /\ engine.alive => engine.multipv = multipv
  /\ place \in {"opening", "broken"} => multipv = 1
  /\ place = "searching" => multipv = wanted
  /\ ending # "created" \/ place = "configuring" => "configured" \in applied
  /\ engine.alive /\ place \in BusyPlaces \cup {"configuring", "idle"} => engine.configured
  /\ engine.alive /\ place = "connecting" /\ ending # "created" => engine.configured
  /\ place = "broken" => ~engine.alive

\* A search of the engine, and a bestmove in what it has sent, are those of the
\* attempt under way, and nothing follows that bestmove.
Clean(lines) == \A i \in 1..Len(lines) : ~IsBestmove(lines[i])

LinesOK ==
  /\ place # "searching" => engine.todo = <<>> /\ Clean(engine.lines)
  /\ engine.todo # <<>> => engine.todo = <<Search(caller)>>
  /\ \A i \in 1..Len(engine.lines) : IsBestmove(engine.lines[i]) =>
       /\ engine.lines[i] = <<"bestmove", Search(caller)>>
       /\ i = Len(engine.lines) /\ engine.todo = <<>>

ClientIInv == Breaker /\ ClientOK /\ UnderWay /\ BeliefsHold /\ LinesOK

-----------------------------------------------------------------------------
\* What the peer answers at once is no bestmove.
LEMMA AnswerLines ==
  ASSUME ClientOK, NEW s \in Seq(Line), NEW w \in Command
  PROVE  /\ s \o Answer(w) \in Seq(Line)
         /\ Clean(s) => Clean(s \o Answer(w))
<1>1. CASE engine.alive
  <2>1. Answer(w) = <<<<w>>>> /\ <<w>> \in Line /\ ~IsBestmove(<<w>>)
    BY <1>1 DEF Answer, Line, IsBestmove, Command
  <2>2. <<<<w>>>> \in Seq(Line) /\ Len(<<<<w>>>>) = 1 /\ <<<<w>>>>[1] = <<w>>
    BY <2>1
  <2>3. /\ s \o <<<<w>>>> \in Seq(Line) /\ Len(s \o <<<<w>>>>) = Len(s) + 1
        /\ \A i \in 1..Len(s) : (s \o <<<<w>>>>)[i] = s[i]
        /\ (s \o <<<<w>>>>)[Len(s) + 1] = <<w>>
    BY <2>2, ConcatProperties, LenProperties
  <2>. QED  BY <2>1, <2>3, LenProperties DEF Clean
<1>2. CASE ~engine.alive
  BY <1>2, ConcatEmptySeq DEF Answer
<1>. QED  BY <1>1, <1>2

LEMMA TailLines ==
  ASSUME NEW s \in Seq(Line), s # <<>>
  PROVE  /\ Head(s) = s[1] /\ 1 \in 1..Len(s) /\ s[1] \in Line
         /\ Tail(s) \in Seq(Line) /\ Len(Tail(s)) = Len(s) - 1
         /\ \A i \in 1..Len(Tail(s)) : i + 1 \in 1..Len(s) /\ Tail(s)[i] = s[i + 1]
         /\ Clean(s) => Clean(Tail(s))
<1>1. /\ Head(s) = s[1] /\ Tail(s) \in Seq(Line) /\ Len(s) \in Nat \ {0}
      /\ Len(Tail(s)) = Len(s) - 1
      /\ \A i \in 1..Len(s) - 1 : Tail(s)[i] = s[i + 1]
  BY HeadTailProperties, LenProperties
<1>2. s[1] \in Line
  BY <1>1, ElementOfSeq
<1>. QED  BY <1>1, <1>2 DEF Clean

-----------------------------------------------------------------------------
(* The steps.                                                              *)

\* Lines without a bestmove and no search to come leave nothing to confuse.
LEMMA CleanLines ==
  ASSUME engine'.todo = <<>>, Clean(engine'.lines)
  PROVE  LinesOK'
BY DEF LinesOK, Clean

LEMMA OpenPreserves ==
  ASSUME ClientIInv, Open
  PROVE  ClientIInv'
<1>a. /\ <<<<"uciok">>>> \in Seq(Line) /\ Clean(<<<<"uciok">>>>)
      /\ <<>> \in Seq(Call \X Nat)
  BY EmptySeq DEF Line, Command, Clean, IsBestmove
<1>b. engine' = [alive |-> TRUE, multipv |-> 1, configured |-> FALSE,
                 lines |-> <<<<"uciok">>>>, todo |-> <<>>]
  BY DEF Open, NewEngine
<1>c. place' = "greeting" /\ UNCHANGED <<multipv, ending, caller, wanted>>
  BY DEF Open, Reach
<1>d. engine' \in [alive: BOOLEAN, multipv: Nat, configured: BOOLEAN,
                  lines: Seq(Line), todo: Seq(Call \X Nat)]
  BY <1>a, <1>b
<1>1. Breaker'
  BY TimePreserves DEF ClientIInv, Open, retryVars
<1>2. ClientOK'
  BY <1>c, <1>d DEF ClientIInv, ClientOK, Waits
<1>3. UnderWay'
  BY DEF ClientIInv, ClientOK, UnderWay, Breaker, CallsOK, Open, Reach, Waits, BusyPlaces,
      beliefs, retryVars, breakerVars, NewEngine
<1>4. BeliefsHold'
  BY DEF ClientIInv, ClientOK, UnderWay, BeliefsHold, Open, Reach, Waits, BusyPlaces,
      beliefs, retryVars, breakerVars, NewEngine
<1>5. LinesOK'
  BY <1>a, <1>b, CleanLines
<1>. QED  BY <1>1, <1>2, <1>3, <1>4, <1>5 DEF ClientIInv

LEMMA GreetedPreserves ==
  ASSUME ClientIInv, Greeted
  PROVE  ClientIInv'
<1>a. /\ Tail(engine.lines) \o Answer("readyok") \in Seq(Line)
      /\ Clean(engine.lines) => Clean(Tail(engine.lines) \o Answer("readyok"))
  BY TailLines, AnswerLines DEF ClientIInv, ClientOK, Greeted, Heard, NextLine,
      Command
<1>1. Breaker'
  BY TimePreserves DEF ClientIInv, Greeted, retryVars
<1>2. ClientOK'
  BY <1>a DEF ClientIInv, ClientOK, Greeted, Reach, Waits, BusyPlaces, beliefs, retryVars,
      breakerVars
<1>3. UnderWay'
  BY DEF ClientIInv, ClientOK, UnderWay, Breaker, CallsOK, Greeted, Reach, Waits,
      BusyPlaces, beliefs, retryVars, breakerVars
<1>4. BeliefsHold'
  BY DEF ClientIInv, ClientOK, UnderWay, BeliefsHold, Greeted, Reach, Waits, BusyPlaces,
      beliefs, retryVars, breakerVars
<1>5. LinesOK'
  BY <1>a, CleanLines DEF ClientIInv, ClientOK, UnderWay, LinesOK, Greeted, Reach,
      Waits, BusyPlaces, beliefs, retryVars, breakerVars
<1>. QED  BY <1>1, <1>2, <1>3, <1>4, <1>5 DEF ClientIInv

LEMMA ConnectedPreserves ==
  ASSUME ClientIInv, Connected
  PROVE  ClientIInv'
<1>a. /\ Tail(engine.lines) \o Answer("readyok") \in Seq(Line)
      /\ Clean(engine.lines) => Clean(Tail(engine.lines) \o Answer("readyok"))
  BY TailLines, AnswerLines DEF ClientIInv, ClientOK, Connected, Heard, NextLine,
      Command
<1>1. Breaker'
  BY TimePreserves DEF ClientIInv, Connected, retryVars
<1>2. ClientOK'
  BY <1>a DEF ClientIInv, ClientOK, Connected, Reach, Waits, BusyPlaces, beliefs, retryVars,
      breakerVars
<1>3. UnderWay'
  BY DEF ClientIInv, ClientOK, UnderWay, Breaker, CallsOK, Connected, Reach, Waits,
      BusyPlaces, beliefs, retryVars, breakerVars
<1>4. BeliefsHold'
  BY DEF ClientIInv, ClientOK, UnderWay, BeliefsHold, Connected, Reach, Waits, BusyPlaces,
      beliefs, retryVars, breakerVars
<1>5. LinesOK'
  BY <1>a, CleanLines DEF ClientIInv, ClientOK, UnderWay, LinesOK, Connected, Reach,
      Waits, BusyPlaces, beliefs, retryVars, breakerVars
<1>. QED  BY <1>1, <1>2, <1>3, <1>4, <1>5 DEF ClientIInv

LEMMA ConfiguredPreserves ==
  ASSUME ClientIInv, Configured
  PROVE  ClientIInv'
<1>1. Breaker'
  BY TimePreserves DEF ClientIInv, Configured, retryVars
<1>2. ClientOK'
  BY TailLines DEF ClientIInv, ClientOK, Configured, Read, NextLine, Reach, Waits,
      BusyPlaces, beliefs, retryVars, breakerVars
<1>3. UnderWay'
  BY DEF ClientIInv, ClientOK, UnderWay, Breaker, CallsOK, Configured, Reach, Waits,
      BusyPlaces, beliefs, retryVars, breakerVars, Read
<1>4. BeliefsHold'
  BY DEF ClientIInv, ClientOK, UnderWay, BeliefsHold, Configured, Reach, Waits, BusyPlaces,
      beliefs, retryVars, breakerVars, Read
<1>5. LinesOK'
  BY TailLines, CleanLines DEF ClientIInv, ClientOK, LinesOK, Configured, Read,
      NextLine, Reach, Waits, BusyPlaces, beliefs, retryVars, breakerVars
<1>. QED  BY <1>1, <1>2, <1>3, <1>4, <1>5 DEF ClientIInv

LEMMA ConfigureFailsPreserves ==
  ASSUME ClientIInv, ConfigureFails
  PROVE  ClientIInv'
<1>1. Breaker'
  BY TimePreserves DEF ClientIInv, ConfigureFails, retryVars
<1>2. ClientOK'
  BY ClientAssumption, EmptySeq DEF ClientIInv, ClientOK, ConfigureFails, Reach,
      Waits, BusyPlaces, beliefs, retryVars, breakerVars, NoPeer, NewEngine
<1>3. UnderWay'
  BY DEF ClientIInv, ClientOK, UnderWay, Breaker, CallsOK, ConfigureFails, Reach,
      Waits, BusyPlaces, beliefs, retryVars, breakerVars, NoPeer, NewEngine
<1>4. BeliefsHold'
  BY DEF ClientIInv, ClientOK, UnderWay, BeliefsHold, ConfigureFails, Reach, Waits,
      BusyPlaces, beliefs, retryVars, breakerVars, NoPeer, NewEngine
<1>5. LinesOK'
  BY EmptySeq DEF ClientIInv, ClientOK, UnderWay, LinesOK, Clean, Search,
      ConfigureFails, Reach, Waits, BusyPlaces, beliefs, retryVars, breakerVars,
      NoPeer, NewEngine
<1>. QED  BY <1>1, <1>2, <1>3, <1>4, <1>5 DEF ClientIInv

LEMMA EnterCallPreserves ==
  ASSUME ClientIInv, NEW c \in Call, EnterCall(c)
  PROVE  ClientIInv'
<1>1. Breaker'
  BY EnterPreserves DEF ClientIInv, EnterCall
<1>2. ClientOK'
  BY ClientAssumption, EmptySeq DEF ClientIInv, ClientOK, EnterCall, Reach, Waits,
      BusyPlaces, beliefs, retryVars, breakerVars, Enter, CallAt
<1>3. UnderWay'
  BY DEF ClientIInv, ClientOK, UnderWay, Breaker, CallsOK, EnterCall, Reach, Waits,
      BusyPlaces, beliefs, retryVars, breakerVars, Enter, CallAt
<1>4. BeliefsHold'
  BY DEF ClientIInv, ClientOK, UnderWay, BeliefsHold, EnterCall, Reach, Waits, BusyPlaces,
      beliefs, retryVars, breakerVars, Enter, CallAt
<1>5. LinesOK'
  BY EmptySeq DEF ClientIInv, ClientOK, UnderWay, LinesOK, Clean, Search, EnterCall,
      Reach, Waits, BusyPlaces, beliefs, retryVars, breakerVars, Enter, CallAt
<1>. QED  BY <1>1, <1>2, <1>3, <1>4, <1>5 DEF ClientIInv

LEMMA RefuseCallPreserves ==
  ASSUME ClientIInv, NEW c \in Call, RefuseCall(c)
  PROVE  ClientIInv'
<1>1. Breaker'
  BY OthersPreserve DEF ClientIInv, RefuseCall
<1>2. ClientOK'
  BY ClientAssumption, EmptySeq DEF ClientIInv, ClientOK, RefuseCall, Reach, Waits,
      BusyPlaces, beliefs, retryVars, breakerVars, Refuse, CallAt
<1>3. UnderWay'
  BY DEF ClientIInv, ClientOK, UnderWay, Breaker, CallsOK, RefuseCall, Reach, Waits,
      BusyPlaces, beliefs, retryVars, breakerVars, Refuse, CallAt
<1>4. BeliefsHold'
  BY DEF ClientIInv, ClientOK, UnderWay, BeliefsHold, RefuseCall, Reach, Waits, BusyPlaces,
      beliefs, retryVars, breakerVars, Refuse, CallAt
<1>5. LinesOK'
  BY EmptySeq DEF ClientIInv, ClientOK, UnderWay, LinesOK, Clean, Search, RefuseCall,
      Reach, Waits, BusyPlaces, beliefs, retryVars, breakerVars, Refuse, CallAt
<1>. QED  BY <1>1, <1>2, <1>3, <1>4, <1>5 DEF ClientIInv

LEMMA CallAgainPreserves ==
  ASSUME ClientIInv, CallAgain
  PROVE  ClientIInv'
<1>1. Breaker'
  BY OthersPreserve DEF ClientIInv, ClientOK, CallAgain
<1>2. ClientOK'
  BY ClientAssumption, EmptySeq DEF ClientIInv, ClientOK, CallAgain, Reach, Waits,
      BusyPlaces, beliefs, retryVars, breakerVars, Again, CallAt
<1>3. UnderWay'
  BY DEF ClientIInv, ClientOK, UnderWay, Breaker, CallsOK, CallAgain, Reach, Waits,
      BusyPlaces, beliefs, retryVars, breakerVars, Again, CallAt
<1>4. BeliefsHold'
  BY DEF ClientIInv, ClientOK, UnderWay, BeliefsHold, CallAgain, Reach, Waits, BusyPlaces,
      beliefs, retryVars, breakerVars, Again, CallAt
<1>5. LinesOK'
  BY EmptySeq DEF ClientIInv, ClientOK, UnderWay, LinesOK, Clean, Search, CallAgain,
      Reach, Waits, BusyPlaces, beliefs, retryVars, breakerVars, Again, CallAt
<1>. QED  BY <1>1, <1>2, <1>3, <1>4, <1>5 DEF ClientIInv

LEMMA AnalysePreserves ==
  ASSUME ClientIInv, Analyse
  PROVE  ClientIInv'
<1>a. /\ engine.lines \o Answer("readyok") \in Seq(Line)
      /\ Clean(engine.lines) => Clean(engine.lines \o Answer("readyok"))
  BY AnswerLines DEF ClientIInv, ClientOK, Command
<1>1. Breaker'
  BY TimePreserves DEF ClientIInv, Analyse, retryVars
<1>2. ClientOK'
  BY <1>a DEF ClientIInv, ClientOK, Analyse, Reach, Waits, BusyPlaces, beliefs, retryVars,
      breakerVars
<1>3. UnderWay'
  BY DEF ClientIInv, ClientOK, UnderWay, Breaker, CallsOK, Analyse, Reach, Waits,
      BusyPlaces, beliefs, retryVars, breakerVars
<1>4. BeliefsHold'
  BY DEF ClientIInv, ClientOK, UnderWay, BeliefsHold, Analyse, Reach, Waits, BusyPlaces,
      beliefs, retryVars, breakerVars
<1>5. LinesOK'
  BY <1>a, CleanLines DEF ClientIInv, ClientOK, UnderWay, LinesOK, Analyse, Reach,
      Waits, BusyPlaces, beliefs, retryVars, breakerVars
<1>. QED  BY <1>1, <1>2, <1>3, <1>4, <1>5 DEF ClientIInv

LEMMA ReconnectPreserves ==
  ASSUME ClientIInv, Reconnect
  PROVE  ClientIInv'
<1>1. Breaker'
  BY TimePreserves DEF ClientIInv, Reconnect, retryVars
<1>2. ClientOK'
  BY ClientAssumption, EmptySeq DEF ClientIInv, ClientOK, Reconnect, Reach, Waits,
      BusyPlaces, beliefs, retryVars, breakerVars, Forget, NoPeer, NewEngine
<1>3. UnderWay'
  BY DEF ClientIInv, ClientOK, UnderWay, Breaker, CallsOK, Reconnect, Reach, Waits,
      BusyPlaces, beliefs, retryVars, breakerVars, Forget, NoPeer, NewEngine
<1>4. BeliefsHold'
  BY DEF ClientIInv, ClientOK, UnderWay, BeliefsHold, Reconnect, Reach, Waits, BusyPlaces,
      beliefs, retryVars, breakerVars, Forget, NoPeer, NewEngine
<1>5. LinesOK'
  BY EmptySeq DEF ClientIInv, ClientOK, UnderWay, LinesOK, Clean, Search, Reconnect,
      Reach, Waits, BusyPlaces, beliefs, retryVars, breakerVars, Forget, NoPeer,
      NewEngine
<1>. QED  BY <1>1, <1>2, <1>3, <1>4, <1>5 DEF ClientIInv

LEMMA SyncedPreserves ==
  ASSUME ClientIInv, Synced
  PROVE  ClientIInv'
<1>a. /\ engine.todo = <<>> /\ Clean(engine.lines)
      /\ caller \in Call /\ attempt[caller] \in Nat
  BY RetryAssumption DEF ClientIInv, UnderWay, LinesOK, Breaker, CallsOK, Synced,
      BusyPlaces
<1>b. /\ Search(caller) \in Call \X Nat
      /\ Append(engine.todo, Search(caller)) = <<Search(caller)>>
      /\ <<Search(caller)>> \in Seq(Call \X Nat)
  BY <1>a DEF Search
<1>c. Tail(engine.lines) \in Seq(Line) /\ Clean(Tail(engine.lines))
  BY <1>a, TailLines DEF ClientIInv, ClientOK, Synced, Heard, NextLine
<1>d. /\ engine'.todo = <<Search(caller)>> /\ Search(caller)' = Search(caller)
      /\ engine'.lines = Tail(engine.lines) /\ place' = "searching"
  BY <1>b DEF ClientIInv, ClientOK, Synced, Search, retryVars, Reach
<1>1. Breaker'
  BY TimePreserves DEF ClientIInv, Synced, retryVars
<1>2. ClientOK'
  BY <1>b, <1>c, ClientAssumption DEF ClientIInv, ClientOK, Synced, Reach, Waits,
      BusyPlaces, beliefs, retryVars, breakerVars
<1>3. UnderWay'
  BY DEF ClientIInv, ClientOK, UnderWay, Breaker, CallsOK, Synced, Reach, Waits, BusyPlaces,
      beliefs, retryVars, breakerVars
<1>4. BeliefsHold'
  BY DEF ClientIInv, ClientOK, UnderWay, BeliefsHold, Synced, Reach, Waits, BusyPlaces,
      beliefs, retryVars, breakerVars
<1>5. LinesOK'
  BY <1>c, <1>d DEF LinesOK, Clean
<1>. QED  BY <1>1, <1>2, <1>3, <1>4, <1>5 DEF ClientIInv

LEMMA SkipPreserves ==
  ASSUME ClientIInv, Skip
  PROVE  ClientIInv'
<1>1. Breaker'
  BY TimePreserves DEF ClientIInv, Skip, retryVars
<1>2. ClientOK'
  BY TailLines DEF ClientIInv, ClientOK, Skip, Read, NextLine, Reach, Waits, BusyPlaces,
      beliefs, retryVars, breakerVars
<1>3. UnderWay'
  BY DEF ClientIInv, ClientOK, UnderWay, Breaker, CallsOK, Skip, Reach, Waits, BusyPlaces,
      beliefs, retryVars, breakerVars, Read
<1>4. BeliefsHold'
  BY DEF ClientIInv, ClientOK, UnderWay, BeliefsHold, Skip, Reach, Waits, BusyPlaces,
      beliefs, retryVars, breakerVars, Read
<1>5. LinesOK'
  BY TailLines DEF ClientIInv, ClientOK, LinesOK, Clean, Skip, Read, NextLine,
      Search, Reach, Waits, BusyPlaces, beliefs, retryVars, breakerVars
<1>. QED  BY <1>1, <1>2, <1>3, <1>4, <1>5 DEF ClientIInv

LEMMA BestmovePreserves ==
  ASSUME ClientIInv, Bestmove
  PROVE  ClientIInv'
<1>1. Breaker'
  BY SucceedPreserves DEF ClientIInv, ClientOK, UnderWay, Bestmove, Waits, BusyPlaces
<1>2. ClientOK'
  BY TailLines DEF ClientIInv, ClientOK, Bestmove, Read, NextLine, Reach, Waits, BusyPlaces,
      beliefs, retryVars, breakerVars
<1>3. UnderWay'
  BY DEF ClientIInv, ClientOK, UnderWay, Breaker, CallsOK, Bestmove, Reach, Waits,
      BusyPlaces, beliefs, retryVars, breakerVars, Read, Succeed, CallAt
<1>4. BeliefsHold'
  BY DEF ClientIInv, ClientOK, UnderWay, BeliefsHold, Bestmove, Reach, Waits, BusyPlaces,
      beliefs, retryVars, breakerVars, Read, Succeed, CallAt
<1>5. LinesOK'
  <2>1. /\ engine.todo = <<>> /\ Len(engine.lines) = 1
    BY TailLines DEF ClientIInv, ClientOK, LinesOK, Bestmove, NextLine
  <2>2. engine'.todo = <<>> /\ Len(engine'.lines) = 0
    BY <2>1, TailLines DEF ClientIInv, ClientOK, Bestmove, Read, NextLine
  <2>. QED  BY <2>2, CleanLines DEF Clean
<1>. QED  BY <1>1, <1>2, <1>3, <1>4, <1>5 DEF ClientIInv

LEMMA BreakPreserves ==
  ASSUME ClientIInv, NEW how \in {"transport", "cancelled"}, Break(how)
  PROVE  ClientIInv'
<1>1. Breaker'
  BY TimePreserves DEF ClientIInv, Break, retryVars
<1>2. ClientOK'
  BY ClientAssumption, EmptySeq DEF ClientIInv, ClientOK, Break, Reach, Waits, BusyPlaces,
      beliefs, retryVars, breakerVars, Forget, NoPeer, NewEngine
<1>3. UnderWay'
  BY DEF ClientIInv, ClientOK, UnderWay, Breaker, CallsOK, Break, Reach, Waits, BusyPlaces,
      beliefs, retryVars, breakerVars, Forget, NoPeer, NewEngine
<1>4. BeliefsHold'
  BY DEF ClientIInv, ClientOK, UnderWay, BeliefsHold, Break, Reach, Waits, BusyPlaces,
      beliefs, retryVars, breakerVars, Forget, NoPeer, NewEngine
<1>5. LinesOK'
  BY EmptySeq DEF ClientIInv, ClientOK, UnderWay, LinesOK, Clean, Search, Break,
      Reach, Waits, BusyPlaces, beliefs, retryVars, breakerVars, Forget, NoPeer,
      NewEngine
<1>. QED  BY <1>1, <1>2, <1>3, <1>4, <1>5 DEF ClientIInv

LEMMA BrokenPreserves ==
  ASSUME ClientIInv, Broken
  PROVE  ClientIInv'
<1>1. Breaker'
  <2>1. CASE ending = "created"
    BY <2>1, TimePreserves DEF ClientIInv, Broken, retryVars
  <2>2. CASE ending # "created"
    BY <2>2, FailPreserves, OthersPreserve DEF ClientIInv, ClientOK, UnderWay, Broken
  <2>. QED  BY <2>1, <2>2
<1>2. ClientOK'
  BY ClientAssumption, EmptySeq DEF ClientIInv, ClientOK, Broken, Reach, Waits, BusyPlaces,
      beliefs, retryVars, breakerVars, Fail, Raise, CallAt
<1>3. UnderWay'
  BY DEF ClientIInv, ClientOK, UnderWay, Breaker, CallsOK, Broken, Reach, Waits, BusyPlaces,
      beliefs, retryVars, breakerVars, Fail, Raise, CallAt
<1>4. BeliefsHold'
  BY DEF ClientIInv, ClientOK, UnderWay, BeliefsHold, Broken, Reach, Waits, BusyPlaces,
      beliefs, retryVars, breakerVars, Fail, Raise, CallAt
<1>5. LinesOK'
  BY EmptySeq DEF ClientIInv, ClientOK, UnderWay, LinesOK, Clean, Search, Broken,
      Reach, Waits, BusyPlaces, beliefs, retryVars, breakerVars, Fail, Raise, CallAt
<1>. QED  BY <1>1, <1>2, <1>3, <1>4, <1>5 DEF ClientIInv

LEMMA EmitPreserves ==
  ASSUME ClientIInv, Emit
  PROVE  ClientIInv'
<1>a. engine.todo = <<Search(caller)>> /\ place = "searching"
  BY DEF ClientIInv, LinesOK, Emit
<1>b. Head(engine.todo) = Search(caller) /\ Tail(engine.todo) = <<>>
  BY <1>a
<1>c. \A i \in 1..Len(engine.lines) : ~IsBestmove(engine.lines[i])
  BY <1>a DEF ClientIInv, LinesOK
<1>d. caller \in Call /\ attempt[caller] \in Nat
  BY <1>a, RetryAssumption DEF ClientIInv, UnderWay, Breaker, CallsOK, BusyPlaces
<1>e. /\ <<"info">> \in Line /\ ~IsBestmove(<<"info">>)
      /\ <<"bestmove", Search(caller)>> \in Line
  BY <1>d DEF Search, Line, Command, IsBestmove
<1> DEFINE more == <<<<"info">>, <<"bestmove", Search(caller)>>>>
           lines == engine.lines \o more
<1>f. /\ more \in Seq(Line) /\ Len(more) = 2 /\ more[1] = <<"info">>
      /\ more[2] = <<"bestmove", Search(caller)>>
  BY <1>e
<1>g. engine.lines \in Seq(Line) /\ Len(engine.lines) \in Nat
  BY LenProperties DEF ClientIInv, ClientOK
<1>h. engine'.lines = lines /\ engine'.todo = <<>>
  BY <1>b DEF ClientIInv, ClientOK, Emit
<1> HIDE DEF more
<1>i. /\ lines \in Seq(Line) /\ Len(lines) = Len(engine.lines) + Len(more)
      /\ \A i \in 1..Len(engine.lines) + Len(more) : lines[i] =
           IF i <= Len(engine.lines) THEN engine.lines[i] ELSE more[i - Len(engine.lines)]
  BY <1>f, <1>g, ConcatProperties
<1> HIDE DEF lines
<1>j. /\ Len(lines) = Len(engine.lines) + 2
      /\ \A i \in 1..Len(engine.lines) : lines[i] = engine.lines[i]
      /\ lines[Len(engine.lines) + 1] = <<"info">>
      /\ lines[Len(engine.lines) + 2] = <<"bestmove", Search(caller)>>
  <2>1. \A i \in 1..Len(engine.lines) : i \in 1..Len(engine.lines) + 2
    BY <1>g
  <2>2. /\ lines[Len(engine.lines) + 1] = more[(Len(engine.lines) + 1) - Len(engine.lines)]
        /\ lines[Len(engine.lines) + 2] = more[(Len(engine.lines) + 2) - Len(engine.lines)]
    BY <1>f, <1>g, <1>i
  <2>. QED  BY <2>1, <2>2, <1>f, <1>g, <1>i
<1>k. ASSUME NEW i \in 1..Len(lines), IsBestmove(lines[i])
      PROVE  i = Len(engine.lines) + 2
  <2>1. CASE i \in 1..Len(engine.lines)
    BY <2>1, <1>c, <1>j, <1>k
  <2>2. CASE i = Len(engine.lines) + 1
    BY <2>2, <1>e, <1>j, <1>k
  <2>. QED  BY <2>1, <2>2, <1>g, <1>j
<1>l. Search(caller)' = Search(caller) /\ place' = "searching"
  BY <1>a DEF Emit, Search, retryVars
<1>1. Breaker'
  BY TimePreserves DEF ClientIInv, Emit, retryVars
<1>2. ClientOK'
  BY <1>h, <1>i, EmptySeq DEF ClientIInv, ClientOK, Emit, Reach, Waits, BusyPlaces, beliefs,
      retryVars, breakerVars
<1>3. UnderWay'
  BY DEF ClientIInv, ClientOK, UnderWay, Breaker, CallsOK, Emit, Reach, Waits, BusyPlaces,
      beliefs, retryVars, breakerVars
<1>4. BeliefsHold'
  BY DEF ClientIInv, ClientOK, UnderWay, BeliefsHold, Emit, Reach, Waits, BusyPlaces,
      beliefs, retryVars, breakerVars
<1>5. LinesOK'
  BY <1>h, <1>j, <1>k, <1>l DEF LinesOK
<1>. QED  BY <1>1, <1>2, <1>3, <1>4, <1>5 DEF ClientIInv

LEMMA DiePreserves ==
  ASSUME ClientIInv, Die
  PROVE  ClientIInv'
<1>1. Breaker'
  BY TimePreserves DEF ClientIInv, Die, retryVars
<1>2. ClientOK'
  BY ClientAssumption, EmptySeq DEF ClientIInv, ClientOK, Die, Reach, Waits, BusyPlaces,
      beliefs, retryVars, breakerVars
<1>3. UnderWay'
  BY DEF ClientIInv, ClientOK, UnderWay, Breaker, CallsOK, Die, Reach, Waits, BusyPlaces,
      beliefs, retryVars, breakerVars
<1>4. BeliefsHold'
  BY DEF ClientIInv, ClientOK, UnderWay, BeliefsHold, Die, Reach, Waits, BusyPlaces,
      beliefs, retryVars, breakerVars
<1>5. LinesOK'
  BY EmptySeq DEF ClientIInv, ClientOK, UnderWay, LinesOK, Clean, Search, Die, Reach,
      Waits, BusyPlaces, beliefs, retryVars, breakerVars
<1>. QED  BY <1>1, <1>2, <1>3, <1>4, <1>5 DEF ClientIInv

LEMMA TickPreserves ==
  ASSUME ClientIInv, Tick
  PROVE  ClientIInv'
<1>1. Breaker'
  BY TimePreserves DEF ClientIInv, Tick, retryVars
<1>2. ClientOK'
  BY ClientAssumption, EmptySeq DEF ClientIInv, ClientOK, Tick, Reach, Waits, BusyPlaces,
      beliefs, retryVars, breakerVars
<1>3. UnderWay'
  BY DEF ClientIInv, ClientOK, UnderWay, Breaker, CallsOK, Tick, Reach, Waits, BusyPlaces,
      beliefs, retryVars, breakerVars
<1>4. BeliefsHold'
  BY DEF ClientIInv, ClientOK, UnderWay, BeliefsHold, Tick, Reach, Waits, BusyPlaces,
      beliefs, retryVars, breakerVars
<1>5. LinesOK'
  BY EmptySeq DEF ClientIInv, ClientOK, UnderWay, LinesOK, Clean, Search, Tick, Reach,
      Waits, BusyPlaces, beliefs, retryVars, breakerVars
<1>. QED  BY <1>1, <1>2, <1>3, <1>4, <1>5 DEF ClientIInv

LEMMA InitInv == ClientInit => ClientIInv
<1>. SUFFICES ASSUME ClientInit PROVE ClientIInv
  OBVIOUS
<1>1. Breaker
  BY RetryAssumption DEF ClientInit, RetryInit, Breaker, CallsOK, CountOK, Places
<1>2. ClientOK
  <2>1. <<>> \in Seq(Line) /\ <<>> \in Seq(Call \X Nat)
    BY EmptySeq
  <2>. QED  BY <2>1, ClientAssumption DEF ClientInit, ClientOK, NoPeer, NewEngine,
      Waits, BusyPlaces
<1>3. UnderWay /\ BeliefsHold
  BY DEF ClientInit, UnderWay, BeliefsHold, NoPeer, NewEngine, BusyPlaces
<1>4. LinesOK
  BY DEF ClientInit, LinesOK, Clean, NoPeer, NewEngine
<1>. QED  BY <1>1, <1>2, <1>3, <1>4 DEF ClientIInv

LEMMA NextInv == ClientIInv /\ [ClientNext]_clientVars => ClientIInv'
<1>. SUFFICES ASSUME ClientIInv, [ClientNext]_clientVars PROVE ClientIInv'
  OBVIOUS
<1>1. CASE ClientNext
  BY <1>1, OpenPreserves, GreetedPreserves, ConnectedPreserves,
      ConfiguredPreserves,
     ConfigureFailsPreserves, EnterCallPreserves, RefuseCallPreserves, CallAgainPreserves,
     AnalysePreserves, ReconnectPreserves, SyncedPreserves, SkipPreserves,
     BestmovePreserves, BreakPreserves, BrokenPreserves, EmitPreserves, DiePreserves,
     TickPreserves
  DEF ClientNext
<1>2. CASE UNCHANGED clientVars
  <2>1. Breaker'
    BY <1>2, TimePreserves DEF ClientIInv, clientVars
  <2>. QED  BY <1>2, <2>1 DEF ClientIInv, ClientOK, UnderWay, BeliefsHold, LinesOK,
      Clean, Search,
                           clientVars, retryVars, beliefs
<1>. QED  BY <1>1, <1>2

-----------------------------------------------------------------------------
(* The theorems.                                                           *)

\* The inductive invariant holds in every reachable state.
THEOREM ClientInvariance == ClientSpec => []ClientIInv
BY InitInv, NextInv, PTL DEF ClientSpec

\* The breaker's account, each call's attempts and the client's variables keep
\* their types, whatever fails.
THEOREM TypesHold == ClientSpec => []ClientTypeOK
<1>1. ClientIInv => ClientTypeOK
  <2>. SUFFICES ASSUME ClientIInv PROVE ClientTypeOK
    OBVIOUS
  <2>. QED  BY BreakerIsOK DEF ClientIInv, ClientOK, ClientTypeOK, BusyPlaces, Waits
<1>. QED  BY <1>1, ClientInvariance, PTL

\* After any number of lost connections, timeouts and cancellations, a search
\* runs on an engine that was configured and has the MultiPV its call asks for.
THEOREM SearchesAsAsked == ClientSpec => []SearchesRunAsAsked
<1>1. ClientIInv => SearchesRunAsAsked
  BY DEF ClientIInv, BeliefsHold, SearchesRunAsAsked, BusyPlaces
<1>. QED  BY <1>1, ClientInvariance, PTL

\* analyse() never returns the bestmove of another search: what an attempt that
\* was given up left on a connection is closed with it.
THEOREM OwnAnswers == ClientSpec => AnswersAreOwn
<1>1. ASSUME ClientIInv, ClientNext, NEW c \in Call, at[c] = "trying", at'[c] = "answered"
      PROVE  Head(engine.lines) = <<"bestmove", Search(c)>>
  <2>1. Bestmove /\ c = caller
    <3>1. at \in [Call -> Places] /\ caller \in Call \cup {NoCall}
      BY <1>1 DEF ClientIInv, Breaker, CallsOK, ClientOK
    <3>2. CASE at' = at
      BY <1>1, <3>2
    <3>3. CASE \E d \in Call : EnterCall(d) \/ RefuseCall(d)
      BY <1>1, <3>1, <3>3 DEF EnterCall, RefuseCall, Enter, Refuse, CallAt
    <3>4. CASE CallAgain
      BY <1>1, <3>1, <3>4 DEF CallAgain, Again, CallAt
    <3>5. CASE Bestmove
      BY <1>1, <3>1, <3>5 DEF Bestmove, Succeed, CallAt
    <3>6. CASE Broken
      BY <1>1, <3>1, <3>6 DEF Broken, Fail, Raise, CallAt, retryVars
    <3>. QED  BY <1>1, <3>2, <3>3, <3>4, <3>5, <3>6
              DEF ClientNext, retryVars, Open, Greeted, Connected, Configured, ConfigureFails,
                  Analyse, Reconnect, Synced, Skip, Break, Emit, Die, Tick
  <2>2. /\ engine.lines \in Seq(Line) /\ engine.lines # <<>>
        /\ IsBestmove(Head(engine.lines))
    BY <1>1, <2>1 DEF ClientIInv, ClientOK, Bestmove, NextLine
  <2>. QED  BY <1>1, <2>1, <2>2, TailLines DEF ClientIInv, LinesOK
<1>2. ClientIInv /\ [ClientNext]_clientVars =>
        [\A c \in Call : at[c] = "trying" /\ at'[c] = "answered" =>
           Head(engine.lines) = <<"bestmove", Search(c)>>]_clientVars
  BY <1>1
<1>. QED  BY <1>2, ClientInvariance, PTL DEF ClientSpec, AnswersAreOwn

\* with_engine_retry refuses a call only after Threshold failures, none of them
\* older than the cool-down and no success between them.
THEOREM RefusalsAreDue == ClientSpec => RefusalsFollowABurst
<1> DEFINE Due == \E burst \in SUBSET DOMAIN failedAt :
                    /\ Cardinality(burst) >= Threshold
                    /\ \A n \in burst : now - failedAt[n] < Cooldown
<1>1. ASSUME ClientIInv, NEW c \in Call, Refuse(c)
      PROVE  Due
  <2>1. CountOK
    BY <1>1 DEF ClientIInv, Breaker
  <2>2. Cardinality(1..failures) = failures
    BY <2>1, FS_Interval DEF CountOK
  <2>3. failures >= Threshold /\ now - openedAt < Cooldown
    BY <1>1 DEF Refuse, IsTripped, IsCooling
  <2>4. \A n \in 1..failures : now - failedAt[n] < Cooldown
    BY <2>1, <2>3, RetryAssumption DEF CountOK
  <2>. QED  BY <2>1, <2>2, <2>3, <2>4 DEF CountOK
<1>2. ASSUME ClientIInv, ClientNext, NEW c \in Call, at[c] # "refused", at'[c] = "refused"
      PROVE  Refuse(c)
  <2>1. at \in [Call -> Places] /\ caller \in Call \cup {NoCall}
    BY <1>2 DEF ClientIInv, Breaker, CallsOK, ClientOK
  <2>2. CASE at' = at
    BY <1>2, <2>2
  <2>3. CASE \E d \in Call : EnterCall(d)
    BY <1>2, <2>1, <2>3 DEF EnterCall, Enter, CallAt
  <2>4. CASE \E d \in Call : RefuseCall(d)
    <3>1. PICK d \in Call : Refuse(d)
      BY <2>4 DEF RefuseCall
    <3>2. d = c
      BY <1>2, <2>1, <3>1 DEF Refuse, CallAt
    <3>. QED  BY <3>1, <3>2
  <2>5. CASE CallAgain
    BY <1>2, <2>1, <2>5 DEF CallAgain, Again, CallAt
  <2>6. CASE Bestmove
    BY <1>2, <2>1, <2>6 DEF Bestmove, Succeed, CallAt
  <2>7. CASE Broken
    BY <1>2, <2>1, <2>7 DEF Broken, Fail, Raise, CallAt, retryVars
  <2>. QED  BY <1>2, <2>2, <2>3, <2>4, <2>5, <2>6, <2>7
            DEF ClientNext, retryVars, Open, Greeted, Connected, Configured, ConfigureFails,
                Analyse, Reconnect, Synced, Skip, Break, Emit, Die, Tick
<1>3. ClientIInv /\ [ClientNext]_clientVars =>
        [\A c \in Call : at[c] # "refused" /\ at'[c] = "refused" => Due]_<<at, failures, openedAt>>
  <2>. SUFFICES ASSUME ClientIInv, [ClientNext]_clientVars
                PROVE  [\A c \in Call : at[c] # "refused" /\ at'[c] = "refused" => Due]_<<at, failures, openedAt>>
    OBVIOUS
  <2>1. CASE ClientNext
    BY <1>1, <1>2, <2>1
  <2>2. CASE UNCHANGED clientVars
    BY <2>2 DEF clientVars, retryVars
  <2>. QED  BY <2>1, <2>2
<1>. QED  BY <1>3, ClientInvariance, PTL DEF ClientSpec, RefusalsFollowABurst
=============================================================================
