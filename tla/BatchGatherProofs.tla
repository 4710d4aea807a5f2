------------------------- MODULE BatchGatherProofs -------------------------
(***************************************************************************)
(* Proofs about BatchGather, for every number of calls, positions, engines *)
(* and permits: nothing leaks, and the calls keep what Gathering promises. *)
(***************************************************************************)
EXTENDS BatchGather, FiniteSetTheorems, WellFoundedInduction, TLAPS

-----------------------------------------------------------------------------
(* The slices.                                                             *)

LEMMA Sizes ==
  ASSUME NEW n \in Nat
  PROVE  /\ WorkerCount(n) \in 1..PoolSize /\ Chunk(n) \in Nat
         /\ n = 0 => Chunk(n) = 0
         /\ n > 0 => Chunk(n) >= 1
         /\ n <= WorkerCount(n) * Chunk(n)
<1>1. WorkerCount(n) \in 1..PoolSize
  BY GatherAssumption DEF WorkerCount, MaxWorkers, AtLeast1, Smaller
<1> DEFINE w == WorkerCount(n)
           c == (n + w - 1) \div w
<1>. HIDE DEF w
<1>2. w \in Nat \ {0}
  BY <1>1, GatherAssumption DEF w
<1>3. /\ c \in Nat /\ w * c <= n + w - 1 /\ n + w - 1 < w * c + w
  BY <1>2
<1>4. n <= w * c
  BY <1>2, <1>3
<1>5. n > 0 => c >= 1
  BY <1>2, <1>3, <1>4
<1>6. n = 0 => c = 0
  BY <1>2, <1>3
<1>. QED  BY <1>1, <1>3, <1>4, <1>5, <1>6 DEF Chunk, w

\* Every position lies in a slice, and slices hold nothing else.
LEMMA SlicesTile ==
  ASSUME NEW n \in Nat
  PROVE  /\ UNION {Slice(n, i) : i \in Slices(n)} = 1..n
         /\ Slices(n) \subseteq 1..PoolSize
         /\ Slices(n) = {} <=> n = 0
         /\ \A i \in Slices(n) : Slice(n, i) \subseteq Nat
<1> DEFINE w == WorkerCount(n)
           c == Chunk(n)
<1>1. /\ w \in 1..PoolSize /\ c \in Nat /\ (n = 0 => c = 0) /\ (n > 0 => c >= 1)
      /\ n <= w * c /\ PoolSize \in Nat
  BY Sizes, GatherAssumption
<1>. HIDE DEF w, c
<1>2. ASSUME NEW k \in 1..n
      PROVE  \E i \in Slices(n) : k \in Slice(n, i)
  <2> DEFINE q == (k - 1) \div c
  <2>1. c \in Nat \ {0} /\ k - 1 \in Nat
    BY <1>1
  <2>2. q \in Nat /\ c * q <= k - 1 /\ k - 1 < c * q + c
    BY <2>1
  <2>3. q < w
    <3>1. CASE w <= q
      <4>1. PICK d \in Nat : q = w + d
        BY <1>1, <2>2, <3>1, q - w \in Nat
      <4>2. c * q = c * w + c * d /\ c * d \in Nat /\ c * w = w * c
        BY <1>1, <2>1, <4>1
      <4>. QED  BY <1>1, <1>2, <2>1, <2>2, <4>2
    <3>. QED  BY <1>1, <2>2, <3>1
  <2>. HIDE DEF q
  <2>4. /\ q + 1 \in 1..w /\ ((q + 1) - 1) * c = c * q /\ (q + 1) * c = c * q + c
    BY <1>1, <2>1, <2>2, <2>3
  <2>5. q + 1 \in Slices(n)
    <3>1. ((q + 1) - 1) * c < n
      <4>1. c * q < n /\ c * q \in Nat
        BY <2>1, <2>2, <1>2
      <4>. QED  BY <2>4, <4>1
    <3>. QED  BY <2>4, <3>1 DEF Slices, w, c
  <2>6. k \in Slice(n, q + 1)
    BY <2>2, <2>4, <2>1, <1>2 DEF Slice, Smaller, c
  <2>. QED  BY <2>5, <2>6
<1>3. ASSUME NEW i \in Slices(n), NEW k \in Slice(n, i)
      PROVE  k \in 1..n /\ k \in Nat
  <2>1. i \in 1..w /\ (i - 1) * c \in Nat /\ i * c \in Nat
    BY <1>1 DEF Slices, w, c
  <2>. QED  BY <1>3, <2>1 DEF Slice, Smaller, c
<1>4. Slices(n) \subseteq 1..PoolSize
  BY <1>1 DEF Slices, w
<1>5. Slices(n) = {} <=> n = 0
  <2>1. CASE n = 0
    BY <1>1, <2>1 DEF Slices, c, w
  <2>2. CASE n > 0
    BY <1>2, <2>2
  <2>. QED  BY <2>1, <2>2
<1>. QED  BY <1>2, <1>3, <1>4, <1>5

-----------------------------------------------------------------------------
(* The tasks.                                                              *)

Over == {"done", "raised"}
AllPlaces == {"new", "queued", "looking", "searching", "waiting", "done", "raised"}

LEMMA Tasks ==
  /\ IsFiniteSet(Task) /\ Worker \cap Single = {}
  /\ \A w \in Worker : /\ w[1] \in Gather /\ w[2] \in Slices(Len(Boards[w[1]]))
                       /\ w = <<w[1], w[2]>> /\ w \in Workers(w[1])
  /\ \A g \in Gather : Workers(g) \subseteq Worker /\ Len(Boards[g]) \in Nat
  /\ \A g \in Gather, h \in Gather : g # h => Workers(g) \cap Workers(h) = {}
<1>1. \A g \in Gather : Len(Boards[g]) \in Nat
  BY GatherAssumption
<1>2. \A g \in Gather : Slices(Len(Boards[g])) \subseteq 1..PoolSize
  BY <1>1, SlicesTile
<1>3. Worker \subseteq Gather \X (1..PoolSize)
  BY <1>2 DEF Worker, Workers
<1>4. IsFiniteSet(Task)
  <2>1. IsFiniteSet(1..PoolSize)
    BY GatherAssumption, FS_Interval
  <2>2. IsFiniteSet(Gather \X (1..PoolSize))
    BY <2>1, GatherAssumption, FS_Product
  <2>3. IsFiniteSet(Worker)
    BY <1>3, <2>2, FS_Subset
  <2>. QED  BY <2>3, GatherAssumption, FS_Union DEF Task
<1>5. Worker \cap Single = {}
  BY <1>3, GatherAssumption
<1>. QED  BY <1>1, <1>4, <1>5 DEF Worker, Workers

LEMMA WorkIsNumbered ==
  ASSUME NEW t \in Task
  PROVE  Indexes(t) \subseteq Nat
<1>1. CASE t \in Single
  BY <1>1 DEF Indexes, Work
<1>2. CASE t \in Worker
  <2>1. t[1] \in Gather /\ t[2] \in Slices(Len(Boards[t[1]])) /\ t \notin Single
    BY <1>2, Tasks
  <2>2. Slice(Len(Boards[t[1]]), t[2]) \subseteq Nat
    BY <2>1, SlicesTile, Tasks
  <2>. QED  BY <2>1, <2>2 DEF Indexes, Work
<1>. QED  BY <1>1, <1>2 DEF Task

\* A task that is not finished works at one of its own positions.
LEMMA HereIsAnIndex ==
  ASSUME NEW t \in Task, ~IsFinished(t)
  PROVE  Here(t) \in Indexes(t) \ DOMAIN found[t]
<1> DEFINE left == Indexes(t) \ DOMAIN found[t]
<1>1. left \subseteq Nat /\ left # {}
  BY WorkIsNumbered DEF IsFinished
<1>2. \E i \in left : \A j \in left : ~(<<j, i>> \in OpToRel(<, Nat))
  <2>. HIDE DEF left
  <2>. QED  BY <1>1, NatLessThanWellFounded, WFMin
<1>3. \E i \in left : \A j \in left : i <= j
  <2>1. \A i \in Nat, j \in Nat : j < i => <<j, i>> \in OpToRel(<, Nat)
    BY DEF OpToRel
  <2>. HIDE DEF left
  <2>2. PICK i \in left : \A j \in left : ~(<<j, i>> \in OpToRel(<, Nat))
    BY <1>2
  <2>3. ASSUME NEW j \in left PROVE i <= j
    <3>1. i \in Nat /\ j \in Nat /\ ~(j < i)
      BY <1>1, <2>1, <2>2
    <3>. QED  BY <3>1
  <2>. QED  BY <2>3
<1>. QED  BY <1>3 DEF Here

-----------------------------------------------------------------------------
(* What a task does: it goes from x to y and has found f afterwards.       *)

Fits(t, f) ==
  /\ DOMAIN f \subseteq Indexes(t)
  /\ \A i \in DOMAIN f : f[i] = BoardAt(t, i)
IsWorking(t, x) == x \in {"searching", "waiting"} \/ (t \in Single /\ x = "queued")

\* A task that is done has all its results, one that works lacks one.
Sound(t, x, f) ==
  /\ x \in AllPlaces
  /\ x = "new" => t \notin Single
  /\ Fits(t, f)
  /\ x = "done" => Indexes(t) \subseteq DOMAIN f
  /\ IsWorking(t, x) => ~(Indexes(t) \subseteq DOMAIN f)

TasksOK ==
  /\ place = [t \in Task |-> place[t]] /\ found = [t \in Task |-> found[t]]
  /\ \A t \in Task : Sound(t, place[t], found[t])

Moves(t) ==
  \/ UNCHANGED <<place, found>>
  \/ /\ place[t] \notin Over
     /\ \E y, f : /\ place' = [place EXCEPT ![t] = y]
                  /\ found' = [found EXCEPT ![t] = f]
                  /\ Sound(t, y, f)

\* The result that is noted is that of the position, and it is one more.
LEMMA NotedFits ==
  ASSUME TasksOK, NEW t \in Task, ~IsFinished(t), Note(t)
  PROVE  \E f : found' = [found EXCEPT ![t] = f] /\ Fits(t, f)
<1> DEFINE f == [i \in DOMAIN found[t] \cup {Here(t)} |->
                   IF i = Here(t) THEN Board(t) ELSE found[t][i]]
<1>1. found' = [found EXCEPT ![t] = f]
  BY DEF Note, TasksOK
<1>2. Fits(t, f)
  BY HereIsAnIndex DEF Fits, TasksOK, Sound, Board
<1>. HIDE DEF f
<1>. QED  BY <1>1, <1>2

LEMMA NothingFits ==
  ASSUME NEW t \in Task
  PROVE  Fits(t, Nothing)
BY DEF Fits, Nothing

\* Going somewhere with what was found before.
LEMMA GoingMoves ==
  ASSUME TasksOK, NEW t \in Task, NEW y \in AllPlaces \ {"new"}, Goto(t, y), UNCHANGED found,
         place[t] \notin Over,
         y = "done" => IsFinished(t), IsWorking(t, y) => ~IsFinished(t)
  PROVE  Moves(t)
<1>1. found' = [found EXCEPT ![t] = found[t]]
  BY DEF TasksOK
<1>2. Sound(t, y, found[t])
  BY DEF TasksOK, Sound, IsFinished
<1>. QED  BY <1>1, <1>2 DEF Moves, Goto

LEMMA LookingMoves ==
  ASSUME TasksOK, NEW t \in Task, Goto(t, "looking"), place[t] \notin Over,
         NEW f, found' = [found EXCEPT ![t] = f], Fits(t, f)
  PROVE  Moves(t)
<1>1. Sound(t, "looking", f)
  BY DEF Sound, IsWorking, AllPlaces
<1>. QED  BY <1>1 DEF Moves, Goto

LEMMA DropMoves ==
  ASSUME TasksOK, NEW t \in Task, Drop(t), place[t] \notin Over
  PROVE  Moves(t)
<1>1. CASE Goto(t, "looking") /\ found' = [found EXCEPT ![t] = Nothing]
  BY <1>1, NothingFits, LookingMoves
<1>2. CASE Leaves(t, "raised") /\ UNCHANGED found
  BY <1>2, GoingMoves DEF Leaves, AllPlaces, IsWorking
<1>. QED  BY <1>1, <1>2 DEF Drop

LEMMA SufferMoves ==
  ASSUME TasksOK, NEW t \in Task, NEW how, Suffer(t, how), place[t] \notin Over
  PROVE  Moves(t)
<1>1. CASE Leaves(t, "raised") /\ UNCHANGED found
  BY <1>1, GoingMoves DEF Leaves, AllPlaces, IsWorking
<1>. QED  BY <1>1, DropMoves DEF Suffer

LEMMA StepMoves ==
  ASSUME TasksOK, NEW t \in Task, Step(t)
  PROVE  Moves(t)
<1>0. \A x : IsWorking(t, x) /\ place[t] = x => ~IsFinished(t)
  BY DEF TasksOK, Sound, IsFinished
<1>1. CASE TakePermit(t)
  <2>1. t \notin Single
    BY <1>1 DEF TakePermit, TasksOK, Sound
  <2>. QED  BY <1>1, <2>1, GoingMoves DEF TakePermit, Over, AllPlaces, IsWorking
<1>2. CASE TakeEngine(t)
  BY <1>0, <1>2, GoingMoves DEF TakeEngine, Over, AllPlaces, IsWorking
<1>3. CASE Skip(t)
  <2>1. PICK f : found' = [found EXCEPT ![t] = f] /\ Fits(t, f)
    BY <1>3, NotedFits DEF Skip
  <2>2. place' = [place EXCEPT ![t] = "looking"] /\ place[t] \notin Over
    BY <1>3 DEF Skip, TasksOK, Over
  <2>. QED  BY <2>1, <2>2, LookingMoves DEF Goto
<1>4. CASE Join(t) \/ Lead(t)
  BY <1>4, GoingMoves DEF Join, Lead, Misses, Over, AllPlaces, IsWorking
<1>5. CASE Succeed(t)
  <2>1. ~IsFinished(t) /\ place[t] \notin Over /\ Goto(t, "looking")
    BY <1>0, <1>5 DEF Succeed, IsWorking, Over
  <2>2. PICK f : found' = [found EXCEPT ![t] = f] /\ Fits(t, f)
    BY <1>5, <2>1, NotedFits DEF Succeed
  <2>. QED  BY <2>1, <2>2, LookingMoves
<1>6. CASE Fail(t)
  BY <1>0, <1>6, GoingMoves DEF Fail, Over, AllPlaces, IsWorking, Moves
<1>7. CASE FailLast(t)
  <2>1. place[t] \notin Over
    BY <1>7 DEF FailLast, Over
  <2>2. CASE t \in Single
    BY <1>7, <2>1, <2>2, GoingMoves DEF FailLast, Leaves, AllPlaces, IsWorking
  <2>3. CASE t \notin Single
    BY <1>7, <2>1, <2>3, DropMoves DEF FailLast
  <2>. QED  BY <2>2, <2>3
<1>8. CASE Again(t)
  BY <1>8 DEF Again, Moves
<1>9. CASE Finish(t)
  BY <1>9, GoingMoves DEF Finish, Leaves, Over, AllPlaces, IsWorking
<1>10. CASE Refused(t)
  BY <1>10, SufferMoves DEF Refused, Misses, Over
<1>11. CASE GiveUp(t)
  BY <1>11, GoingMoves DEF GiveUp, Leaves, Over, AllPlaces, IsWorking
<1>12. CASE Woken(t)
  <2>1. ~IsFinished(t) /\ place[t] \notin Over
    BY <1>0, <1>12 DEF Woken, IsWorking, Over
  <2>2. CASE heard[t] = "result"
    <3>1. PICK f : found' = [found EXCEPT ![t] = f] /\ Fits(t, f)
      BY <1>12, <2>1, <2>2, NotedFits DEF Woken
    <3>. QED  BY <1>12, <2>1, <2>2, <3>1, LookingMoves DEF Woken
  <2>3. CASE heard[t] # "result"
    BY <1>12, <2>1, <2>3, SufferMoves DEF Woken
  <2>. QED  BY <2>2, <2>3
<1>. QED  BY <1>1, <1>2, <1>3, <1>4, <1>5, <1>6, <1>7, <1>8, <1>9, <1>10, <1>11, <1>12
          DEF Step, Starts, Searches, Ends

\* A move of one task leaves the others alone.
LEMMA MovesPreserve ==
  ASSUME TasksOK, NEW t \in Task, Moves(t)
  PROVE  TasksOK'
<1>1. CASE UNCHANGED <<place, found>>
  BY <1>1 DEF TasksOK, Sound, Fits
<1>2. ASSUME NEW y, NEW f, place' = [place EXCEPT ![t] = y],
             found' = [found EXCEPT ![t] = f], Sound(t, y, f)
      PROVE  TasksOK'
  BY <1>2 DEF TasksOK
<1>. QED  BY <1>1, <1>2 DEF Moves

-----------------------------------------------------------------------------
(* The promise.                                                            *)

\* What a call returns is read off the places of its slices.
LEMMA OutcomeIs ==
  ASSUME NEW g \in Gather
  PROVE  /\ Outcome[g] = IF \A w \in Workers(g) : place[w] = "done" THEN "answered"
                         ELSE IF \E w \in Workers(g) : place[w] = "raised" THEN "failed"
                         ELSE "open"
         /\ Results[g] = IF Outcome[g] = "answered" THEN Filed(g) ELSE {}
BY DEF Outcome, Results, Ended

\* Slices that have all their results have filed what was asked for.
LEMMA FiledIsComplete ==
  ASSUME NEW g \in Gather, NEW fd,
         \A w \in Workers(g) : Fits(w, fd[w]) /\ Indexes(w) \subseteq DOMAIN fd[w]
  PROVE  UNION {{<<i, fd[w][i]>> : i \in DOMAIN fd[w]} : w \in Workers(g)}
           = {<<i, Boards[g][i]>> : i \in DOMAIN Boards[g]}
<1> DEFINE n == Len(Boards[g])
           filed == UNION {{<<i, fd[w][i]>> : i \in DOMAIN fd[w]} : w \in Workers(g)}
<1>1. n \in Nat /\ DOMAIN Boards[g] = 1..n
  BY GatherAssumption
<1>2. Workers(g) = {<<g, i>> : i \in Slices(n)}
  BY DEF Workers
<1>3. ASSUME NEW i \in Slices(n)
      PROVE  /\ DOMAIN fd[<<g, i>>] = Slice(n, i)
             /\ \A k \in Slice(n, i) : fd[<<g, i>>][k] = Boards[g][k]
  <2> DEFINE w == <<g, i>>
  <2>1. w \in Workers(g) /\ w \in Task /\ w \notin Single /\ w[1] = g /\ w[2] = i
    BY <1>2, Tasks DEF Task
  <2>2. Indexes(w) = Slice(n, i) /\ \A k : BoardAt(w, k) = Boards[g][k]
    BY <2>1 DEF Indexes, Work, BoardAt
  <2>. QED  BY <2>1, <2>2 DEF Fits
<1>4. UNION {Slice(n, i) : i \in Slices(n)} = 1..n
  BY <1>1, SlicesTile
<1>. HIDE DEF n
<1>5. ASSUME NEW x \in filed
      PROVE  x \in {<<i, Boards[g][i]>> : i \in DOMAIN Boards[g]}
  <2>1. PICK i \in Slices(n) : \E k \in DOMAIN fd[<<g, i>>] : x = <<k, fd[<<g, i>>][k]>>
    BY <1>2, <1>5
  <2>2. PICK k \in Slice(n, i) : x = <<k, Boards[g][k]>>
    BY <1>3, <2>1
  <2>. QED  BY <1>1, <1>4, <2>2
<1>6. ASSUME NEW k \in 1..n
      PROVE  <<k, Boards[g][k]>> \in filed
  <2>1. PICK i \in Slices(n) : k \in Slice(n, i)
    BY <1>4
  <2>2. k \in DOMAIN fd[<<g, i>>] /\ fd[<<g, i>>][k] = Boards[g][k] /\ <<g, i>> \in Workers(g)
    BY <1>2, <1>3, <2>1
  <2>. QED  BY <2>2
<1>. HIDE DEF filed
<1>7. filed = {<<i, Boards[g][i]>> : i \in DOMAIN Boards[g]}
  BY <1>1, <1>5, <1>6
<1>. QED  BY <1>7 DEF filed

\* A call whose slices do not move keeps its outcome and its results.
LEMMA OthersStay ==
  ASSUME NEW g \in Gather,
         \A w \in Workers(g) : place'[w] = place[w] /\ found'[w] = found[w]
  PROVE  Outcome'[g] = Outcome[g] /\ Results'[g] = Results[g]
<1>1. Outcome'[g] = Outcome[g]
  BY DEF Outcome, Ended
<1>2. Filed(g)' = Filed(g)
  BY DEF Filed
<1>. QED  BY <1>1, <1>2 DEF Results

\* A call that ended stays as it is: no slice that is over moves again.
LEMMA EndedStays ==
  ASSUME TasksOK, NEW g \in Gather, NEW t \in Workers(g), NEW y, NEW f,
         place[t] \notin Over, place' = [place EXCEPT ![t] = y],
         found' = [found EXCEPT ![t] = f], Sound(t, y, f)
  PROVE  /\ Outcome[g] # "answered"
         /\ Outcome[g] = "failed" => Outcome'[g] = "failed"
<1>1. t \in Task
  BY Tasks DEF Task
<1>2. Outcome[g] # "answered"
  BY <1>1, OutcomeIs DEF Over
<1>3. ASSUME Outcome[g] = "failed" PROVE Outcome'[g] = "failed"
  <2>1. PICK w \in Workers(g) : place[w] = "raised"
    BY <1>3, OutcomeIs
  <2>2. place'[w] = "raised"
    BY <1>1, <2>1, Tasks DEF TasksOK, Over, Task
  <2>. QED  BY <2>2 DEF Outcome, Ended
<1>. QED  BY <1>2, <1>3

LEMMA StepKeepsPromise ==
  ASSUME TasksOK, NEW t \in Task, Moves(t)
  PROVE  [Promise!Next]_(Promise!vars)
<1>0. \A g \in Gather : Outcome[g] \in {"answered", "failed", "open"}
  BY OutcomeIs
<1>1. CASE UNCHANGED <<place, found>>
  <2>1. Outcome' = Outcome /\ Results' = Results
    BY <1>1 DEF Outcome, Ended, Results, Filed
  <2>. QED  BY <2>1 DEF Promise!vars
<1>2. ASSUME NEW y, NEW f, place[t] \notin Over, place' = [place EXCEPT ![t] = y],
             found' = [found EXCEPT ![t] = f], Sound(t, y, f)
      PROVE  [Promise!Next]_(Promise!vars)
  <2>0. \A s \in Task \ {t} : place'[s] = place[s] /\ found'[s] = found[s]
    BY <1>2 DEF TasksOK
  <2>1. CASE t \in Single
    <3>1. \A g \in Gather : Outcome'[g] = Outcome[g] /\ Results'[g] = Results[g]
      BY <2>0, <2>1, Tasks, OthersStay DEF Task
    <3>2. Outcome' = Outcome /\ Results' = Results
      BY <3>1 DEF Outcome, Results
    <3>. QED  BY <3>2 DEF Promise!vars
  <2>2. CASE t \in Worker
    <3>1. PICK g \in Gather : t \in Workers(g)
      BY <2>2, Tasks
    <3>2. \A h \in Gather \ {g} : Outcome'[h] = Outcome[h] /\ Results'[h] = Results[h]
      BY <2>0, <3>1, Tasks, OthersStay DEF Task
    <3>3. /\ Outcome[g] # "answered"
          /\ Outcome[g] = "failed" => Outcome'[g] = "failed"
      BY <1>2, <3>1, EndedStays
    <3>4. CASE Outcome'[g] = Outcome[g]
      <4>1. Results'[g] = Results[g]
        BY <3>3, <3>4 DEF Results
      <4>2. Outcome' = Outcome /\ Results' = Results
        BY <3>2, <3>4, <4>1 DEF Outcome, Results
      <4>. QED  BY <4>2 DEF Promise!vars
    <3>5. CASE Outcome'[g] # Outcome[g]
      <4>1. Outcome[g] = "open"
        BY <1>0, <3>3, <3>5
      <4>2. /\ Outcome' = [Outcome EXCEPT ![g] = Outcome'[g]]
            /\ Results' = [Results EXCEPT ![g] = Results'[g]]
        BY <3>2 DEF Outcome, Results
      <4>3. CASE Outcome'[g] = "answered"
        <5>1. \A w \in Workers(g) : place'[w] = "done"
          BY <4>3 DEF Outcome, Ended
        <5>2. TasksOK'
          BY MovesPreserve
        <5>3. Filed(g)' = {<<i, Boards[g][i]>> : i \in DOMAIN Boards[g]}
          <6>1. \A w \in Workers(g) : /\ Fits(w, found'[w])
                                      /\ Indexes(w) \subseteq DOMAIN found'[w]
            BY <5>1, <5>2, Tasks DEF TasksOK, Sound, Task
          <6>. QED  BY <6>1, FiledIsComplete DEF Filed
        <5>4. Results'[g] = {<<i, Boards[g][i]>> : i \in DOMAIN Boards[g]}
          BY <4>3, <5>3 DEF Results
        <5>. QED  BY <4>1, <4>2, <4>3, <5>4 DEF Promise!Next, Promise!Answer, Promise!End
      <4>4. CASE Outcome'[g] # "answered"
        <5>1. Outcome'[g] = "failed" /\ Results'[g] = {}
          BY <3>5, <4>1, <4>4 DEF Outcome, Results
        <5>. QED  BY <4>1, <4>2, <5>1 DEF Promise!Next, Promise!Fail, Promise!End
      <4>. QED  BY <4>3, <4>4
    <3>. QED  BY <3>4, <3>5
  <2>. QED  BY <2>1, <2>2 DEF Task
<1>. QED  BY <1>1, <1>2 DEF Moves

LEMMA InitTasks == Init => TasksOK
<1>. SUFFICES ASSUME Init PROVE TasksOK
  OBVIOUS
<1>1. ASSUME NEW t \in Task PROVE Sound(t, place[t], found[t])
  BY NothingFits DEF Init, Sound, AllPlaces, IsWorking
<1>. QED  BY <1>1 DEF Init, TasksOK

LEMMA NextTasks == TasksOK /\ [Next]_vars => TasksOK'
<1>. SUFFICES ASSUME TasksOK, [Next]_vars PROVE TasksOK'
  OBVIOUS
<1>1. CASE \E t \in Task : Step(t)
  BY <1>1, StepMoves, MovesPreserve
<1>2. CASE Heal \/ UNCHANGED vars
  BY <1>2 DEF Heal, vars, TasksOK, Sound, Fits
<1>. QED  BY <1>1, <1>2 DEF Next

LEMMA NextKeepsPromise == TasksOK /\ [Next]_vars => [Promise!Next]_(Promise!vars)
<1>. SUFFICES ASSUME TasksOK, [Next]_vars PROVE [Promise!Next]_(Promise!vars)
  OBVIOUS
<1>1. CASE \E t \in Task : Step(t)
  BY <1>1, StepMoves, StepKeepsPromise
<1>2. CASE Heal \/ UNCHANGED vars
  <2>1. UNCHANGED <<place, found>>
    BY <1>2 DEF Heal, vars
  <2>2. Outcome' = Outcome /\ Results' = Results
    BY <2>1 DEF Outcome, Ended, Results, Filed
  <2>. QED  BY <2>2 DEF Promise!vars
<1>. QED  BY <1>1, <1>2 DEF Next

\* Nobody has started: a call is open unless it has no positions.
LEMMA InitKeepsPromise == Init => Promise!Init
<1>. SUFFICES ASSUME Init PROVE Promise!Init
  OBVIOUS
<1>1. ASSUME NEW g \in Gather
      PROVE  /\ Outcome[g] = IF Boards[g] = <<>> THEN "answered" ELSE "open"
             /\ Results[g] = {}
  <2>1. \A w \in Workers(g) : place[w] = "new" /\ found[w] = Nothing
    BY Tasks DEF Init, Task
  <2>2. Workers(g) = {} <=> Boards[g] = <<>>
    <3>1. Len(Boards[g]) \in Nat /\ (Boards[g] = <<>> <=> Len(Boards[g]) = 0)
      BY GatherAssumption
    <3>2. Slices(Len(Boards[g])) = {} <=> Len(Boards[g]) = 0
      BY <3>1, SlicesTile
    <3>3. Workers(g) = {} <=> Slices(Len(Boards[g])) = {}
      BY DEF Workers
    <3>. QED  BY <3>1, <3>2, <3>3
  <2>3. Filed(g) = {}
    BY <2>1 DEF Filed, Nothing
  <2>. QED  BY <2>1, <2>2, <2>3, OutcomeIs
<1>. QED  BY <1>1 DEF Promise!Init, Outcome, Results

\* gather_evaluate_positions_bounded keeps its promise for any games, slices and
\* failures: it ends once, with one result for each position in their order or
\* with none, and what its slices do after it ended changes nothing.
THEOREM GatherKeepsPromise == Spec => KeepsPromise
BY InitTasks, NextTasks, InitKeepsPromise, NextKeepsPromise, PTL
DEF Spec, KeepsPromise, Promise!Spec

-----------------------------------------------------------------------------
(* Engines and permits.                                                    *)

Holds(t, x) == x = "searching" \/ (t \in Worker /\ x \in {"looking", "waiting"})
HasPermit(t, x) == t \in Worker /\ x \notin {"new", "done", "raised"}
One(b) == IF b THEN 1 ELSE 0

NumbersOK == idle \in Nat /\ lost \in Nat /\ permits \in Nat

\* A task that moves to y: the engines and permits it gains are those the pool
\* and the semaphore lose.
BalancesAt(t, y) ==
  /\ place' = [place EXCEPT ![t] = y]
  /\ idle' + lost' + One(Holds(t, y)) = idle + lost + One(Holds(t, place[t]))
  /\ permits' + One(HasPermit(t, y)) = permits + One(HasPermit(t, place[t]))
  /\ NumbersOK'
Balances(t) == \E y : BalancesAt(t, y)

\* What a task holds where it is.
LEMMA Hands ==
  /\ \A t \in Worker :
       /\ \A x \in {"looking", "waiting", "searching"} : One(Holds(t, x)) = 1
       /\ \A x \in {"new", "queued", "done", "raised"} : One(Holds(t, x)) = 0
       /\ \A x \in {"queued", "looking", "waiting", "searching"} : One(HasPermit(t, x)) = 1
       /\ \A x \in {"new", "done", "raised"} : One(HasPermit(t, x)) = 0
  /\ \A t \in Single :
       /\ One(Holds(t, "searching")) = 1
       /\ \A x \in {"new", "queued", "looking", "waiting", "done", "raised"} :
            One(Holds(t, x)) = 0
       /\ \A x : One(HasPermit(t, x)) = 0
BY Tasks DEF One, Holds, HasPermit

\* One task that changes sides changes the size of a set of tasks by one.
LEMMA OneMoves ==
  ASSUME NEW A, NEW B, IsFiniteSet(A), NEW t, A \ {t} = B \ {t}
  PROVE  /\ Cardinality(A) \in Nat /\ Cardinality(B) \in Nat
         /\ Cardinality(B) + One(t \in A) = Cardinality(A) + One(t \in B)
<1> DEFINE C == A \ {t}
<1>1. IsFiniteSet(C) /\ Cardinality(C) \in Nat /\ t \notin C
  BY FS_RemoveElement, FS_CardinalityType, FS_Subset
<1>2. Cardinality(A) = Cardinality(C) + One(t \in A)
  <2>1. CASE t \in A
    <3>1. A = C \cup {t}
      BY <2>1
    <3>. HIDE DEF C
    <3>. QED  BY <1>1, <2>1, <3>1, FS_AddElement DEF One
  <2>2. CASE t \notin A
    <3>1. A = C
      BY <2>2
    <3>. HIDE DEF C
    <3>. QED  BY <1>1, <2>2, <3>1 DEF One
  <2>. QED  BY <2>1, <2>2
<1>3. Cardinality(B) = Cardinality(C) + One(t \in B)
  <2>1. CASE t \in B
    <3>1. B = C \cup {t}
      BY <2>1
    <3>. HIDE DEF C
    <3>. QED  BY <1>1, <2>1, <3>1, FS_AddElement DEF One
  <2>2. CASE t \notin B
    <3>1. B = C
      BY <2>2
    <3>. HIDE DEF C
    <3>. QED  BY <1>1, <2>2, <3>1 DEF One
  <2>. QED  BY <2>1, <2>2
<1>4. One(t \in A) \in Nat /\ One(t \in B) \in Nat
  BY DEF One
<1>. HIDE DEF C
<1>. QED  BY <1>1, <1>2, <1>3, <1>4

\* What one side loses the other gains: the sum stays.
LEMMA Sums ==
  ASSUME NEW i \in Nat, NEW l \in Nat, NEW h \in Nat, NEW j \in Nat, NEW m \in Nat,
         NEW k \in Nat, NEW a \in Nat, NEW b \in Nat, NEW total \in Nat,
         i + l + h = total, j + m + b = i + l + a, k + a = h + b
  PROVE  j + m + k = total
OBVIOUS

LEMMA BalancesPreserve ==
  ASSUME TasksOK, NumbersOK, NothingLeaks, NEW t \in Task, Balances(t)
  PROVE  NumbersOK' /\ NothingLeaks'
<1>1. PICK y : BalancesAt(t, y)
  BY DEF Balances
<1>2. /\ Holding = {s \in Task : Holds(s, place[s])}
      /\ Holding' = {s \in Task : Holds(s, place'[s])}
  BY DEF Holding, Holds
<1>3. /\ Permitted = {s \in Task : HasPermit(s, place[s])}
      /\ Permitted' = {s \in Task : HasPermit(s, place'[s])}
  BY DEF Permitted, HasPermit, Task
<1>4. place'[t] = y /\ \A s \in Task \ {t} : place'[s] = place[s]
  BY <1>1 DEF TasksOK, BalancesAt
<1>5. IsFiniteSet(Holding) /\ IsFiniteSet(Permitted)
  BY <1>2, <1>3, Tasks, FS_Subset
<1>6. /\ Cardinality(Holding) \in Nat /\ Cardinality(Holding') \in Nat
      /\ Cardinality(Holding') + One(t \in Holding) = Cardinality(Holding) + One(t \in Holding')
  <2>1. Holding \ {t} = Holding' \ {t}
    BY <1>2, <1>4
  <2>. QED  BY <1>5, <2>1, OneMoves
<1>7. /\ Cardinality(Permitted) \in Nat /\ Cardinality(Permitted') \in Nat
      /\ Cardinality(Permitted') + One(t \in Permitted)
           = Cardinality(Permitted) + One(t \in Permitted')
  <2>1. Permitted \ {t} = Permitted' \ {t}
    BY <1>3, <1>4
  <2>. QED  BY <1>5, <2>1, OneMoves
<1>8. /\ One(t \in Holding) = One(Holds(t, place[t])) /\ One(t \in Holding') = One(Holds(t, y))
      /\ One(t \in Permitted) = One(HasPermit(t, place[t]))
      /\ One(t \in Permitted') = One(HasPermit(t, y))
  BY <1>2, <1>3, <1>4 DEF One
<1>9. /\ One(Holds(t, y)) \in Nat /\ One(Holds(t, place[t])) \in Nat
      /\ One(HasPermit(t, y)) \in Nat /\ One(HasPermit(t, place[t])) \in Nat
  BY DEF One
<1>10. PoolSize \in Nat /\ Permits \in Nat
  BY GatherAssumption
<1>11. idle' + lost' + Cardinality(Holding') = PoolSize
  BY <1>1, <1>6, <1>8, <1>9, <1>10, Sums DEF BalancesAt, NothingLeaks, NumbersOK
<1>12. permits' + Cardinality(Permitted') = Permits
  <2>1. permits + 0 + Cardinality(Permitted) = Permits
    BY DEF NothingLeaks, NumbersOK
  <2>2. /\ permits' + 0 + One(HasPermit(t, y)) = permits + 0 + One(HasPermit(t, place[t]))
        /\ permits \in Nat /\ permits' \in Nat
    BY <1>1 DEF BalancesAt, NumbersOK
  <2>3. Cardinality(Permitted') + One(HasPermit(t, place[t]))
          = Cardinality(Permitted) + One(HasPermit(t, y))
    BY <1>7, <1>8
  <2>4. permits' + 0 + Cardinality(Permitted') = Permits
    BY <1>7, <1>9, <1>10, <2>1, <2>2, <2>3, Sums
  <2>. QED  BY <1>7, <2>2, <2>4
<1>13. NumbersOK'
  BY <1>1 DEF BalancesAt
<1>. QED  BY <1>11, <1>12, <1>13 DEF NothingLeaks

LEMMA DropBalances ==
  ASSUME TasksOK, NumbersOK, NEW t \in Worker, Drop(t),
         place[t] \in {"looking", "searching", "waiting"}
  PROVE  Balances(t)
<1>0. t \notin Single
  BY Tasks
<1>1. CASE Goto(t, "looking") /\ UNCHANGED <<idle, lost, permits>>
  <2>1. BalancesAt(t, "looking")
    BY <1>1, Hands DEF BalancesAt, NumbersOK, Goto
  <2>. QED  BY <2>1 DEF Balances
<1>2. CASE Leaves(t, "raised") /\ lost' = lost + 1 /\ UNCHANGED idle
  <2>1. BalancesAt(t, "raised")
    BY <1>0, <1>2, Hands DEF BalancesAt, NumbersOK, Goto, Leaves
  <2>. QED  BY <2>1 DEF Balances
<1>. QED  BY <1>1, <1>2 DEF Drop

LEMMA SufferBalances ==
  ASSUME TasksOK, NumbersOK, NEW t \in Task, NEW how, Suffer(t, how),
         place[t] \in {"looking", "waiting"}
  PROVE  Balances(t)
<1>1. CASE t \in Worker /\ how = "transport"
  BY <1>1, DropBalances DEF Suffer
<1>2. CASE ~(t \in Worker /\ how = "transport")
  <2>1. /\ Leaves(t, "raised") /\ UNCHANGED lost
        /\ idle' = IF t \in Single THEN idle ELSE idle + 1
    BY <1>2 DEF Suffer
  <2>2. BalancesAt(t, "raised")
    <3>1. CASE t \in Single
      BY <2>1, <3>1, Hands DEF BalancesAt, NumbersOK, Goto, Leaves
    <3>2. CASE t \in Worker /\ t \notin Single
      BY <2>1, <3>2, Hands DEF BalancesAt, NumbersOK, Goto, Leaves
    <3>. QED  BY <3>1, <3>2 DEF Task
  <2>. QED  BY <2>2 DEF Balances
<1>. QED  BY <1>1, <1>2

LEMMA StepBalances ==
  ASSUME TasksOK, NumbersOK, NEW t \in Task, Step(t)
  PROVE  Balances(t) \/ UNCHANGED <<place, idle, lost, permits>>
<1>0. t \in Single <=> t \notin Worker
  BY Tasks DEF Task
<1>. USE DEF NumbersOK, Goto, poolVars
<1>1. CASE TakePermit(t)
  <2>1. t \in Worker
    BY <1>0, <1>1 DEF TakePermit, TasksOK, Sound
  <2>2. BalancesAt(t, "queued")
    BY <1>1, <2>1, Hands DEF TakePermit, BalancesAt
  <2>. QED  BY <2>2 DEF Balances
<1>2. CASE TakeEngine(t)
  <2>1. CASE t \in Single
    <3>1. BalancesAt(t, "searching")
      BY <1>2, <2>1, Hands DEF TakeEngine, BalancesAt
    <3>. QED  BY <3>1 DEF Balances
  <2>2. CASE t \in Worker
    <3>1. /\ place[t] = "queued" /\ idle > 0 /\ idle' = idle - 1
          /\ UNCHANGED <<lost, permits>> /\ place' = [place EXCEPT ![t] = "looking"]
      BY <1>0, <1>2, <2>2 DEF TakeEngine
    <3>2. BalancesAt(t, "looking")
      BY <2>2, <3>1, Hands DEF BalancesAt
    <3>. QED  BY <3>2 DEF Balances
  <2>. QED  BY <1>0, <2>1, <2>2
<1>3. CASE Skip(t)
  BY <1>3 DEF Skip
<1>4. CASE Join(t)
  <2>1. place[t] = "looking" /\ UNCHANGED <<idle, lost, permits>>
        /\ place' = [place EXCEPT ![t] = "waiting"]
    BY <1>4 DEF Join, Misses
  <2>2. BalancesAt(t, "waiting")
    BY <1>0, <2>1, Hands DEF BalancesAt
  <2>. QED  BY <2>2 DEF Balances
<1>5. CASE Lead(t)
  <2>1. place[t] = "looking" /\ UNCHANGED <<idle, lost, permits>>
        /\ place' = [place EXCEPT ![t] = IF t \in Single THEN "queued" ELSE "searching"]
    BY <1>5 DEF Lead, Misses
  <2>2. CASE t \in Single
    <3>1. BalancesAt(t, "queued")
      BY <2>1, <2>2, Hands DEF BalancesAt
    <3>. QED  BY <3>1 DEF Balances
  <2>3. CASE t \in Worker
    <3>1. BalancesAt(t, "searching")
      BY <1>0, <2>1, <2>3, Hands DEF BalancesAt
    <3>. QED  BY <3>1 DEF Balances
  <2>. QED  BY <1>0, <2>2, <2>3
<1>6. CASE Succeed(t)
  <2>1. /\ place[t] = "searching" /\ UNCHANGED <<lost, permits>>
        /\ place' = [place EXCEPT ![t] = "looking"]
        /\ idle' = IF t \in Single THEN idle + 1 ELSE idle
    BY <1>6 DEF Succeed
  <2>2. BalancesAt(t, "looking")
    <3>1. CASE t \in Single
      BY <2>1, <3>1, Hands DEF BalancesAt
    <3>2. CASE t \in Worker
      BY <1>0, <2>1, <3>2, Hands DEF BalancesAt
    <3>. QED  BY <1>0, <3>1, <3>2
  <2>. QED  BY <2>2 DEF Balances
<1>7. CASE Fail(t)
  <2>1. CASE t \in Single
    <3>1. BalancesAt(t, "queued")
      BY <1>7, <2>1, Hands DEF Fail, Replaced, BalancesAt
    <3>. QED  BY <3>1 DEF Balances
  <2>2. CASE t \in Worker
    BY <1>0, <1>7, <2>2 DEF Fail
  <2>. QED  BY <1>0, <2>1, <2>2
<1>8. CASE FailLast(t)
  <2>1. CASE t \in Single
    <3>1. BalancesAt(t, "raised")
      BY <1>8, <2>1, Hands DEF FailLast, Leaves, Replaced, BalancesAt
    <3>. QED  BY <3>1 DEF Balances
  <2>2. CASE t \in Worker
    BY <1>0, <1>8, <2>2, DropBalances DEF FailLast
  <2>. QED  BY <1>0, <2>1, <2>2
<1>9. CASE Again(t)
  BY <1>9 DEF Again
<1>10. CASE Finish(t)
  <2>1. BalancesAt(t, "done")
    <3>1. CASE t \in Single
      BY <1>10, <3>1, Hands DEF Finish, Leaves, BalancesAt
    <3>2. CASE t \in Worker
      BY <1>0, <1>10, <3>2, Hands DEF Finish, Leaves, BalancesAt
    <3>. QED  BY <1>0, <3>1, <3>2
  <2>. QED  BY <2>1 DEF Balances
<1>11. CASE Refused(t)
  BY <1>11, SufferBalances DEF Refused, Misses
<1>12. CASE GiveUp(t)
  <2>1. /\ place[t] = "queued" /\ UNCHANGED <<idle, lost>> /\ Leaves(t, "raised")
    BY <1>12 DEF GiveUp
  <2>2. BalancesAt(t, "raised")
    <3>1. CASE t \in Single
      BY <2>1, <3>1, Hands DEF Leaves, BalancesAt
    <3>2. CASE t \in Worker
      BY <1>0, <2>1, <3>2, Hands DEF Leaves, BalancesAt
    <3>. QED  BY <1>0, <3>1, <3>2
  <2>. QED  BY <2>2 DEF Balances
<1>13. CASE Woken(t)
  <2>1. CASE heard[t] = "result"
    <3>1. /\ place[t] = "waiting" /\ UNCHANGED <<idle, lost, permits>>
          /\ place' = [place EXCEPT ![t] = "looking"]
      BY <1>13, <2>1 DEF Woken
    <3>2. BalancesAt(t, "looking")
      BY <1>0, <3>1, Hands DEF BalancesAt
    <3>. QED  BY <3>2 DEF Balances
  <2>2. CASE heard[t] # "result"
    BY <1>13, <2>2, SufferBalances DEF Woken
  <2>. QED  BY <2>1, <2>2
<1>. QED  BY <1>1, <1>2, <1>3, <1>4, <1>5, <1>6, <1>7, <1>8, <1>9, <1>10, <1>11, <1>12, <1>13
          DEF Step, Starts, Searches, Ends

LeakInv == TasksOK /\ NumbersOK /\ NothingLeaks

LEMMA InitLeak == Init => LeakInv
<1>. SUFFICES ASSUME Init PROVE LeakInv
  OBVIOUS
<1>1. Holding = {} /\ Permitted = {}
  BY Tasks DEF Init, Holding, Permitted, Task
<1>. QED  BY <1>1, InitTasks, FS_EmptySet, GatherAssumption DEF Init, LeakInv, NumbersOK, NothingLeaks

LEMMA NextLeak == LeakInv /\ [Next]_vars => LeakInv'
<1>. SUFFICES ASSUME LeakInv, [Next]_vars PROVE LeakInv'
  OBVIOUS
<1>1. TasksOK'
  BY NextTasks DEF LeakInv
<1>2. CASE \E t \in Task : Step(t)
  <2>1. PICK t \in Task : Step(t)
    BY <1>2
  <2>2. CASE Balances(t)
    BY <1>1, <2>1, <2>2, BalancesPreserve DEF LeakInv
  <2>3. CASE UNCHANGED <<place, idle, lost, permits>>
    BY <1>1, <2>3 DEF LeakInv, NumbersOK, NothingLeaks, Holding, Permitted
  <2>. QED  BY <2>1, <2>2, <2>3, StepBalances DEF LeakInv
<1>3. CASE Heal
  <2>1. Holding' = Holding /\ Permitted' = Permitted
    BY <1>3 DEF Heal, Holding, Permitted
  <2>2. NumbersOK' /\ idle' + lost' = idle + lost /\ permits' = permits
    BY <1>3 DEF Heal, LeakInv, NumbersOK
  <2>. QED  BY <1>1, <2>1, <2>2 DEF LeakInv, NothingLeaks
<1>4. CASE UNCHANGED vars
  BY <1>1, <1>4 DEF vars, poolVars, LeakInv, NumbersOK, NothingLeaks, Holding, Permitted
<1>. QED  BY <1>2, <1>3, <1>4 DEF Next

\* Every engine is idle, lost or in the hands of one task, and every permit is
\* free or held by one slice, for any pool, any games and any failures.
THEOREM GatherLeaksNothing == Spec => []NothingLeaks
<1>1. LeakInv => NothingLeaks
  BY DEF LeakInv
<1>. QED  BY <1>1, InitLeak, NextLeak, PTL DEF Spec
=============================================================================
