---------------------------- MODULE ServerProofs ----------------------------
(***************************************************************************)
(* Proofs about the two servers of the repository, each for every number   *)
(* of clients.                                                             *)
(*                                                                         *)
(* EngineBroker, the UCI server: one session at the engine, the answers of *)
(* no session in another's search, and stops that hit what they were aimed *)
(* at.  Three facts carry this.  The lock, _active_session and the tasks   *)
(* agree (Tasks).  Every go or stop in Stockfish's stdin stands behind a   *)
(* command of its own search (Owned).  The handshake of the configuring    *)
(* session is either on its way in, with only its own commands behind it,  *)
(* or on its way out, with only its own lines behind it (Barrier).         *)
(*                                                                         *)
(* Admission, the HTTP server: no client exceeds its rate, whatever the    *)
(* rate, the capacity, the size of the map and the mixture of requests.    *)
(* That idle buckets may be forgotten without giving anything away rests   *)
(* on LimiterAssumption: a bucket that is idle for so long is full.        *)
(***************************************************************************)
EXTENDS EngineBroker, Admission, SequenceTheorems, TLAPS

------------------------------------------------------------
(* Queues: what joins at the end, what leaves at the head or in between.   *)

\* Appending to a queue.
LEMMA Appended ==
  ASSUME NEW S, NEW q \in Seq(S), NEW e \in S
  PROVE  /\ Append(q, e) \in Seq(S)
         /\ Append(q, e) # <<>>
         /\ Len(q) \in Nat
         /\ DOMAIN q = 1..Len(q) /\ DOMAIN Append(q, e) = 1..(Len(q) + 1)
         /\ \A i \in 1..Len(q) : Append(q, e)[i] = q[i]
         /\ Append(q, e)[Len(q) + 1] = e
         /\ Len(Append(q, e)) = Len(q) + 1
         /\ ToSet(Append(q, e)) = ToSet(q) \cup {e}
<1>1. /\ Append(q, e) \in Seq(S)
      /\ Append(q, e) # <<>>
      /\ Len(q) \in Nat
      /\ DOMAIN q = 1..Len(q) /\ DOMAIN Append(q, e) = 1..(Len(q) + 1)
      /\ \A i \in 1..Len(q) : Append(q, e)[i] = q[i]
      /\ Append(q, e)[Len(q) + 1] = e
      /\ Len(Append(q, e)) = Len(q) + 1
  BY AppendProperties, LenProperties
<1>2. ToSet(Append(q, e)) = ToSet(q) \cup {e}
  BY <1>1 DEF ToSet
<1> QED BY <1>1, <1>2

\* Taking the head of a queue.
LEMMA Taken ==
  ASSUME NEW S, NEW q \in Seq(S), q # <<>>
  PROVE  /\ Head(q) = q[1] /\ Head(q) \in S
         /\ Tail(q) \in Seq(S)
         /\ Len(q) \in Nat \ {0}
         /\ Len(Tail(q)) = Len(q) - 1
         /\ DOMAIN q = 1..Len(q) /\ DOMAIN Tail(q) = 1..(Len(q) - 1)
         /\ \A i \in 1..(Len(q) - 1) : Tail(q)[i] = q[i + 1]
         /\ Tail(q) = <<>> <=> Len(q) = 1
<1>1. /\ Head(q) = q[1] /\ Head(q) \in S
      /\ Tail(q) \in Seq(S)
      /\ Len(q) \in Nat \ {0}
      /\ Len(Tail(q)) = Len(q) - 1
      /\ DOMAIN q = 1..Len(q) /\ DOMAIN Tail(q) = 1..(Len(q) - 1)
      /\ \A i \in 1..(Len(q) - 1) : Tail(q)[i] = q[i + 1]
  BY HeadTailProperties, LenProperties
<1>2. Tail(q) = <<>> <=> Len(Tail(q)) = 0
  BY <1>1, EmptySeq
<1> QED BY <1>1, <1>2

\* A section of a queue.
LEMMA Section ==
  ASSUME NEW S, NEW q \in Seq(S), NEW m \in Int, NEW n \in Int,
         1 <= m, m <= n + 1, n <= Len(q)
  PROVE  /\ SubSeq(q, m, n) \in Seq(S)
         /\ Len(SubSeq(q, m, n)) = n - m + 1
         /\ \A j \in 1..(n - m + 1) : SubSeq(q, m, n)[j] = q[m + j - 1]
<1>1. \A j \in m..n : q[j] \in S
  BY LenProperties, ElementOfSeq
<1>2. /\ SubSeq(q, m, n) \in Seq(S)
      /\ Len(SubSeq(q, m, n)) = IF m <= n THEN n - m + 1 ELSE 0
      /\ \A j \in 1..(n - m + 1) : SubSeq(q, m, n)[j] = q[m + j - 1]
  BY <1>1, SubSeqProperties
<1>3. (IF m <= n THEN n - m + 1 ELSE 0) = n - m + 1
  OBVIOUS
<1> QED BY <1>2, <1>3

\* A session that leaves a queue of distinct sessions leaves the others in it.
LEMMA Removed ==
  ASSUME NEW S, NEW q \in Seq(S), IsInjective(q), NEW e \in ToSet(q)
  PROVE  /\ RemoveFirst(q, e) \in Seq(S)
         /\ IsInjective(RemoveFirst(q, e))
         /\ ToSet(RemoveFirst(q, e)) = ToSet(q) \ {e}
         /\ Head(q) # e =>
              RemoveFirst(q, e) # <<>> /\ Head(RemoveFirst(q, e)) = Head(q)
<1>0. Len(q) \in Nat /\ DOMAIN q = 1..Len(q) /\ \A j \in 1..Len(q) : q[j] \in S
  BY LenProperties, ElementOfSeq
<1>1. PICK i \in 1..Len(q) : q[i] = e
  BY <1>0 DEF ToSet
<1>2. {j \in 1..Len(q) : q[j] = e} = {i}
  BY <1>0, <1>1 DEF IsInjective
<1>3. Min({i}) = i
  BY <1>0, <1>1 DEF Min
<1>4. RemoveFirst(q, e) = RemoveAt(q, i)
  BY <1>1, <1>2, <1>3 DEF RemoveFirst, SelectInSeq
<1> DEFINE short == [j \in 1..(Len(q) - 1) |-> IF j < i THEN q[j] ELSE q[j + 1]]
<1>5. short \in Seq(S) /\ Len(short) = Len(q) - 1 /\ DOMAIN short = 1..(Len(q) - 1)
  BY <1>0, <1>1, IsASeq, LenProperties
<1>6. RemoveAt(q, i) = short
  <2>1. PICK front : front = SubSeq(q, 1, i - 1)
    OBVIOUS
  <2>2. PICK back : back = SubSeq(q, i + 1, Len(q))
    OBVIOUS
  <2>3. /\ front \in Seq(S) /\ Len(front) = i - 1
        /\ \A j \in 1..(i - 1) : front[j] = q[j]
    <3>1. PICK m \in Int : m = 1
      OBVIOUS
    <3>2. PICK n \in Int : n = i - 1
      BY <1>1
    <3>3. /\ SubSeq(q, m, n) \in Seq(S) /\ Len(SubSeq(q, m, n)) = n - m + 1
          /\ \A j \in 1..(n - m + 1) : SubSeq(q, m, n)[j] = q[m + j - 1]
      BY <1>0, <1>1, <3>1, <3>2, Section
    <3> QED BY <2>1, <3>1, <3>2, <3>3
  <2>4. /\ back \in Seq(S) /\ Len(back) = Len(q) - i
        /\ \A j \in 1..(Len(q) - i) : back[j] = q[i + j]
    <3>1. Len(q) \in Nat
      BY <1>0, Zenon
    <3>2. PICK m \in Int : m = i + 1
      BY <1>1
    <3>3. PICK n \in Int : n = Len(q)
      BY <3>1
    <3>4. 1 <= m /\ m <= n + 1 /\ n <= Len(q)
      BY <1>1, <3>1, <3>2, <3>3
    <3>5. /\ SubSeq(q, m, n) \in Seq(S) /\ Len(SubSeq(q, m, n)) = n - m + 1
          /\ \A j \in 1..(n - m + 1) : SubSeq(q, m, n)[j] = q[m + j - 1]
      BY <3>4, Section
    <3> QED BY <2>2, <3>2, <3>3, <3>5
  <2>5. /\ front \o back \in Seq(S) /\ Len(front \o back) = Len(q) - 1
        /\ \A j \in 1..(Len(q) - 1) :
             (front \o back)[j] = IF j <= i - 1 THEN front[j] ELSE back[j - (i - 1)]
    <3>1. /\ front \o back \in Seq(S)
          /\ Len(front \o back) = Len(front) + Len(back)
          /\ \A j \in 1..(Len(front) + Len(back)) : (front \o back)[j] =
               IF j <= Len(front) THEN front[j] ELSE back[j - Len(front)]
      BY <2>3, <2>4, ConcatProperties, Zenon
    <3>2. Len(front) + Len(back) = Len(q) - 1
      BY <2>3, <2>4, <1>0, <1>1
    <3> QED BY <2>3, <3>1, <3>2, Zenon
  <2>6. \A j \in 1..(Len(q) - 1) : (front \o back)[j] = short[j]
    BY <2>3, <2>4, <2>5, <1>0, <1>1
  <2>7. front \o back = short
    <3> HIDE DEF short
    <3> QED BY <1>5, <2>5, <2>6, SeqEqual
  <2> QED BY <2>1, <2>2, <2>7 DEF RemoveAt
<1>7. IsInjective(short)
  BY <1>0, <1>1 DEF IsInjective
<1>8. ToSet(short) = ToSet(q) \ {e}
  <2>1. ASSUME NEW x \in ToSet(short) PROVE x \in ToSet(q) /\ x # e
    BY <1>0, <1>1 DEF ToSet, IsInjective
  <2>2. ASSUME NEW x \in ToSet(q), x # e PROVE x \in ToSet(short)
    <3>1. PICK j \in 1..Len(q) : x = q[j]
      BY <1>0 DEF ToSet
    <3>2. j < i \/ j > i
      BY <1>0, <1>1, <2>2, <3>1
    <3>3. CASE j < i
      <4>1. j \in 1..(Len(q) - 1) /\ short[j] = x
        BY <1>0, <1>1, <3>1, <3>3
      <4> QED BY <1>5, <4>1 DEF ToSet
    <3>4. CASE j > i
      <4>1. j - 1 \in 1..(Len(q) - 1) /\ short[j - 1] = x
        BY <1>0, <1>1, <3>1, <3>4
      <4> QED BY <1>5, <4>1 DEF ToSet
    <3> QED BY <3>2, <3>3, <3>4
  <2> QED BY <2>1, <2>2
<1>9. Head(q) # e => short # <<>> /\ Head(short) = Head(q)
  <2> HAVE Head(q) # e
  <2>1. Head(q) = q[1] /\ i # 1 /\ Len(q) > 1
    BY <1>0, <1>1
  <2>2. 1 \in 1..(Len(q) - 1) /\ short[1] = q[1]
    BY <1>0, <1>1, <2>1
  <2>3. short # <<>> /\ Head(short) = short[1]
    <3> HIDE DEF short
    <3> QED BY <1>5, <2>2, HeadTailProperties, LenProperties
  <2> QED BY <2>1, <2>2, <2>3
<1> QED BY <1>4, <1>5, <1>6, <1>7, <1>8, <1>9

-----------------------------------------------------------------------------
(* The inductive invariant.                                                *)

\* A task that runs has been asked for a search.
AskedFor == \A s \in Session : task[s] \in Running => goes[s] # 0

\* Stockfish has the options of search q and runs no other.
Serves(q) == searching \in {NoSearch, q} /\ configured = q

\* Every go and every stop that Stockfish has not read stands behind a command
\* of its own search, or is the next command and Stockfish serves its search;
\* and what the active session sends next will stand like that as well.
Owned ==
  /\ \A i \in 1..Len(input) : input[i].cmd # "configure" =>
       IF i = 1 THEN Serves(input[1].of) ELSE input[i - 1].of = input[i].of
  /\ active # NoSession /\ alive =>
       IF input = <<>> THEN Serves(Current(active))
                       ELSE input[Len(input)].of = Current(active)
  /\ searching # NoSearch => configured = searching
  /\ ~alive => input = <<>> /\ searching = NoSearch

\* The handshake of s: its configure is the only one, and only commands of its
\* search follow ...
Configuring(s) ==
  /\ \A j \in 1..Len(output) : output[j].kind # "readyok"
  /\ \E i \in 1..Len(input) :
       /\ input[i] = [cmd |-> "configure", of |-> Current(s)]
       /\ \A j \in 1..Len(input) : /\ j # i => input[j].cmd # "configure"
                                   /\ j > i => input[j].of = Current(s)

\* ... or its readyok is the only one, and all that follows it is of s.
Ready(s) ==
  /\ \A j \in 1..Len(input) : input[j].cmd # "configure" /\ input[j].of = Current(s)
  /\ searching \in {NoSearch, Current(s)}
  /\ \E i \in 1..Len(output) :
       /\ output[i] = [kind |-> "readyok", of |-> Current(s)]
       /\ \A j \in 1..Len(output) : /\ j # i => output[j].kind # "readyok"
                                    /\ j > i => output[j].of = Current(s)

\* Stockfish died before its readyok.
Hopeless == ~alive /\ \A j \in 1..Len(output) : output[j].kind # "readyok"

\* Between two handshakes there is no configure and no readyok.
NoHandshake ==
  /\ \A j \in 1..Len(input) : input[j].cmd # "configure"
  /\ \A j \in 1..Len(output) : output[j].kind # "readyok"

\* All of the engine is with the search of s.
AllOf(s) ==
  /\ \A j \in 1..Len(input) : input[j].of = Current(s)
  /\ \A j \in 1..Len(output) : output[j].of = Current(s)
  /\ searching \in {NoSearch, Current(s)}

Barrier ==
  ~timedOut =>
    /\ \A s \in Session :
         /\ task[s] = "configuring" => Configuring(s) \/ Ready(s) \/ Hopeless
         /\ task[s] = "searching" => AllOf(s)
    /\ (\A s \in Session : task[s] # "configuring") => NoHandshake

IInv == TypeOK /\ OneSessionAtTheEngine /\ AskedFor /\ Owned /\ Barrier

USE DEF processVars

-----------------------------------------------------------------------------
(* The tasks and the lock.                                                 *)

\* A task that leaves is out of the lock; nothing else changes hands.
LEMMA LeavePreserves ==
  ASSUME TypeOK, OneSessionAtTheEngine, NEW s \in Session, task[s] \in Running, Leave(s)
  PROVE  /\ queue' \in Seq(Session) /\ IsInjective(queue')
         /\ active' \in Session \cup {NoSession}
         /\ task' \in [Session -> Running \cup {"none", "done"}]
         /\ OneSessionAtTheEngine'
<1> USE BrokerAssumption
<1>1. s \in ToSet(queue)
  BY DEF OneSessionAtTheEngine
<1>2. /\ queue' \in Seq(Session) /\ IsInjective(queue')
      /\ ToSet(queue') = ToSet(queue) \ {s}
      /\ Head(queue) # s => queue' # <<>> /\ Head(queue') = Head(queue)
  BY <1>1, Removed DEF Leave, TypeOK
<1>3. /\ active' \in Session \cup {NoSession}
      /\ task' \in [Session -> Running \cup {"none", "done"}]
      /\ task' = [task EXCEPT ![s] = "done"]
  BY DEF Leave, Step, TypeOK
<1>4. \A r \in Session : task'[r] \in Running <=> r \in ToSet(queue')
  BY <1>2, <1>3 DEF OneSessionAtTheEngine, Running, TypeOK
<1>5. \A r \in Session : task'[r] \in {"configuring", "searching"} <=> active' = r
  BY <1>3 DEF OneSessionAtTheEngine, Leave, TypeOK
<1>6. active' # NoSession => HoldsLock(active)'
  BY <1>2 DEF OneSessionAtTheEngine, HoldsLock, Leave
<1> QED BY <1>2, <1>3, <1>4, <1>5, <1>6 DEF OneSessionAtTheEngine

\* A command of a session that asked for a search has its type.
LEMMA SendTyped ==
  ASSUME TypeOK, AskedFor, NEW s \in Session, task[s] \in Running,
         NEW cmd \in {"configure", "go", "stop"}, Send(cmd, s)
  PROVE  input' \in Seq(Command)
<1>1. goes[s] \in 1..MaxGo
  BY BrokerAssumption DEF TypeOK, AskedFor
<1>2. [cmd |-> cmd, of |-> Current(s)] \in Command
  BY <1>1 DEF Command, Current, Searches
<1> QED BY <1>2, Appended DEF Send, TypeOK

\* The active session is one of the running ones.
LEMMA ActiveRuns ==
  ASSUME TypeOK, OneSessionAtTheEngine, active # NoSession
  PROVE  /\ active \in Session /\ task[active] \in {"configuring", "searching"}
         /\ task[active] \in Running
BY DEF TypeOK, OneSessionAtTheEngine, Running

\* Who may run, and who may talk to the engine, after each step.
Tasks == TypeOK /\ OneSessionAtTheEngine /\ AskedFor

\* A go queues a task that did not run.
LEMMA GoTasks ==
  ASSUME Tasks, NEW s \in Session, Go(s) PROVE Tasks'
<1> USE BrokerAssumption DEF Tasks
<1>1. s \notin ToSet(queue) /\ active # s
  BY DEF Go, OneSessionAtTheEngine, Running
<1>2. /\ queue' \in Seq(Session) /\ ToSet(queue') = ToSet(queue) \cup {s}
      /\ queue # <<>> => queue' # <<>> /\ Head(queue') = Head(queue)
      /\ IsInjective(queue')
  <2>1. queue' = Append(queue, s) /\ queue \in Seq(Session) /\ IsInjective(queue)
    BY DEF Go, TypeOK
  <2>2. /\ queue' \in Seq(Session) /\ ToSet(queue') = ToSet(queue) \cup {s}
        /\ Len(queue) \in Nat /\ queue' # <<>>
        /\ DOMAIN queue = 1..Len(queue) /\ DOMAIN queue' = 1..(Len(queue) + 1)
        /\ \A i \in 1..Len(queue) : queue'[i] = queue[i]
        /\ queue'[Len(queue) + 1] = s
    BY <2>1, Appended
  <2>3. IsInjective(queue')
    BY <1>1, <2>1, <2>2 DEF IsInjective, ToSet
  <2>4. queue # <<>> => Head(queue') = Head(queue)
    <3> HAVE queue # <<>>
    <3>1. Head(queue) = queue[1] /\ Len(queue) \in Nat \ {0} /\ Head(queue') = queue'[1]
      BY <2>1, <2>2, Taken
    <3> QED BY <2>2, <3>1
  <2> QED BY <2>2, <2>3, <2>4
<1>3. input' \in Seq(Command)
  <2>1. CASE active # NoSession /\ Send("stop", active)
    BY <2>1, ActiveRuns, SendTyped
  <2>2. CASE UNCHANGED input
    BY <2>2 DEF TypeOK
  <2> QED BY <2>1, <2>2 DEF Go, PreemptBackground
<1>4. /\ task' = [task EXCEPT ![s] = "queued"]
      /\ goes' = [goes EXCEPT ![s] = @ + 1] /\ goes[s] \in 0..MaxGo /\ goes[s] < MaxGo
      /\ UNCHANGED <<active, priority, link, output, processVars, timedOut>>
  BY DEF Go, Step, TypeOK
<1>5. TypeOK'
  BY <1>2, <1>3, <1>4 DEF TypeOK, Running
<1>6. OneSessionAtTheEngine'
  BY <1>1, <1>2, <1>4 DEF OneSessionAtTheEngine, HoldsLock, Running, TypeOK
<1>7. AskedFor'
  BY <1>4 DEF AskedFor, TypeOK
<1> QED BY <1>5, <1>6, <1>7

\* StopSearch and what goes with it in Stop and Disconnect.
LEMMA StopTasks ==
  ASSUME Tasks, NEW s \in Session, StopSearch(s),
         UNCHANGED <<priority, goes, output, processVars, timedOut>>,
         link' \in [Session -> {"open", "reset", "closed"}]
  PROVE  Tasks'
<1> USE DEF Tasks, brokerVars
<1>1. CASE task[s] \notin Running
  BY <1>1 DEF StopSearch, TypeOK, OneSessionAtTheEngine, HoldsLock, AskedFor
<1>2. CASE task[s] \in Running /\ active = s
  <2>1. Send("stop", s) /\ UNCHANGED brokerVars
    BY <1>2 DEF StopSearch
  <2>2. input' \in Seq(Command)
    BY <1>2, <2>1, SendTyped
  <2> QED BY <2>1, <2>2 DEF TypeOK, OneSessionAtTheEngine, HoldsLock, AskedFor
<1>3. CASE task[s] \in Running /\ active # s
  <2>1. Leave(s) /\ UNCHANGED input
    BY <1>3 DEF StopSearch
  <2>2. /\ queue' \in Seq(Session) /\ IsInjective(queue')
        /\ active' \in Session \cup {NoSession}
        /\ task' \in [Session -> Running \cup {"none", "done"}]
        /\ OneSessionAtTheEngine'
    BY <1>3, <2>1, LeavePreserves
  <2>3. AskedFor'
    BY <2>1 DEF AskedFor, Leave, Step, TypeOK, Running
  <2> QED BY <2>1, <2>2, <2>3 DEF TypeOK
<1> QED BY <1>1, <1>2, <1>3

\* The search task starts to talk to the engine, and goes on.
LEMMA ConfigureTasks ==
  ASSUME Tasks, NEW s \in Session, Configure(s)
  PROVE  Tasks' /\ active = NoSession
<1> USE BrokerAssumption DEF Tasks
<1>1. active = NoSession
  BY DEF Configure, TypeOK, OneSessionAtTheEngine, HoldsLock
<1>2. input' \in Seq(Command)
  BY SendTyped DEF Configure, Running
<1>3. TypeOK'
  BY <1>2 DEF Configure, Step, TypeOK, clientVars, Running
<1>4. OneSessionAtTheEngine'
  BY <1>1 DEF Configure, Step, TypeOK, OneSessionAtTheEngine, HoldsLock, Running
<1>5. AskedFor'
  BY DEF Configure, Step, TypeOK, AskedFor, clientVars, Running
<1> QED BY <1>1, <1>3, <1>4, <1>5

\* _run_search ends, on each of its ways out.
LEMMA LeaveTasks ==
  ASSUME Tasks, NEW s \in Session, task[s] \in Running, Leave(s), UNCHANGED clientVars,
         UNCHANGED <<input, processVars>>, timedOut' \in BOOLEAN,
         output' \in Seq(Line)
  PROVE  Tasks'
<1> USE DEF Tasks, clientVars
<1>1. /\ queue' \in Seq(Session) /\ IsInjective(queue')
      /\ active' \in Session \cup {NoSession}
      /\ task' \in [Session -> Running \cup {"none", "done"}]
      /\ OneSessionAtTheEngine'
  BY LeavePreserves
<1>2. AskedFor'
  BY DEF AskedFor, Leave, Step, TypeOK, Running
<1> QED BY <1>1, <1>2 DEF TypeOK

\* The readyok makes the configuring task a searching one.
LEMMA ReadTasks ==
  ASSUME Tasks, NEW s \in Session, ReadConfigLine(s)
  PROVE  Tasks' /\ active = s
<1> USE BrokerAssumption DEF Tasks
<1>1. active = s /\ output # <<>>
  BY DEF ReadConfigLine, OneSessionAtTheEngine
<1>2. output' \in Seq(Line)
  BY <1>1, Taken DEF ReadConfigLine, TypeOK
<1>3. CASE Send("go", s) /\ Step(s, "searching") /\ UNCHANGED <<queue, active>>
  <2>1. input' \in Seq(Command)
    BY <1>3, SendTyped DEF ReadConfigLine, Running
  <2>2. TypeOK'
    BY <1>2, <1>3, <2>1 DEF ReadConfigLine, Step, TypeOK, clientVars, Running
  <2>3. OneSessionAtTheEngine'
    BY <1>3 DEF ReadConfigLine, Step, TypeOK, OneSessionAtTheEngine, HoldsLock, Running
  <2>4. AskedFor'
    BY <1>3 DEF ReadConfigLine, Step, TypeOK, AskedFor, clientVars, Running
  <2> QED BY <1>1, <2>2, <2>3, <2>4
<1>4. CASE UNCHANGED <<input, brokerVars>>
  <2>1. TypeOK'
    BY <1>2, <1>4 DEF ReadConfigLine, TypeOK, clientVars, brokerVars
  <2> QED BY <1>1, <1>4, <2>1
          DEF ReadConfigLine, OneSessionAtTheEngine, HoldsLock, AskedFor, clientVars, brokerVars
<1>5. CASE Leave(s) /\ UNCHANGED input
  BY <1>1, <1>2, <1>5, LeaveTasks DEF ReadConfigLine, Running, TypeOK
<1> QED BY <1>3, <1>4, <1>5 DEF ReadConfigLine

\* A wait that times out and a line that is forwarded keep the lock in order.
LEMMA ForwardTasks ==
  ASSUME Tasks, NEW s \in Session,
         ConfigureTimeout(s) \/ Forward(s) \/ ForwardFails(s) \/ EngineGone(s)
  PROVE  Tasks'
<1>1. task[s] \in Running /\ UNCHANGED clientVars
  <2>1. CASE EngineGone(s)
    BY <2>1, Taken DEF EngineGone, HoldsLock, Tasks, TypeOK, OneSessionAtTheEngine, ToSet
  <2> QED BY <2>1 DEF ConfigureTimeout, Forward, ForwardFails, Running
<1>2. CASE ConfigureTimeout(s) \/ EngineGone(s)
  BY <1>1, <1>2, LeaveTasks DEF ConfigureTimeout, EngineGone, engineVars, Tasks, TypeOK
<1>3. CASE Forward(s) \/ ForwardFails(s)
  <2>1. /\ output' \in Seq(Line)
        /\ UNCHANGED <<clientVars, input, processVars, timedOut>>
    <3>1. output \in Seq(Line) /\ output # <<>> /\ output' = Tail(output)
      BY <1>3 DEF Forward, ForwardFails, Tasks, TypeOK
    <3>2. output' \in Seq(Line)
      BY <3>1, Taken
    <3> QED BY <1>3, <3>2 DEF Forward, ForwardFails
  <2>2. CASE Leave(s)
    BY <1>1, <2>1, <2>2, LeaveTasks DEF Tasks, TypeOK
  <2>3. CASE UNCHANGED brokerVars
    BY <2>1, <2>3 DEF Tasks, TypeOK, OneSessionAtTheEngine, HoldsLock, AskedFor,
                      brokerVars, clientVars
  <2> QED BY <1>3, <2>2, <2>3 DEF Forward, ForwardFails
<1> QED BY <1>2, <1>3

\* Stockfish reads and prints.
LEMMA ReadsTyped ==
  ASSUME TypeOK, NEW cmd, Reads(cmd)
  PROVE  Head(input) \in Command /\ Head(input).of \in Searches /\ input' \in Seq(Command)
<1>1. Head(input) \in Command /\ input' \in Seq(Command)
  BY Taken DEF Reads, TypeOK
<1> QED BY <1>1 DEF Command

\* What Stockfish prints has the type of a line.
LEMMA EmitTyped ==
  ASSUME TypeOK, NEW kind \in {"readyok", "info", "bestmove"}, NEW q \in Searches,
         Emit(kind, q)
  PROVE  output' \in Seq(Line)
<1>1. [kind |-> kind, of |-> q] \in Line
  BY DEF Line
<1> QED BY <1>1, Appended DEF Emit, TypeOK

\* Stockfish moves no task.
LEMMA EngineTasks ==
  ASSUME Tasks, EngineProgress \/ EngineChatter \/ EngineDies PROVE Tasks'
<1> USE DEF Tasks
<1>1. UNCHANGED <<brokerVars, clientVars, timedOut>>
  BY DEF EngineProgress, EngineChatter, EngineDies
<1>2. searching # NoSearch => searching \in Searches
  BY DEF TypeOK
<1>3. CASE EngineReady
  BY <1>1, <1>3, ReadsTyped, EmitTyped
  DEF EngineReady, TypeOK, OneSessionAtTheEngine, HoldsLock, AskedFor, brokerVars, clientVars
<1>4. CASE EngineGo
  BY <1>1, <1>4, ReadsTyped
  DEF EngineGo, TypeOK, OneSessionAtTheEngine, HoldsLock, AskedFor, brokerVars, clientVars
<1>5. CASE EngineStop
  <2>1. /\ input' \in Seq(Command) /\ searching' = NoSearch
        /\ UNCHANGED <<configured, alive>>
    BY <1>5, ReadsTyped DEF EngineStop
  <2>2. output' \in Seq(Line)
    BY <1>2, <1>5, EmitTyped DEF EngineStop, TypeOK
  <2> QED BY <1>1, <2>1, <2>2
          DEF TypeOK, OneSessionAtTheEngine, HoldsLock, AskedFor, brokerVars, clientVars
<1>6. CASE EngineBestmove \/ EngineInfo
  BY <1>1, <1>2, <1>6, EmitTyped
  DEF EngineBestmove, EngineInfo, TypeOK, OneSessionAtTheEngine, HoldsLock, AskedFor,
      brokerVars, clientVars
<1>7. CASE EngineDies
  BY <1>1, <1>7, EmptySeq
  DEF EngineDies, TypeOK, OneSessionAtTheEngine, HoldsLock, AskedFor, brokerVars, clientVars
<1> QED BY <1>3, <1>4, <1>5, <1>6, <1>7 DEF EngineProgress, EngineChatter

\* Every step keeps the lock, _active_session and the tasks in agreement.
LEMMA TasksStep == Tasks /\ [Next]_vars => Tasks'
<1> SUFFICES ASSUME Tasks, [Next]_vars PROVE Tasks'
  OBVIOUS
<1>1. ASSUME NEW s \in Session, Go(s) PROVE Tasks'
  BY <1>1, GoTasks
<1>2. ASSUME NEW s \in Session, Stop(s) \/ Disconnect(s) PROVE Tasks'
  BY <1>2, StopTasks DEF Stop, Disconnect, clientVars, Tasks, TypeOK
<1>3. ASSUME NEW s \in Session, Reset(s) PROVE Tasks'
  BY <1>3 DEF Reset, Tasks, TypeOK, OneSessionAtTheEngine, HoldsLock, AskedFor,
              brokerVars, engineVars
<1>4. ASSUME NEW s \in Session, SearchStep(s) PROVE Tasks'
  BY <1>4, ConfigureTasks, ReadTasks, ForwardTasks DEF SearchStep
<1>5. CASE EngineProgress \/ EngineChatter \/ EngineDies
  BY <1>5, EngineTasks
<1>6. CASE UNCHANGED vars
  BY <1>6 DEF vars, brokerVars, clientVars, engineVars, Tasks, TypeOK,
              OneSessionAtTheEngine, HoldsLock, AskedFor
<1> QED BY <1>1, <1>2, <1>3, <1>4, <1>5, <1>6 DEF Next, ClientStep

-----------------------------------------------------------------------------
(* Commands stand behind commands of their own search.                     *)

\* Nothing is sent and nothing read.
LEMMA OwnedKept ==
  ASSUME Owned, UNCHANGED <<input, processVars>>,
         active' # NoSession => active' = active /\ goes'[active] = goes[active]
  PROVE  Owned'
BY DEF Owned, Serves, Current

\* The active session sends a command.
LEMMA OwnedSend ==
  ASSUME Tasks, Owned, active # NoSession, NEW cmd \in {"configure", "go", "stop"},
         Send(cmd, active), active' = active, goes'[active] = goes[active],
         UNCHANGED processVars
  PROVE  Owned'
<1> DEFINE new == [cmd |-> cmd, of |-> Current(active)]
<1>0. CASE ~alive
  BY <1>0, OwnedKept DEF Send
<1> SUFFICES ASSUME alive PROVE Owned'
  BY <1>0
<1>1. input' = Append(input, new) /\ input \in Seq(Command)
  BY DEF Send, Tasks, TypeOK
<1>2. new \in Command
  <2>1. active \in Session /\ goes[active] \in 1..MaxGo
    BY ActiveRuns, BrokerAssumption DEF Tasks, TypeOK, AskedFor
  <2> QED BY <2>1 DEF Command, Current, Searches
<1>3. /\ Len(input) \in Nat /\ Len(input') = Len(input) + 1 /\ input' # <<>>
      /\ \A i \in 1..Len(input) : input'[i] = input[i]
      /\ input'[Len(input) + 1] = new
      /\ input = <<>> <=> Len(input) = 0
  <2> HIDE DEF new
  <2> QED BY <1>1, <1>2, Appended, EmptySeq
<1>4. new.of = Current(active) /\ Current(active)' = Current(active)
  BY DEF Current
<1>5. ASSUME NEW i \in 1..Len(input'), input'[i].cmd # "configure"
      PROVE  IF i = 1 THEN Serves(input[1].of)' ELSE input'[i - 1].of = input'[i].of
  <2> HIDE DEF new
  <2>1. CASE i \in 1..Len(input)
    BY <1>3, <1>5, <2>1 DEF Owned, Serves
  <2>2. CASE i = Len(input) + 1 /\ i = 1
    BY <1>3, <1>4, <2>2 DEF Owned, Serves
  <2>3. CASE i = Len(input) + 1 /\ i # 1
    BY <1>3, <1>4, <2>3 DEF Owned
  <2> QED BY <1>3, <2>1, <2>2, <2>3
<1>6. input'[Len(input')].of = Current(active)'
  <2> HIDE DEF new
  <2> QED BY <1>3, <1>4
<1> HIDE DEF new
<1> QED BY <1>3, <1>5, <1>6 DEF Owned, Serves

\* The next session starts with its configure.
LEMMA OwnedConfigure ==
  ASSUME Tasks, Owned, NEW s \in Session, Configure(s)
  PROVE  Owned'
<1> DEFINE new == [cmd |-> "configure", of |-> Current(s)]
<1>0. CASE ~alive
  BY <1>0 DEF Configure, Send, Owned
<1> SUFFICES ASSUME alive PROVE Owned'
  BY <1>0
<1>1. /\ input' = Append(input, new) /\ input \in Seq(Command)
      /\ active' = s /\ goes' = goes /\ UNCHANGED processVars
      /\ goes[s] \in 1..MaxGo
  BY BrokerAssumption DEF Configure, Send, clientVars, Tasks, TypeOK, AskedFor, Running
<1>2. new \in Command
  BY <1>1 DEF Command, Current, Searches
<1>3. /\ Len(input) \in Nat /\ Len(input') = Len(input) + 1 /\ input' # <<>>
      /\ \A i \in 1..Len(input) : input'[i] = input[i]
      /\ input'[Len(input) + 1] = new
  <2> HIDE DEF new
  <2> QED BY <1>1, <1>2, Appended
<1>4. new.of = Current(s) /\ Current(s) = Current(active') /\ new.cmd = "configure"
      /\ Current(active)' = Current(s)
  BY <1>1 DEF Current
<1> HIDE DEF new
<1>5. ASSUME NEW i \in 1..Len(input'), input'[i].cmd # "configure"
      PROVE  IF i = 1 THEN Serves(input[1].of)' ELSE input'[i - 1].of = input'[i].of
  <2>1. i \in 1..Len(input)
    BY <1>3, <1>4, <1>5
  <2> QED BY <1>1, <1>3, <1>5, <2>1 DEF Owned, Serves
<1> QED BY <1>1, <1>3, <1>4, <1>5 DEF Owned

\* Stockfish takes the first command: the next one is of the same search.
LEMMA OwnedRead ==
  ASSUME Tasks, Owned, input # <<>>, input' = Tail(input),
         searching' \in {NoSearch, Head(input).of}, configured' = Head(input).of,
         UNCHANGED <<active, goes, alive>>
  PROVE  Owned'
<1>1. /\ Head(input) = input[1] /\ Len(input) \in Nat \ {0}
      /\ Len(input') = Len(input) - 1
      /\ \A i \in 1..(Len(input) - 1) : input'[i] = input[i + 1]
      /\ input' = <<>> <=> Len(input) = 1
  BY Taken DEF Tasks, TypeOK
<1>2. ASSUME NEW i \in 1..Len(input'), input'[i].cmd # "configure"
      PROVE  IF i = 1 THEN Serves(input[1].of)' ELSE input'[i - 1].of = input'[i].of
  <2>1. i + 1 \in 1..Len(input) /\ i + 1 # 1 /\ input[i + 1].cmd # "configure"
        /\ input'[i] = input[i + 1] /\ (i + 1) - 1 = i
    BY <1>1, <1>2
  <2>2. input[i].of = input[i + 1].of
    BY <2>1 DEF Owned
  <2>3. CASE i = 1
    BY <1>1, <2>1, <2>2, <2>3 DEF Serves
  <2>4. CASE i # 1
    <3>1. i - 1 \in 1..(Len(input) - 1) /\ (i - 1) + 1 = i
      BY <1>1, <2>1, <2>4
    <3> QED BY <1>1, <2>1, <2>2, <2>4, <3>1
  <2> QED BY <2>3, <2>4
<1>3. ASSUME active # NoSession
      PROVE  IF input' = <<>> THEN Serves(Current(active))'
                              ELSE input'[Len(input')].of = Current(active)'
  <2>1. input[Len(input)].of = Current(active) /\ Current(active)' = Current(active)
    BY <1>3 DEF Owned, Current
  <2>2. CASE Len(input) = 1
    BY <1>1, <2>1, <2>2 DEF Serves
  <2>3. CASE Len(input) # 1
    BY <1>1, <2>1, <2>3
  <2> QED BY <2>2, <2>3
<1>4. alive
  BY DEF Owned
<1> QED BY <1>2, <1>3, <1>4 DEF Owned

\* Stockfish's search ends, or prints.
LEMMA OwnedSearch ==
  ASSUME Owned, UNCHANGED <<input, active, goes, configured, alive>>,
         searching' \in {NoSearch, searching}
  PROVE  Owned'
BY DEF Owned, Serves, Current

\* A stop is sent by the active session only, behind what it has sent.
LEMMA OwnedStop ==
  ASSUME Tasks, Owned, NEW s \in Session, StopSearch(s), UNCHANGED <<goes, processVars>>
  PROVE  Owned'
<1> USE BrokerAssumption
<1>1. CASE UNCHANGED <<input, active>>
  BY <1>1, OwnedKept
<1>2. CASE active = s /\ Send("stop", s) /\ UNCHANGED active
  BY <1>2, OwnedSend
<1>3. CASE Leave(s) /\ UNCHANGED input
  BY <1>3, OwnedKept DEF Leave
<1> QED BY <1>1, <1>2, <1>3 DEF StopSearch, brokerVars

\* Every step leaves the commands behind those of their own search.
LEMMA OwnedStep == Tasks /\ Owned /\ [Next]_vars => Owned'
<1> SUFFICES ASSUME Tasks, Owned, [Next]_vars PROVE Owned'
  OBVIOUS
<1> USE BrokerAssumption
<1>1. ASSUME NEW s \in Session, Go(s) PROVE Owned'
  <2>1. /\ active' = active /\ UNCHANGED processVars
        /\ active # NoSession => goes'[active] = goes[active]
    BY <1>1 DEF Go, Tasks, TypeOK, OneSessionAtTheEngine, Running
  <2>2. CASE UNCHANGED input
    BY <2>1, <2>2, OwnedKept
  <2>3. CASE active # NoSession /\ Send("stop", active)
    BY <2>1, <2>3, OwnedSend
  <2> QED BY <1>1, <2>2, <2>3 DEF Go, PreemptBackground
<1>2. ASSUME NEW s \in Session, Stop(s) \/ Disconnect(s) PROVE Owned'
  BY <1>2, OwnedStop DEF Stop, Disconnect, clientVars
<1>3. ASSUME NEW s \in Session, Reset(s) PROVE Owned'
  BY <1>3, OwnedKept DEF Reset, brokerVars, engineVars
<1>4. ASSUME NEW s \in Session, Configure(s) PROVE Owned'
  BY <1>4, OwnedConfigure
<1>5. ASSUME NEW s \in Session, ReadConfigLine(s) PROVE Owned'
  <2>1. active = s /\ UNCHANGED <<goes, processVars>>
    BY <1>5, ReadTasks DEF ReadConfigLine, clientVars
  <2>2. CASE Send("go", s) /\ UNCHANGED active
    BY <2>1, <2>2, OwnedSend
  <2>3. CASE UNCHANGED input /\ (UNCHANGED active \/ Leave(s))
    BY <2>1, <2>3, OwnedKept DEF Leave
  <2> QED BY <1>5, <2>2, <2>3 DEF ReadConfigLine, brokerVars
<1>6. ASSUME NEW s \in Session,
             ConfigureTimeout(s) \/ Forward(s) \/ ForwardFails(s) \/ EngineGone(s)
      PROVE  Owned'
  BY <1>6, OwnedKept
  DEF ConfigureTimeout, Forward, ForwardFails, EngineGone, Leave, clientVars, engineVars,
      brokerVars
<1>7. CASE EngineProgress \/ EngineChatter
  <2>1. UNCHANGED <<active, goes>>
    BY <1>7 DEF EngineProgress, EngineChatter, brokerVars, clientVars
  <2>2. ASSUME input # <<>>, Head(input).cmd # "configure"
        PROVE  configured = Head(input).of
    <3>1. Head(input) = input[1] /\ 1 \in 1..Len(input)
      BY <2>2, Taken DEF Tasks, TypeOK
    <3> QED BY <2>2, <3>1 DEF Owned, Serves
  <2>3. CASE EngineReady \/ EngineGo \/ EngineStop
    BY <2>1, <2>2, <2>3, OwnedRead DEF EngineReady, EngineGo, EngineStop, Reads
  <2>4. CASE EngineBestmove \/ EngineInfo
    BY <2>1, <2>4, OwnedSearch DEF EngineBestmove, EngineInfo
  <2> QED BY <1>7, <2>3, <2>4 DEF EngineProgress, EngineChatter
<1>8. CASE UNCHANGED vars
  BY <1>8, OwnedKept DEF vars, brokerVars, clientVars, engineVars
<1>9. CASE EngineDies
  BY <1>9, EmptySeq DEF EngineDies, Owned
<1> QED BY <1>1, <1>2, <1>3, <1>4, <1>5, <1>6, <1>7, <1>8, <1>9 DEF Next, ClientStep, SearchStep

-----------------------------------------------------------------------------
(* The readyok is a barrier.                                               *)

\* Only the active session configures or searches.
LEMMA OnlyActive ==
  ASSUME Tasks, NEW s \in Session, NEW r \in Session, active = s,
         task[r] \in {"configuring", "searching"}
  PROVE  r = s
BY DEF Tasks, OneSessionAtTheEngine

\* The engine is left alone, and no task takes up talking to it.
LEMMA BarrierKept ==
  ASSUME Barrier, UNCHANGED engineVars, timedOut' \in {timedOut, TRUE},
         \A r \in Session : task'[r] \in {"configuring", "searching"} =>
                              task'[r] = task[r] /\ goes'[r] = goes[r],
         timedOut' \/ \A r \in Session : task[r] = "configuring" => task'[r] = "configuring"
  PROVE  Barrier'
<1> USE DEF engineVars
<1> SUFFICES ASSUME ~timedOut'
             PROVE  /\ \A s \in Session :
                         /\ task'[s] = "configuring" => (Configuring(s) \/ Ready(s) \/ Hopeless)'
                         /\ task'[s] = "searching" => AllOf(s)'
                    /\ (\A s \in Session : task'[s] # "configuring") => NoHandshake'
  BY DEF Barrier
<1>1. ASSUME NEW s \in Session, task'[s] = "configuring"
      PROVE  (Configuring(s) \/ Ready(s) \/ Hopeless)'
  <2>1. Current(s)' = Current(s) /\ (Configuring(s) \/ Ready(s) \/ Hopeless)
    BY <1>1 DEF Barrier, Current
  <2>2. (Configuring(s) => Configuring(s)') /\ (Ready(s) => Ready(s)') /\ (Hopeless => Hopeless')
    BY <2>1 DEF Configuring, Ready, Hopeless
  <2> QED BY <2>1, <2>2
<1>2. ASSUME NEW s \in Session, task'[s] = "searching" PROVE AllOf(s)'
  BY <1>2 DEF Barrier, AllOf, Current
<1>3. ASSUME \A s \in Session : task'[s] # "configuring" PROVE NoHandshake'
  BY <1>3 DEF Barrier, NoHandshake
<1> QED BY <1>1, <1>2, <1>3

\* A command other than configure, for the active session: it comes behind
\* everything the session has asked for.
LEMMA BarrierSend ==
  ASSUME Tasks, Barrier, NEW s \in Session, active = s, Send("stop", s),
         UNCHANGED <<output, processVars, timedOut>>, goes'[s] = goes[s],
         \A r \in Session : task'[r] \in {"configuring", "searching"} => r = s,
         task'[s] = task[s]
  PROVE  Barrier'
<1> DEFINE new == [cmd |-> "stop", of |-> Current(s)]
<1>0. CASE ~alive
  <2>1. \A r \in Session : task[r] = "configuring" => r = s
    BY OnlyActive
  <2> QED BY <1>0, <2>1, BarrierKept DEF Send, engineVars
<1> SUFFICES ASSUME alive PROVE Barrier'
  BY <1>0
<1>1. new \in Command /\ input \in Seq(Command) /\ input' = Append(input, new)
  <2>1. goes[s] \in 1..MaxGo
    BY ActiveRuns, BrokerAssumption DEF Tasks, TypeOK, AskedFor
  <2> QED BY <2>1 DEF Command, Current, Searches, Tasks, TypeOK, Send
<1>2. new.cmd # "configure" /\ new.of = Current(s) /\ Current(s)' = Current(s)
  BY DEF Current
<1> HIDE DEF new
<1>3. /\ Len(input) \in Nat /\ Len(input') = Len(input) + 1
      /\ \A i \in 1..Len(input) : input'[i] = input[i]
      /\ input'[Len(input) + 1] = new
  BY <1>1, Appended
<1>4. \A i \in 1..Len(input') : i \in 1..Len(input) \/ (i = Len(input) + 1 /\ input'[i] = new)
  BY <1>3
<1>5. Configuring(s) => Configuring(s)'
  <2> SUFFICES ASSUME Configuring(s) PROVE Configuring(s)'
    OBVIOUS
  <2>1. PICK i \in 1..Len(input) :
          /\ input[i] = [cmd |-> "configure", of |-> Current(s)]
          /\ \A j \in 1..Len(input) : /\ j # i => input[j].cmd # "configure"
                                      /\ j > i => input[j].of = Current(s)
    BY DEF Configuring
  <2>2. /\ i \in 1..Len(input') /\ input'[i] = [cmd |-> "configure", of |-> Current(s)]
        /\ \A j \in 1..Len(input') : /\ j # i => input'[j].cmd # "configure"
                                     /\ j > i => input'[j].of = Current(s)
    BY <1>2, <1>3, <1>4, <2>1
  <2> QED BY <1>2, <2>2 DEF Configuring
<1>6. Ready(s) => Ready(s)'
  BY <1>2, <1>3, <1>4 DEF Ready
<1>7. AllOf(s) => AllOf(s)'
  BY <1>2, <1>3, <1>4 DEF AllOf
<1>8. NoHandshake => NoHandshake'
  BY <1>2, <1>3, <1>4 DEF NoHandshake
<1>9. (\A r \in Session : task'[r] # "configuring") => \A r \in Session : task[r] # "configuring"
  BY OnlyActive
<1> QED BY <1>5, <1>6, <1>7, <1>8, <1>9 DEF Barrier, Hopeless

\* The handshake begins when the last one is over.
LEMMA BarrierConfigure ==
  ASSUME Tasks, Barrier, NEW s \in Session, Configure(s)
  PROVE  Barrier'
<1> DEFINE new == [cmd |-> "configure", of |-> Current(s)]
<1>0. /\ active = NoSession /\ task' = [task EXCEPT ![s] = "configuring"]
      /\ UNCHANGED <<goes, output, processVars, timedOut>>
      /\ task \in [Session -> Running \cup {"none", "done"}]
      /\ \A r \in Session : task[r] \notin {"configuring", "searching"}
  BY ConfigureTasks, BrokerAssumption
     DEF Configure, Step, clientVars, Tasks, TypeOK, OneSessionAtTheEngine
<1> SUFFICES ASSUME ~timedOut' PROVE Barrier'
  BY DEF Barrier
<1>4. NoHandshake
  BY <1>0 DEF Barrier
<1>6. \A r \in Session : /\ task'[r] # "searching"
                         /\ task'[r] = "configuring" => r = s
                         /\ task'[s] = "configuring"
  BY <1>0
<1>7. CASE ~alive
  <2>1. Hopeless'
    BY <1>0, <1>4, <1>7 DEF Hopeless, NoHandshake
  <2> QED BY <1>6, <2>1 DEF Barrier
<1> SUFFICES ASSUME alive PROVE Barrier'
  BY <1>7
<1>1. new \in Command /\ input \in Seq(Command) /\ input' = Append(input, new)
  <2>1. goes[s] \in 1..MaxGo
    BY BrokerAssumption DEF Configure, Running, Tasks, TypeOK, AskedFor
  <2> QED BY <2>1 DEF Configure, Command, Current, Searches, Tasks, TypeOK, Send
<1>2. new.of = Current(s) /\ Current(s)' = Current(s)
  BY <1>0 DEF Current
<1>3. /\ Len(input) \in Nat /\ Len(input') = Len(input) + 1
      /\ \A i \in 1..Len(input) : input'[i] = input[i]
      /\ input'[Len(input) + 1] = new
  <2> HIDE DEF new
  <2> QED BY <1>1, Appended
<1>5. Configuring(s)'
  <2>1. \A j \in 1..Len(input') : /\ j # Len(input) + 1 => input'[j].cmd # "configure"
                                  /\ ~(j > Len(input) + 1)
    BY <1>3, <1>4 DEF NoHandshake
  <2>2. Len(input) + 1 \in 1..Len(input')
    BY <1>3
  <2>3. \A j \in 1..Len(output') : output'[j].kind # "readyok"
    BY <1>0, <1>4 DEF NoHandshake
  <2> QED BY <1>2, <1>3, <2>1, <2>2, <2>3 DEF Configuring
<1> QED BY <1>5, <1>6 DEF Barrier

\* A line that leaves stdout.
LEMMA LineTaken ==
  ASSUME Tasks, output # <<>>, output' = Tail(output)
  PROVE  /\ Head(output) = output[1] /\ Len(output) \in Nat \ {0}
         /\ Len(output') = Len(output) - 1
         /\ \A i \in 1..Len(output') : i + 1 \in 1..Len(output) /\ output'[i] = output[i + 1]
<1>1. /\ Head(output) = output[1] /\ Len(output) \in Nat \ {0}
      /\ Len(output') = Len(output) - 1
      /\ \A i \in 1..(Len(output) - 1) : output'[i] = output[i + 1]
  BY Taken DEF Tasks, TypeOK
<1> QED BY <1>1

\* A wait for the readyok: a line of an older search is dropped, the readyok
\* ends the handshake with nothing but the own search behind it.
LEMMA BarrierRead ==
  ASSUME Tasks, Owned, Barrier, NEW s \in Session, ReadConfigLine(s)
  PROVE  Barrier'
<1>0. /\ active = s /\ output # <<>> /\ output' = Tail(output) /\ task[s] = "configuring"
      /\ UNCHANGED <<goes, processVars, timedOut>>
      /\ task \in [Session -> Running \cup {"none", "done"}]
  BY ReadTasks DEF ReadConfigLine, clientVars, Tasks, TypeOK
<1>1. /\ Head(output) = output[1] /\ Len(output) \in Nat \ {0}
      /\ Len(output') = Len(output) - 1
      /\ \A i \in 1..Len(output') : i + 1 \in 1..Len(output) /\ output'[i] = output[i + 1]
  BY <1>0, LineTaken
<1> SUFFICES ASSUME ~timedOut, ~timedOut' PROVE Barrier'
  BY <1>0 DEF Barrier
<1>2. Configuring(s) \/ Ready(s) \/ Hopeless
  BY <1>0 DEF Barrier
<1>3. Current(s)' = Current(s)
  BY <1>0 DEF Current
<1>4. CASE Head(output).kind = "readyok"
  <2>1. Ready(s)
    BY <1>1, <1>2, <1>4 DEF Configuring, Hopeless
  <2>2. PICK k \in 1..Len(output) :
          /\ output[k] = [kind |-> "readyok", of |-> Current(s)]
          /\ \A j \in 1..Len(output) : /\ j # k => output[j].kind # "readyok"
                                       /\ j > k => output[j].of = Current(s)
    BY <2>1 DEF Ready
  <2>3. k = 1
    BY <1>1, <1>4, <2>2
  <2>4. \A j \in 1..Len(output') : output'[j].of = Current(s) /\ output'[j].kind # "readyok"
    BY <1>1, <2>2, <2>3
  <2>5. \/ Send("go", s) /\ task' = [task EXCEPT ![s] = "searching"]
        \/ UNCHANGED input /\ task' = [task EXCEPT ![s] = "done"]
    BY <1>4 DEF ReadConfigLine, Step, Leave
  <2>9. \A j \in 1..Len(input') : input'[j].cmd # "configure" /\ input'[j].of = Current(s)
    <3>1. CASE UNCHANGED input
      BY <2>1, <3>1 DEF Ready
    <3>2. CASE alive /\ Send("go", s)
      <4> DEFINE new == [cmd |-> "go", of |-> Current(s)]
      <4>1. new \in Command /\ input \in Seq(Command) /\ input' = Append(input, new)
        <5>1. goes[s] \in 1..MaxGo
          BY <1>0, BrokerAssumption DEF Running, Tasks, TypeOK, AskedFor
        <5> QED BY <3>2, <5>1 DEF Command, Current, Searches, Tasks, TypeOK, Send
      <4>2. new.of = Current(s) /\ new.cmd # "configure"
        OBVIOUS
      <4> HIDE DEF new
      <4>3. /\ Len(input) \in Nat /\ Len(input') = Len(input) + 1
            /\ \A i \in 1..Len(input) : input'[i] = input[i]
            /\ input'[Len(input) + 1] = new
        BY <4>1, Appended
      <4> QED BY <2>1, <4>2, <4>3 DEF Ready
    <3> QED BY <2>5, <3>1, <3>2 DEF Send
  <2>10. AllOf(s)'
    BY <1>0, <1>3, <2>1, <2>4, <2>9 DEF AllOf, Ready
  <2>11. NoHandshake'
    BY <2>4, <2>9 DEF NoHandshake
  <2>12. \A r \in Session : /\ task'[r] # "configuring"
                            /\ task'[r] = "searching" => r = s
    BY <1>0, <2>5, OnlyActive
  <2> QED BY <2>10, <2>11, <2>12 DEF Barrier
<1>5. CASE Head(output).kind # "readyok"
  <2>1. UNCHANGED <<input, task>>
    BY <1>5 DEF ReadConfigLine, brokerVars
  <2>2. Configuring(s) => Configuring(s)'
    BY <1>1, <1>3, <2>1 DEF Configuring
  <2>3. Ready(s) => Ready(s)'
    <3> SUFFICES ASSUME Ready(s) PROVE Ready(s)'
      OBVIOUS
    <3>1. PICK k \in 1..Len(output) :
            /\ output[k] = [kind |-> "readyok", of |-> Current(s)]
            /\ \A j \in 1..Len(output) : /\ j # k => output[j].kind # "readyok"
                                         /\ j > k => output[j].of = Current(s)
      BY DEF Ready
    <3>2. k - 1 \in 1..Len(output') /\ (k - 1) + 1 = k
      BY <1>1, <1>5, <3>1
    <3>3. output'[k - 1] = [kind |-> "readyok", of |-> Current(s)]
      BY <1>1, <3>1, <3>2
    <3>4. \A j \in 1..Len(output') : /\ j # k - 1 => output'[j].kind # "readyok"
                                     /\ j > k - 1 => output'[j].of = Current(s)
      <4> TAKE j \in 1..Len(output')
      <4>1. j + 1 \in 1..Len(output) /\ output'[j] = output[j + 1] /\ j \in Int
        BY <1>1
      <4>2. (j # k - 1 => j + 1 # k) /\ (j > k - 1 => j + 1 > k)
        BY <4>1
      <4> QED BY <3>1, <4>1, <4>2
    <3>5. /\ \A j \in 1..Len(input') : input'[j].cmd # "configure" /\ input'[j].of = Current(s)
          /\ searching' \in {NoSearch, Current(s)}
      BY <1>0, <2>1 DEF Ready
    <3>6. \E i \in 1..Len(output') :
            /\ output'[i] = [kind |-> "readyok", of |-> Current(s)]
            /\ \A j \in 1..Len(output') : /\ j # i => output'[j].kind # "readyok"
                                          /\ j > i => output'[j].of = Current(s)
      BY <3>2, <3>3, <3>4
    <3> QED BY <1>3, <3>5, <3>6 DEF Ready
  <2>4. \A r \in Session : task'[r] \in {"configuring", "searching"} => r = s
    BY <1>0, <2>1, OnlyActive
  <2>5. Hopeless => Hopeless'
    BY <1>0, <1>1 DEF Hopeless
  <2> QED BY <1>0, <1>2, <2>1, <2>2, <2>3, <2>4, <2>5 DEF Barrier
<1> QED BY <1>4, <1>5

\* A line of the search goes to the client, or the search is over.
LEMMA BarrierForward ==
  ASSUME Tasks, Barrier, NEW s \in Session, Forward(s) \/ ForwardFails(s)
  PROVE  Barrier'
<1>0. /\ active = s /\ output # <<>> /\ output' = Tail(output) /\ task[s] = "searching"
      /\ UNCHANGED <<goes, input, processVars, timedOut>>
      /\ task \in [Session -> Running \cup {"none", "done"}]
  BY DEF Forward, ForwardFails, clientVars, Tasks, TypeOK, OneSessionAtTheEngine
<1>1. /\ Len(output) \in Nat \ {0}
      /\ \A i \in 1..Len(output') : i + 1 \in 1..Len(output) /\ output'[i] = output[i + 1]
  BY <1>0, LineTaken
<1> SUFFICES ASSUME ~timedOut, ~timedOut' PROVE Barrier'
  BY <1>0 DEF Barrier
<1>2. \A r \in Session : task[r] # "configuring" /\ (task[r] = "searching" => r = s)
  BY <1>0, OnlyActive
<1>3. AllOf(s) /\ NoHandshake
  BY <1>0, <1>2 DEF Barrier
<1>4. AllOf(s)'
  BY <1>0, <1>1, <1>3 DEF AllOf, Current
<1>5. NoHandshake'
  BY <1>0, <1>1, <1>3 DEF NoHandshake
<1>6. task' = task \/ task' = [task EXCEPT ![s] = "done"]
  BY DEF Forward, ForwardFails, Leave, Step, brokerVars
<1>7. \A r \in Session : task'[r] # "configuring" /\ (task'[r] = "searching" => r = s)
  BY <1>0, <1>2, <1>6
<1> QED BY <1>4, <1>5, <1>7 DEF Barrier

\* Stockfish is gone, or goes: nothing is left of a handshake.
LEMMA BarrierGone ==
  ASSUME Tasks, Owned, Barrier, NEW s \in Session, EngineGone(s)
  PROVE  Barrier'
<1>0. /\ ~alive /\ input = <<>> /\ HoldsLock(s)
      /\ UNCHANGED <<clientVars, engineVars, timedOut>>
      /\ task' = [task EXCEPT ![s] = "done"]
      /\ task \in [Session -> Running \cup {"none", "done"}]
  BY DEF EngineGone, Leave, Step, Owned, Tasks, TypeOK
<1> SUFFICES ASSUME ~timedOut, ~timedOut' PROVE Barrier'
  BY <1>0 DEF Barrier
<1>1. CASE task[s] = "queued"
  BY <1>0, <1>1, BarrierKept DEF clientVars
<1>2. CASE task[s] # "queued"
  <2>1. output = <<>>
    BY <1>2 DEF EngineGone
  <2>2. NoHandshake'
    BY <1>0, <2>1, EmptySeq DEF NoHandshake, engineVars
  <2>3. s \in ToSet(queue)
    BY <1>0, Taken DEF HoldsLock, ToSet, Tasks, TypeOK
  <2>4. active = s
    BY <1>2, <2>3 DEF Tasks, OneSessionAtTheEngine, Running
  <2>5. \A r \in Session : task'[r] \notin {"configuring", "searching"}
    BY <1>0, <2>4, OnlyActive
  <2> QED BY <2>2, <2>5 DEF Barrier
<1> QED BY <1>1, <1>2

\* Its death takes the handshake out of stdin; what it has printed stays.
LEMMA BarrierDies ==
  ASSUME Barrier, EngineDies PROVE Barrier'
<1>1. /\ input' = <<>> /\ Len(input') = 0 /\ searching' = NoSearch /\ ~alive'
      /\ UNCHANGED <<task, goes, output, timedOut>>
  BY EmptySeq DEF EngineDies, brokerVars, clientVars
<1>2. ASSUME NEW s \in Session
      PROVE  /\ Configuring(s) \/ Ready(s) \/ Hopeless => (Ready(s) \/ Hopeless)'
             /\ AllOf(s) => AllOf(s)'
  BY <1>1 DEF Configuring, Ready, Hopeless, AllOf, Current
<1>3. NoHandshake => NoHandshake'
  BY <1>1 DEF NoHandshake
<1> QED BY <1>1, <1>2, <1>3 DEF Barrier

\* What Stockfish prints other than a readyok is of the search it runs.
Printed ==
  /\ \A i \in 1..Len(output) : i \in 1..Len(output') /\ output'[i] = output[i]
  /\ \A i \in 1..Len(output') :
       \/ i \in 1..Len(output)
       \/ /\ output'[i].kind # "readyok" /\ output'[i].of = searching
          /\ searching # NoSearch

\* It reads nothing, or the first command, which is not a configure.
Consumed ==
  \/ input' = input
  \/ /\ Len(input) \in Nat \ {0} /\ input[1].cmd # "configure"
     /\ Len(input') = Len(input) - 1
     /\ \A i \in 1..Len(input') : i + 1 \in 1..Len(input) /\ input'[i] = input[i + 1]

\* A line Stockfish prints comes last and is of the search that runs.
LEMMA LinePrinted ==
  ASSUME Tasks, NEW kind \in {"info", "bestmove"}, searching # NoSearch, Emit(kind, searching)
  PROVE  Printed
<1> DEFINE new == [kind |-> kind, of |-> searching]
<1>1. new \in Line /\ output \in Seq(Line) /\ output' = Append(output, new)
  BY DEF Emit, Tasks, TypeOK, Line
<1>2. new.kind # "readyok" /\ new.of = searching
  OBVIOUS
<1> HIDE DEF new
<1>3. /\ Len(output) \in Nat /\ Len(output') = Len(output) + 1
      /\ \A i \in 1..Len(output) : output'[i] = output[i]
      /\ output'[Len(output) + 1] = new
  BY <1>1, Appended
<1> QED BY <1>2, <1>3 DEF Printed

\* A command Stockfish reads was the first; the others move up.
LEMMA CommandRead ==
  ASSUME Tasks, NEW cmd, Reads(cmd)
  PROVE  /\ Len(input) \in Nat \ {0} /\ input[1].cmd = cmd /\ Head(input) = input[1]
         /\ Len(input') = Len(input) - 1
         /\ \A i \in 1..Len(input') : i + 1 \in 1..Len(input) /\ input'[i] = input[i + 1]
<1>1. /\ Head(input) = input[1] /\ Len(input) \in Nat \ {0}
      /\ Len(input') = Len(input) - 1
      /\ \A i \in 1..(Len(input) - 1) : input'[i] = input[i + 1]
  BY Taken DEF Reads, Tasks, TypeOK
<1> QED BY <1>1 DEF Reads

\* What Stockfish does to its pipes, but for the readyok, is covered by the two.
LEMMA EngineWorks ==
  ASSUME Tasks, EngineGo \/ EngineStop \/ EngineBestmove \/ EngineInfo
  PROVE  /\ Printed /\ Consumed
         /\ \/ searching' \in {NoSearch, searching}
            \/ Len(input) \in Nat \ {0} /\ searching' = input[1].of
<1>1. UNCHANGED output => Printed
  BY DEF Printed
<1>2. CASE EngineGo
  BY <1>1, <1>2, CommandRead DEF EngineGo, Consumed
<1>3. CASE EngineStop
  BY <1>1, <1>3, CommandRead, LinePrinted DEF EngineStop, Consumed
<1>4. CASE EngineBestmove \/ EngineInfo
  BY <1>4, LinePrinted DEF EngineBestmove, EngineInfo, Consumed
<1> QED BY <1>2, <1>3, <1>4

\* Stockfish works on a search: the handshake stays as far as it is.
LEMMA BarrierWork ==
  ASSUME Tasks, Barrier, EngineGo \/ EngineStop \/ EngineBestmove \/ EngineInfo,
         UNCHANGED <<task, goes, timedOut>>
  PROVE  Barrier'
<1>1. /\ Printed /\ Consumed
      /\ \/ searching' \in {NoSearch, searching}
         \/ Len(input) \in Nat \ {0} /\ searching' = input[1].of
  BY EngineWorks
<1> SUFFICES ASSUME ~timedOut, ~timedOut' PROVE Barrier'
  BY DEF Barrier
<1>2. ASSUME NEW s \in Session, Configuring(s) PROVE Configuring(s)'
  <2>1. PICK k \in 1..Len(input) :
          /\ input[k] = [cmd |-> "configure", of |-> Current(s)]
          /\ \A j \in 1..Len(input) : /\ j # k => input[j].cmd # "configure"
                                      /\ j > k => input[j].of = Current(s)
    BY <1>2 DEF Configuring
  <2>2. \A j \in 1..Len(output') : output'[j].kind # "readyok"
    BY <1>1, <1>2 DEF Configuring, Printed
  <2>3. CASE input' = input
    BY <2>1, <2>2, <2>3 DEF Configuring, Current
  <2>4. CASE input' # input
    <3>1. /\ Len(input) \in Nat \ {0} /\ input[1].cmd # "configure"
          /\ Len(input') = Len(input) - 1
          /\ \A i \in 1..Len(input') : i + 1 \in 1..Len(input) /\ input'[i] = input[i + 1]
      BY <1>1, <2>4 DEF Consumed
    <3>2. k # 1
      BY <2>1, <3>1
    <3>3. k - 1 \in 1..Len(input') /\ (k - 1) + 1 = k
      BY <3>1, <3>2
    <3>4. input'[k - 1] = [cmd |-> "configure", of |-> Current(s)]
      BY <2>1, <3>1, <3>3
    <3>5. \A j \in 1..Len(input') : /\ j # k - 1 => input'[j].cmd # "configure"
                                    /\ j > k - 1 => input'[j].of = Current(s)
      <4> TAKE j \in 1..Len(input')
      <4>1. j + 1 \in 1..Len(input) /\ input'[j] = input[j + 1] /\ j \in Int
        BY <3>1
      <4>2. (j # k - 1 => j + 1 # k) /\ (j > k - 1 => j + 1 > k)
        BY <4>1
      <4> QED BY <2>1, <4>1, <4>2
    <3> QED BY <2>2, <3>3, <3>4, <3>5 DEF Configuring, Current
  <2> QED BY <2>3, <2>4
<1>3. ASSUME NEW s \in Session, \A j \in 1..Len(input) : input[j].of = Current(s)
      PROVE  \A j \in 1..Len(input') : input'[j].of = Current(s)
  BY <1>1, <1>3 DEF Consumed
<1>4. ASSUME \A j \in 1..Len(input) : input[j].cmd # "configure"
      PROVE  \A j \in 1..Len(input') : input'[j].cmd # "configure"
  BY <1>1, <1>4 DEF Consumed
<1>5. ASSUME NEW s \in Session, searching \in {NoSearch, Current(s)},
             \A j \in 1..Len(input) : input[j].of = Current(s)
      PROVE  searching' \in {NoSearch, Current(s)}
  BY <1>1, <1>5
<1>6. ASSUME NEW s \in Session, Ready(s) PROVE Ready(s)'
  <2>1. PICK k \in 1..Len(output) :
          /\ output[k] = [kind |-> "readyok", of |-> Current(s)]
          /\ \A j \in 1..Len(output) : /\ j # k => output[j].kind # "readyok"
                                       /\ j > k => output[j].of = Current(s)
    BY <1>6 DEF Ready
  <2>2. searching \in {NoSearch, Current(s)}
    BY <1>6 DEF Ready
  <2>3. /\ k \in 1..Len(output') /\ output'[k] = [kind |-> "readyok", of |-> Current(s)]
        /\ \A j \in 1..Len(output') : /\ j # k => output'[j].kind # "readyok"
                                      /\ j > k => output'[j].of = Current(s)
    BY <1>1, <2>1, <2>2 DEF Printed
  <2>4. /\ \A j \in 1..Len(input') : input'[j].cmd # "configure" /\ input'[j].of = Current(s)
        /\ searching' \in {NoSearch, Current(s)}
    BY <1>3, <1>4, <1>5, <1>6 DEF Ready
  <2> QED BY <2>3, <2>4 DEF Ready, Current
<1>7. ASSUME NEW s \in Session, AllOf(s) PROVE AllOf(s)'
  <2>1. \A j \in 1..Len(output') : output'[j].of = Current(s)
    BY <1>1, <1>7 DEF AllOf, Printed
  <2>2. /\ \A j \in 1..Len(input') : input'[j].of = Current(s)
        /\ searching' \in {NoSearch, Current(s)}
    BY <1>3, <1>5, <1>7 DEF AllOf
  <2> QED BY <2>1, <2>2 DEF AllOf, Current
<1>8. NoHandshake => NoHandshake'
  <2> SUFFICES ASSUME NoHandshake PROVE NoHandshake'
    OBVIOUS
  <2>1. \A j \in 1..Len(output') : output'[j].kind # "readyok"
    BY <1>1 DEF NoHandshake, Printed
  <2> QED BY <1>4, <2>1 DEF NoHandshake
<1>9. Hopeless => Hopeless'
  BY <1>1 DEF Hopeless, Printed, EngineGo, EngineStop, EngineBestmove, EngineInfo
<1> QED BY <1>2, <1>6, <1>7, <1>8, <1>9 DEF Barrier

\* Stockfish answers isready: everything before it has been read.
LEMMA BarrierReady ==
  ASSUME Tasks, Owned, Barrier, EngineReady, UNCHANGED <<task, goes, timedOut>>
  PROVE  Barrier'
<1> SUFFICES ASSUME ~timedOut, ~timedOut' PROVE Barrier'
  BY DEF Barrier
<1>1. /\ Len(input) \in Nat \ {0} /\ input[1].cmd = "configure" /\ Head(input) = input[1]
      /\ Len(input') = Len(input) - 1
      /\ \A i \in 1..Len(input') : i + 1 \in 1..Len(input) /\ input'[i] = input[i + 1]
  BY CommandRead DEF EngineReady
<1>2. 1 \in 1..Len(input)
  BY <1>1
<1>3. PICK s \in Session : task[s] = "configuring"
  BY <1>1, <1>2 DEF Barrier, NoHandshake
<1>4. Configuring(s)
  <2>1. ~Hopeless
    BY <1>1, EmptySeq DEF Hopeless, Owned
  <2> QED BY <1>1, <1>2, <1>3, <2>1 DEF Barrier, Ready
<1>5. PICK k \in 1..Len(input) :
        /\ input[k] = [cmd |-> "configure", of |-> Current(s)]
        /\ \A j \in 1..Len(input) : /\ j # k => input[j].cmd # "configure"
                                    /\ j > k => input[j].of = Current(s)
  BY <1>4 DEF Configuring
<1>6. k = 1
  BY <1>1, <1>2, <1>5
<1>7. \A j \in 1..Len(input') : input'[j].cmd # "configure" /\ input'[j].of = Current(s)
  BY <1>1, <1>5, <1>6
<1> DEFINE new == [kind |-> "readyok", of |-> Current(s)]
<1>8. new \in Line /\ output \in Seq(Line) /\ output' = Append(output, new)
  <2>1. Head(input).of = Current(s) /\ Head(input).of \in Searches
    BY <1>1, <1>5, <1>6, ReadsTyped DEF EngineReady, Tasks
  <2> QED BY <2>1 DEF EngineReady, Emit, Line, Tasks, TypeOK
<1>9. /\ Len(output) \in Nat /\ Len(output') = Len(output) + 1
      /\ \A i \in 1..Len(output) : output'[i] = output[i]
      /\ output'[Len(output) + 1] = new
  <2> HIDE DEF new
  <2> QED BY <1>8, Appended
<1>10. /\ Len(output) + 1 \in 1..Len(output')
       /\ \A j \in 1..Len(output') : /\ j # Len(output) + 1 => output'[j].kind # "readyok"
                                     /\ ~(j > Len(output) + 1)
  BY <1>4, <1>9 DEF Configuring
<1>11. Ready(s)'
  <2>1. \E i \in 1..Len(output') :
          /\ output'[i] = [kind |-> "readyok", of |-> Current(s)]
          /\ \A j \in 1..Len(output') : /\ j # i => output'[j].kind # "readyok"
                                        /\ j > i => output'[j].of = Current(s)
    BY <1>9, <1>10
  <2>2. searching' = NoSearch
    BY DEF EngineReady
  <2> QED BY <1>7, <2>1, <2>2 DEF Ready, Current
<1>12. \A r \in Session : task[r] \in {"configuring", "searching"} => r = s
  BY <1>3, OnlyActive DEF Tasks, OneSessionAtTheEngine
<1> QED BY <1>3, <1>11, <1>12 DEF Barrier

\* A stop that is sent during a handshake is of the session that holds it.
LEMMA BarrierStop ==
  ASSUME Tasks, Barrier, NEW s \in Session, StopSearch(s),
         UNCHANGED <<goes, output, processVars, timedOut>>
  PROVE  Barrier'
<1>1. CASE UNCHANGED <<brokerVars, input>>
  BY <1>1, BarrierKept DEF brokerVars, engineVars
<1>2. CASE active = s /\ Send("stop", s) /\ UNCHANGED brokerVars
  BY <1>2, BarrierSend, OnlyActive DEF brokerVars
<1>3. CASE task[s] \in Running /\ active # s /\ Leave(s) /\ UNCHANGED input
  <2>1. task[s] # "configuring" /\ task' = [task EXCEPT ![s] = "done"]
    BY <1>3 DEF Tasks, OneSessionAtTheEngine, Leave, Step
  <2>2. task \in [Session -> Running \cup {"none", "done"}]
    BY DEF Tasks, TypeOK
  <2> QED BY <1>3, <2>1, <2>2, BarrierKept DEF engineVars
<1> QED BY <1>1, <1>2, <1>3 DEF StopSearch

\* A go changes nothing at the engine but for the stop of the active search.
LEMMA BarrierGo ==
  ASSUME Tasks, Barrier, NEW s \in Session, Go(s)
  PROVE  Barrier'
<1>1. /\ task[s] \notin {"configuring", "searching"} /\ s # active
      /\ task' = [task EXCEPT ![s] = "queued"] /\ goes' = [goes EXCEPT ![s] = @ + 1]
      /\ UNCHANGED <<active, output, processVars, timedOut>>
      /\ task \in [Session -> Running \cup {"none", "done"}] /\ goes \in [Session -> 0..MaxGo]
  BY DEF Go, Step, Running, Tasks, TypeOK, OneSessionAtTheEngine
<1>2. \A r \in Session : task'[r] \in {"configuring", "searching"} => r # s
  BY <1>1
<1>3. CASE UNCHANGED input
  BY <1>1, <1>2, <1>3, BarrierKept DEF engineVars
<1>4. CASE active # NoSession /\ Send("stop", active)
  <2>1. active \in Session
    BY <1>4, ActiveRuns DEF Tasks
  <2>2. /\ goes'[active] = goes[active] /\ task'[active] = task[active]
        /\ \A r \in Session : task'[r] \in {"configuring", "searching"} => r = active
    BY <1>1, <1>2, <2>1, OnlyActive
  <2> QED BY <1>1, <1>4, <2>1, <2>2, BarrierSend
<1> QED BY <1>3, <1>4 DEF Go, PreemptBackground

\* Every step keeps the barrier, unless a wait for readyok has timed out.
LEMMA BarrierStep == Tasks /\ Owned /\ Barrier /\ [Next]_vars => Barrier'
<1> SUFFICES ASSUME Tasks, Owned, Barrier, [Next]_vars PROVE Barrier'
  OBVIOUS
<1>1. ASSUME NEW s \in Session, Go(s) PROVE Barrier'
  BY <1>1, BarrierGo
<1>2. ASSUME NEW s \in Session, Stop(s) \/ Disconnect(s) PROVE Barrier'
  BY <1>2, BarrierStop DEF Stop, Disconnect, clientVars
<1>3. ASSUME NEW s \in Session, Reset(s) PROVE Barrier'
  BY <1>3, BarrierKept DEF Reset, brokerVars, engineVars
<1>4. ASSUME NEW s \in Session, Configure(s) PROVE Barrier'
  BY <1>4, BarrierConfigure
<1>5. ASSUME NEW s \in Session, ReadConfigLine(s) PROVE Barrier'
  BY <1>5, BarrierRead
<1>6. ASSUME NEW s \in Session, ConfigureTimeout(s) PROVE Barrier'
  BY <1>6 DEF ConfigureTimeout, Barrier
<1>7. ASSUME NEW s \in Session, Forward(s) \/ ForwardFails(s) PROVE Barrier'
  BY <1>7, BarrierForward
<1>8. CASE EngineProgress \/ EngineChatter
  <2>1. UNCHANGED <<task, goes, timedOut>>
    BY <1>8 DEF EngineProgress, EngineChatter, brokerVars, clientVars
  <2> QED BY <1>8, <2>1, BarrierWork, BarrierReady DEF EngineProgress, EngineChatter
<1>9. CASE UNCHANGED vars
  BY <1>9, BarrierKept DEF vars, brokerVars, clientVars, engineVars
<1>10. ASSUME NEW s \in Session, EngineGone(s) PROVE Barrier'
  BY <1>10, BarrierGone
<1>11. CASE EngineDies
  BY <1>11, BarrierDies
<1> QED BY <1>1, <1>2, <1>3, <1>4, <1>5, <1>6, <1>7, <1>8, <1>9, <1>10, <1>11
        DEF Next, ClientStep, SearchStep

-----------------------------------------------------------------------------
(* The theorems.                                                           *)

\* The invariant holds before the first session connects.
LEMMA InitIInv == Init => IInv
<1> SUFFICES ASSUME Init PROVE IInv
  OBVIOUS
<1> USE BrokerAssumption DEF Init
<1>1. /\ \A S : <<>> \in Seq(S)
      /\ Len(<<>>) = 0 /\ ToSet(queue) = {} /\ IsInjective(queue)
  <2>1. \A S : <<>> \in Seq(S)
    BY EmptySeq
  <2>2. Len(<<>>) = 0 /\ DOMAIN <<>> = {}
    OBVIOUS
  <2> QED BY <2>1, <2>2 DEF ToSet, IsInjective
<1>2. TypeOK
  <2>1. task \in [Session -> Running \cup {"none", "done"}]
    BY DEF Running
  <2>2. goes \in [Session -> 0..MaxGo]
    OBVIOUS
  <2>3. /\ queue \in Seq(Session) /\ input \in Seq(Command) /\ output \in Seq(Line)
        /\ {searching, configured} \subseteq Searches \cup {NoSearch}
    BY <1>1
  <2>4. /\ link \in [Session -> {"open", "reset", "closed"}]
        /\ timedOut \in BOOLEAN /\ alive \in BOOLEAN /\ active \in Session \cup {NoSession}
    OBVIOUS
  <2> QED BY <1>1, <2>1, <2>2, <2>3, <2>4 DEF TypeOK
<1>3. OneSessionAtTheEngine /\ AskedFor
  BY <1>1 DEF OneSessionAtTheEngine, AskedFor, Running
<1>4. Owned /\ Barrier
  BY <1>1 DEF Owned, Barrier, NoHandshake
<1> QED BY <1>2, <1>3, <1>4 DEF IInv

\* The inductive invariant holds in every behaviour of the broker.
THEOREM Invariance == Spec => []IInv
<1>1. IInv /\ [Next]_vars => IInv'
  BY TasksStep, OwnedStep, BarrierStep DEF IInv, Tasks
<1> QED BY InitIInv, <1>1, PTL DEF Spec

\* The variables keep their types.
THEOREM TypeCorrect == Spec => []TypeOK
<1>1. IInv => TypeOK
  BY DEF IInv
<1> QED BY <1>1, Invariance, PTL

\* The lock, _active_session and the search tasks agree on every path: there is
\* one session at the engine, however many ask for it, stop, leave or time out.
THEOREM OneAtATime == Spec => []OneSessionAtTheEngine
<1>1. IInv => OneSessionAtTheEngine
  BY DEF IInv
<1> QED BY <1>1, Invariance, PTL

\* As long as the barrier of _configure_engine never timed out, what a searching
\* session will read is of its own search.
THEOREM SessionsDoNotMix == Spec => []ReadyokSeparatesSearches
<1>1. IInv => ReadyokSeparatesSearches
  <2> SUFFICES ASSUME IInv, ~timedOut, NEW s \in Session, task[s] = "searching",
                      NEW line \in ToSet(output)
               PROVE  line.of = Current(s)
    BY DEF ReadyokSeparatesSearches
  <2>1. PICK i \in 1..Len(output) : line = output[i]
    BY LenProperties DEF ToSet, IInv, TypeOK
  <2> QED BY <2>1 DEF IInv, Barrier, AllOf
<1> QED BY <1>1, Invariance, PTL

\* Every search runs under the options its own session sent for it, although all
\* sessions set theirs in one process, timed-out configurations stay in its stdin,
\* and a readyok may be taken for another's.
THEOREM OwnOptions == Spec => []SearchesRunUnderOwnOptions
<1>1. IInv => SearchesRunUnderOwnOptions
  BY DEF IInv, Owned, SearchesRunUnderOwnOptions
<1> QED BY <1>1, Invariance, PTL

\* No stop ever ends a search it was not meant for.
THEOREM StopsAreAimed == Spec => StopHitsItsTarget
<1> DEFINE Aimed == input # <<>> /\ Head(input).cmd = "stop" /\ input' = Tail(input)
                      => searching \in {NoSearch, Head(input).of}
<1>1. IInv => [Aimed]_vars
  <2> SUFFICES ASSUME IInv, input # <<>>, Head(input).cmd = "stop"
               PROVE  searching \in {NoSearch, Head(input).of}
    OBVIOUS
  <2>1. Head(input) = input[1] /\ 1 \in 1..Len(input)
    BY Taken DEF IInv, TypeOK
  <2> QED BY <2>1 DEF IInv, Owned, Serves
<1> QED BY <1>1, Invariance, PTL DEF StopHitsItsTarget

-----------------------------------------------------------------------------
(* The accounts of the clients at the HTTP server.                         *)

\* The buckets and the histories have their types.
BucketsTyped ==
  /\ now \in Int
  /\ DOMAIN bucket \subseteq Client
  /\ \A c \in DOMAIN bucket : /\ bucket[c].tokens \in 0..Capacity
                              /\ bucket[c].last \in Int /\ bucket[c].last <= now
  /\ since \in Int /\ since <= now
  /\ evicted \in [Client -> Nat]
  /\ passed \in [Client -> Int]

\* What the bucket of c would allow if it were asked now.
Worth(c) == Filled(c, DOMAIN bucket)

\* What has passed since the observer began, and what would pass now.
Funded(c) ==
  passed[c] + Worth(c) <= Capacity * (1 + evicted[c]) + Rate * (now - since)

Accounts == BucketsTyped /\ \A c \in Client : Funded(c)

-----------------------------------------------------------------------------
\* A longer time is worth more, and nothing is worth less than nothing.
LEMMA RateGrows ==
  ASSUME NEW a \in Int, NEW b \in Int, a <= b
  PROVE  /\ Rate * a \in Int /\ Rate * b \in Int /\ Rate * a <= Rate * b
         /\ Rate * (b - a) = Rate * b - Rate * a /\ Rate * (b - a) >= 0
<1>. USE LimiterAssumption
<1>1. PICK d \in Nat : b = a + d
  BY b - a \in Nat
<1>2. Rate * d \in Nat
  OBVIOUS
<1>3. Rate * b = Rate * a + Rate * d
  BY <1>1
<1>. QED  BY <1>1, <1>2, <1>3

\* A request costs something.
LEMMA CostsSomething == \A cost \in Prices : cost \in Nat \ {0}
<1>. SUFFICES ASSUME NEW q \in Asked PROVE RequestCost(q.method, q.length) \in Nat \ {0}
  BY DEF Prices
<1>1. q.length \in Int \/ q.length = NoLength
  BY AdmissionAssumption DEF Asked
<1>2. CASE q.method # "POST" \/ q.length = NoLength \/ q.length <= 1
  BY <1>2 DEF RequestCost
<1>3. CASE ~(q.method # "POST" \/ q.length = NoLength \/ q.length <= 1)
  BY <1>1, <1>3 DEF RequestCost, MinOf
<1>. QED  BY <1>2, <1>3

\* No bucket holds more than its capacity, however long it was filled.
LEMMA FilledIsCapped ==
  ASSUME BucketsTyped, NEW left \in SUBSET DOMAIN bucket, NEW c \in Client
  PROVE  Filled(c, left) \in 0..Capacity
<1>. USE LimiterAssumption
<1>1. CASE c \in left
  <2>1. /\ bucket[c].tokens \in 0..Capacity /\ bucket[c].last \in Int
        /\ bucket[c].last <= now /\ now \in Int
    BY <1>1 DEF BucketsTyped
  <2>2. Rate * (now - bucket[c].last) \in Nat
    BY <2>1, RateGrows
  <2>3. (now - bucket[c].last) * Rate = Rate * (now - bucket[c].last)
    BY <2>1
  <2>. QED  BY <1>1, <2>1, <2>2, <2>3 DEF Filled, MinOf
<1>2. CASE c \notin left
  BY <1>2 DEF Filled
<1>. QED  BY <1>1, <1>2

\* The sweep gives nothing away: a bucket dropped as idle was full.  Only a cut
\* one is worth more to its client after it.
LEMMA SweepGivesNothing ==
  ASSUME BucketsTyped, NEW left \in Sweeps, NEW c \in Client,
         NEW lost \in Nat, lost = IF c \in Cut(left) THEN 1 ELSE 0
  PROVE  Filled(c, left) <= Worth(c) + Capacity * lost
<1>. USE LimiterAssumption
<1>0. left \in SUBSET DOMAIN bucket
  BY DEF Sweeps, Fresh
<1>1. /\ Worth(c) \in 0..Capacity /\ Filled(c, left) \in 0..Capacity
      /\ Capacity * lost \in Nat
  BY <1>0, FilledIsCapped DEF Worth
<1>2. CASE c \in left \/ c \notin DOMAIN bucket
  <2>1. Filled(c, left) = Worth(c)
    BY <1>0, <1>2 DEF Worth, Filled
  <2>. QED  BY <1>1, <2>1
<1>3. CASE c \in Cut(left)
  <2>1. Capacity * lost = Capacity
    BY <1>3
  <2>. QED  BY <1>1, <2>1
<1>4. CASE c \in DOMAIN bucket /\ c \notin Fresh
  <2>1. /\ bucket[c].tokens \in Int /\ bucket[c].tokens >= 0 /\ bucket[c].last \in Int
        /\ bucket[c].last <= now - IdleLimit /\ now \in Int
    BY <1>4 DEF BucketsTyped, Fresh
  <2>2. Rate * (now - bucket[c].last) >= Capacity /\ Rate * (now - bucket[c].last) \in Int
    <3>1. IdleLimit <= now - bucket[c].last
      BY <2>1
    <3>. QED  BY <2>1, <3>1, RateGrows
  <2>3. (now - bucket[c].last) * Rate = Rate * (now - bucket[c].last)
    BY <2>1
  <2>4. Worth(c) = Capacity
    BY <1>4, <2>1, <2>2, <2>3 DEF Worth, Filled, MinOf
  <2>. QED  BY <1>1, <2>4
<1>. QED  BY <1>2, <1>3, <1>4 DEF Cut

-----------------------------------------------------------------------------
\* is_allowed keeps every client's account, whoever asks and whatever is swept.
LEMMA AskPreserves ==
  ASSUME Accounts, NEW c \in Client, NEW cost \in Nat, NEW allowed \in BOOLEAN,
         Ask(c, cost, allowed), now' = now,
         passed' = IF allowed THEN [passed EXCEPT ![c] = @ + cost] ELSE passed
  PROVE  Accounts'
<1>. USE LimiterAssumption
<1>. PICK left \in Sweeps :
       LET tokens == Filled(c, left)
       IN  /\ allowed = (tokens >= cost)
           /\ bucket' = [d \in left \cup {c} |->
                IF d = c
                THEN [tokens |-> IF tokens >= cost THEN tokens - cost ELSE tokens,
                      last |-> now]
                ELSE bucket[d]]
           /\ evicted' = [d \in Client |-> evicted[d] + (IF d \in Cut(left) THEN 1 ELSE 0)]
           /\ UNCHANGED since
  BY DEF Ask
<1> DEFINE tokens == Filled(c, left)
           lost(d) == IF d \in Cut(left) THEN 1 ELSE 0
           room(d) == Capacity * (1 + evicted[d]) + Rate * (now - since)
<1>0. left \in SUBSET DOMAIN bucket
  BY DEF Sweeps, Fresh
<1>1. /\ BucketsTyped /\ now \in Int /\ passed \in [Client -> Int]
      /\ evicted \in [Client -> Nat] /\ since \in Int
  BY DEF Accounts, BucketsTyped
<1>2. tokens \in 0..Capacity
  BY <1>0, <1>1, FilledIsCapped
<1>3. /\ bucket'[c] = [tokens |-> IF allowed THEN tokens - cost ELSE tokens, last |-> now]
      /\ DOMAIN bucket' = left \cup {c}
  OBVIOUS
<1>4. /\ \A d \in Client : evicted'[d] = evicted[d] + lost(d)
      /\ \A d \in Client \ {c} : passed'[d] = passed[d]
      /\ passed'[c] = IF allowed THEN passed[c] + cost ELSE passed[c]
      /\ passed' \in [Client -> Int] /\ evicted' \in [Client -> Nat]
  BY <1>1
<1>5. BucketsTyped'
  <2>1. bucket'[c].tokens \in 0..Capacity
    BY <1>2, <1>3
  <2>2. ASSUME NEW d \in left, d # c
        PROVE  /\ bucket'[d].tokens \in 0..Capacity
               /\ bucket'[d].last \in Int /\ bucket'[d].last <= now
    <3>1. bucket'[d] = bucket[d]
      BY <2>2
    <3>. QED  BY <1>0, <1>1, <3>1 DEF BucketsTyped
  <2>. QED  BY <1>0, <1>1, <1>3, <1>4, <2>1, <2>2 DEF BucketsTyped
\* After the sweep, and before anything is paid, each account still balances.
<1>6. ASSUME NEW d \in Client
      PROVE  /\ passed[d] + Filled(d, left)
                  <= Capacity * (1 + evicted'[d]) + Rate * (now - since)
             /\ Filled(d, left) \in 0..Capacity
  <2>1. Filled(d, left) <= Worth(d) + Capacity * lost(d)
    BY <1>1, SweepGivesNothing
  <2>2. Capacity * (1 + evicted'[d]) = Capacity * (1 + evicted[d]) + Capacity * lost(d)
    BY <1>1, <1>4
  <2>3. passed[d] + Worth(d) <= room(d)
    BY DEF Accounts, Funded
  <2>4. /\ passed[d] \in Int /\ Worth(d) \in Int /\ Filled(d, left) \in 0..Capacity
        /\ Capacity * lost(d) \in Int /\ Capacity * (1 + evicted[d]) \in Int
        /\ Rate * (now - since) \in Int
    BY <1>0, <1>1, FilledIsCapped DEF Worth
  <2>. QED  BY <2>1, <2>2, <2>3, <2>4
<1>7. Funded(c)'
  <2>1. (now' - bucket'[c].last) * Rate = 0
    BY <1>1, <1>3
  <2>2. Worth(c)' = bucket'[c].tokens
    BY <1>2, <1>3, <2>1 DEF Worth, Filled, MinOf
  <2>3. passed'[c] + Worth(c)' = passed[c] + tokens
    BY <1>1, <1>2, <1>3, <1>4, <2>2
  <2>. QED  BY <1>6, <2>3 DEF Funded
<1>8. ASSUME NEW d \in Client, d # c
      PROVE  Funded(d)'
  <2>1. d \in left => bucket'[d] = bucket[d]
    BY <1>8
  <2>2. Worth(d)' = Filled(d, left)
    BY <1>3, <1>8, <2>1 DEF Worth, Filled
  <2>. QED  BY <1>4, <1>6, <1>8, <2>2 DEF Funded
<1>. QED  BY <1>5, <1>7, <1>8 DEF Accounts

\* A tick adds no more than the rate to what may pass.
LEMMA TickPreserves ==
  ASSUME Accounts, Tick
  PROVE  Accounts'
<1>. USE LimiterAssumption
<1>0. /\ now \in Int /\ since \in Int /\ now' = now + 1
      /\ UNCHANGED <<bucket, since, evicted, passed>>
  BY DEF Accounts, BucketsTyped, Tick, limiterVars
<1>1. BucketsTyped'
  BY <1>0 DEF Accounts, BucketsTyped
<1>2. ASSUME NEW c \in Client
      PROVE  Funded(c)'
  <2>1. /\ passed[c] \in Int /\ Worth(c) \in 0..Capacity /\ Funded(c)
        /\ Capacity * (1 + evicted[c]) \in Int
    BY FilledIsCapped DEF Accounts, BucketsTyped, Worth
  <2>2. /\ Rate * (now' - since) = Rate * (now - since) + Rate
        /\ Rate * (now - since) \in Int
    BY <1>0
  <2>3. Worth(c)' \in Int /\ Worth(c)' <= Worth(c) + Rate
    <3>1. CASE c \in DOMAIN bucket
      <4>1. bucket[c].last \in Int /\ bucket[c].tokens \in Int
        BY <3>1 DEF Accounts, BucketsTyped
      <4>2. /\ (now' - bucket[c].last) * Rate = (now - bucket[c].last) * Rate + Rate
            /\ (now - bucket[c].last) * Rate \in Int
        BY <1>0, <4>1
      <4>. QED  BY <1>0, <3>1, <4>1, <4>2 DEF Worth, Filled, MinOf
    <3>2. CASE c \notin DOMAIN bucket
      BY <1>0, <3>2 DEF Worth, Filled
    <3>. QED  BY <3>1, <3>2
  <2>. QED  BY <1>0, <2>1, <2>2, <2>3 DEF Funded
<1>. QED  BY <1>1, <1>2 DEF Accounts

\* An observer who begins now sees no bucket worth more than a full one.
LEMMA WatchPreserves ==
  ASSUME Accounts, Watch
  PROVE  Accounts'
<1>. USE LimiterAssumption
<1>0. /\ now \in Int /\ now' = now /\ since' = now /\ UNCHANGED bucket
      /\ evicted' = [c \in Client |-> 0] /\ passed' = [c \in Client |-> 0]
  BY DEF Accounts, BucketsTyped, Watch
<1>1. BucketsTyped'
  BY <1>0 DEF Accounts, BucketsTyped
<1>2. ASSUME NEW c \in Client
      PROVE  Funded(c)'
  <2>1. Worth(c) \in 0..Capacity /\ Worth(c)' = Worth(c)
    BY <1>0, FilledIsCapped DEF Accounts, Worth, Filled
  <2>2. Rate * (now' - since') = 0 /\ Capacity * (1 + evicted'[c]) = Capacity
    BY <1>0
  <2>. QED  BY <1>0, <2>1, <2>2 DEF Funded
<1>. QED  BY <1>1, <1>2 DEF Accounts

-----------------------------------------------------------------------------
LEMMA AccountsInit == AdmissionInit => Accounts
<1>. SUFFICES ASSUME AdmissionInit PROVE Accounts
  OBVIOUS
<1>1. BucketsTyped /\ DOMAIN bucket = {}
  BY LimiterAssumption DEF AdmissionInit, RateInit, BucketsTyped
<1>2. \A c \in Client : Funded(c)
  <2>. SUFFICES ASSUME NEW c \in Client PROVE Funded(c)
    OBVIOUS
  <2>1. passed[c] = 0 /\ evicted[c] = 0 /\ now = 0 /\ since = 0
    BY DEF AdmissionInit, RateInit
  <2>2. Worth(c) = Capacity
    BY <1>1 DEF Worth, Filled
  <2>. QED  BY LimiterAssumption, <2>1, <2>2 DEF Funded
<1>. QED  BY <1>1, <1>2 DEF Accounts

LEMMA AccountsNext == Accounts /\ [AdmissionNext]_admissionVars => Accounts'
<1>. SUFFICES ASSUME Accounts, [AdmissionNext]_admissionVars PROVE Accounts'
  OBVIOUS
<1>1. CASE \E c \in Client : Charge(c)
  BY <1>1, AskPreserves, CostsSomething DEF Charge
<1>2. CASE Tick
  BY <1>2, TickPreserves
<1>3. CASE Watch
  BY <1>3, WatchPreserves
<1>4. CASE Turn \/ UNCHANGED admissionVars
  <2>1. UNCHANGED <<now, bucket, since, evicted, passed>>
    BY <1>4 DEF Turn, admissionVars, limiterVars
  <2>. QED  BY <2>1 DEF Accounts, BucketsTyped, Funded, Worth, Filled
<1>. QED  BY <1>1, <1>2, <1>3, <1>4 DEF AdmissionNext

\* The inductive invariant holds in every reachable state.
THEOREM AccountsHold == AdmissionSpec => []Accounts
BY AccountsInit, AccountsNext, PTL DEF AdmissionSpec

\* In every stretch of time the rate limiter gives no client more than its rate
\* and one full bucket, and one more for each time the hard eviction cut its own:
\* neither a long idle time nor the sweep of idle buckets gives anything away, for
\* any number of clients and any size of the map.
THEOREM RateIsKept == AdmissionSpec => []PassedKeepsTheRate
<1>1. Accounts => PassedKeepsTheRate
  <2>. SUFFICES ASSUME Accounts, NEW c \in Client
                PROVE  passed[c] <= Capacity * (1 + evicted[c]) + Rate * (now - since)
    BY DEF PassedKeepsTheRate
  <2>. USE LimiterAssumption
  <2>1. /\ passed[c] \in Int /\ Worth(c) \in 0..Capacity /\ Funded(c)
        /\ Capacity * (1 + evicted[c]) \in Int /\ Rate * (now - since) \in Int
    BY FilledIsCapped DEF Accounts, BucketsTyped, Worth
  <2>. QED  BY <2>1 DEF Funded
<1>. QED  BY <1>1, AccountsHold, PTL
=============================================================================
