---------------------------- MODULE EngineBroker ----------------------------
(***************************************************************************)
(* The broker of broker/server.py: many UCI client sessions share one      *)
(* Stockfish process.  Each session is an asyncio task that reads commands *)
(* and, for a search, a second task (_run_search) that takes _engine_lock, *)
(* configures the engine up to its readyok, sends position and go, and     *)
(* forwards every output line to the client up to a bestmove.              *)
(*                                                                         *)
(* Stockfish is external: it takes its commands in order, a setoption or a *)
(* go waits for the running search, a stop ends it, and isready is         *)
(* answered by readyok.  It may die, and is never started again.  Commands *)
(* and lines carry the search they belong to; neither the program nor a    *)
(* client can see that tag.                                                *)
(***************************************************************************)
EXTENDS Integers, SequencesExt

CONSTANTS
  Session,    \* the client connections
  NoSession,
  MaxGo,      \* bound: the searches a session asks for
  MaxOut      \* bound: no info line is printed behind so many unread lines

ASSUME BrokerAssumption ==
  /\ NoSession \notin Session
  /\ MaxGo \in Nat \ {0} /\ MaxOut \in Nat \ {0}

VARIABLES
  queue,      \* _engine_lock: its holder, and behind it the tasks waiting
  active,     \* self._active_session
  priority,   \* session.priority
  link,       \* the connection: "open", "reset" by the peer, or "closed"
  task,       \* where each session's search_task is
  goes,       \* the searches each session has asked for
  input,      \* Stockfish's stdin
  output,     \* Stockfish's stdout
  searching,  \* the search Stockfish is running
  configured, \* the search whose setoptions Stockfish executed last
  alive,      \* Stockfish has not exited
  timedOut    \* history: a wait for readyok timed out

brokerVars == <<queue, active, task>>
clientVars == <<priority, link, goes>>
processVars == <<searching, configured, alive>>
engineVars == <<input, output, processVars>>
vars == <<brokerVars, clientVars, engineVars, timedOut>>

Searches == Session \X (1..MaxGo)
NoSearch == <<NoSession, 0>>
Current(s) == <<s, goes[s]>>
Command == [cmd : {"configure", "go", "stop"}, of : Searches]
Line == [kind : {"readyok", "info", "bestmove"}, of : Searches]

Running == {"queued", "configuring", "searching"}

Init ==
  /\ queue = <<>>
  /\ active = NoSession
  /\ priority \in [Session -> {"interactive", "background"}]
  /\ link = [s \in Session |-> "open"]
  /\ task = [s \in Session |-> "none"]
  /\ goes = [s \in Session |-> 0]
  /\ input = <<>>
  /\ output = <<>>
  /\ searching = NoSearch /\ configured = NoSearch
  /\ alive = TRUE
  /\ timedOut = FALSE

-----------------------------------------------------------------------------
\* _send_engine.  What is written to a Stockfish that has just died is lost; once
\* its end is noticed the call raises, which ends the search task (EngineGone) or,
\* in a client's own command, the session, as Disconnect does.
Send(cmd, s) ==
  input' = IF alive THEN Append(input, [cmd |-> cmd, of |-> Current(s)]) ELSE input

Step(s, label) == task' = [task EXCEPT ![s] = label]

\* Faulty variant: the finally clause is missing.
LeaveActive(s) ==
  /\ Step(s, "done")
  /\ queue' = RemoveFirst(queue, s)
  /\ UNCHANGED active

\* _run_search leaves the lock and, in its finally, _active_session.
Leave(s) ==
  /\ Step(s, "done")
  /\ queue' = RemoveFirst(queue, s)
  /\ active' = IF active = s THEN NoSession ELSE active

HoldsLock(s) == queue # <<>> /\ Head(queue) = s

\* An interactive client's search stops the background search at the engine.
PreemptBackground(s) ==
  IF /\ priority[s] = "interactive"
     /\ active # NoSession /\ priority[active] = "background"
  THEN Send("stop", active)
  ELSE UNCHANGED input

\* A go while the last search still runs is only answered with an info line.
\* Otherwise the search task is created, to take the lock in its turn.
Go(s) ==
  /\ link[s] = "open"
  /\ task[s] \notin Running
  /\ goes[s] < MaxGo
  /\ goes' = [goes EXCEPT ![s] = @ + 1]
  /\ Step(s, "queued")
  /\ queue' = Append(queue, s)
  /\ PreemptBackground(s)
  /\ UNCHANGED <<active, priority, link, output, processVars, timedOut>>

\* Bound: a client sends no second stop before Stockfish has read the first.
Unread(cmd, s) == [cmd |-> cmd, of |-> Current(s)] \in ToSet(input)

\* Faulty variant: stop goes to the engine whoever is active.
StopSearchAnyTime(s) ==
  /\ IF task[s] \in Running THEN Send("stop", s) ELSE UNCHANGED input
  /\ UNCHANGED brokerVars

\* _stop_session_search: the active search is stopped in the engine, a queued
\* one is cancelled, without a bestmove.
StopSearch(s) ==
  CASE task[s] \notin Running -> UNCHANGED <<brokerVars, input>>
    [] task[s] \in Running /\ active = s ->
         Send("stop", s) /\ UNCHANGED brokerVars
    [] task[s] \in Running /\ active # s -> Leave(s) /\ UNCHANGED input

Stop(s) ==
  /\ link[s] = "open"
  /\ task[s] \in Running
  /\ ~Unread("stop", s)
  /\ StopSearch(s)
  /\ UNCHANGED <<clientVars, output, processVars, timedOut>>

\* The peer resets the connection: the next line sent to it raises.
Reset(s) ==
  /\ link[s] = "open"
  /\ link' = [link EXCEPT ![s] = "reset"]
  /\ UNCHANGED <<brokerVars, priority, goes, engineVars, timedOut>>

\* _serve_client ends (EOF, quit, a reset, a raising send) in _disconnect: lines
\* for the session are dropped from here on, and its search is stopped and awaited.
Disconnect(s) ==
  /\ link[s] # "closed"
  /\ link' = [link EXCEPT ![s] = "closed"]
  /\ StopSearch(s)
  /\ UNCHANGED <<priority, goes, output, processVars, timedOut>>

-----------------------------------------------------------------------------
\* Faulty variant: the options are sent with the first search of a session only.
ConfigureOnce(s) ==
  /\ task[s] = "queued"
  /\ HoldsLock(s)
  /\ link[s] # "closed"
  /\ active' = s
  /\ IF goes[s] = 1 THEN Step(s, "configuring") /\ Send("configure", s)
                    ELSE Step(s, "searching") /\ Send("go", s)
  /\ UNCHANGED <<queue, clientVars, output, processVars, timedOut>>

\* _run_search gets the lock.  It would leave at once for a closed session, but
\* the search of a session that closes while it is queued has been cancelled.
Configure(s) ==
  /\ task[s] = "queued"
  /\ HoldsLock(s)
  /\ link[s] # "closed"
  /\ active' = s
  /\ Step(s, "configuring")
  /\ Send("configure", s)
  /\ UNCHANGED <<queue, clientVars, output, processVars, timedOut>>

\* Faulty variant: the first line ends the wait, whatever it says.
ReadAnyConfigLine(s) ==
  /\ task[s] = "configuring"
  /\ output # <<>>
  /\ output' = Tail(output)
  /\ Send("go", s)
  /\ Step(s, "searching")
  /\ UNCHANGED <<queue, active, clientVars, processVars, timedOut>>

\* _read_until("readyok") drops every other line; then position and go.
ReadConfigLine(s) ==
  /\ task[s] = "configuring"
  /\ output # <<>>
  /\ output' = Tail(output)
  /\ IF Head(output).kind = "readyok"
     THEN \/ Send("go", s) /\ Step(s, "searching") /\ UNCHANGED <<queue, active>>
          \/ ~alive /\ Leave(s) /\ UNCHANGED input
     ELSE UNCHANGED <<input, brokerVars>>
  /\ UNCHANGED <<clientVars, processVars, timedOut>>

\* No line for 10 s: the engine has not come to the setoptions yet, because a
\* search that was left running is still on.
ConfigureTimeout(s) ==
  /\ task[s] = "configuring"
  /\ output = <<>>
  /\ searching # NoSearch
  /\ timedOut' = TRUE
  /\ Leave(s)
  /\ UNCHANGED <<clientVars, engineVars>>

\* Faulty variant: a bestmove does not end the loop.
ForwardForever(s) ==
  /\ task[s] = "searching"
  /\ output # <<>>
  /\ link[s] # "reset"
  /\ output' = Tail(output)
  /\ UNCHANGED <<brokerVars, clientVars, input, processVars, timedOut>>

\* One line goes to the client, or nowhere if the session is closed; the
\* search is over with the first bestmove.
Forward(s) ==
  /\ task[s] = "searching"
  /\ output # <<>>
  /\ link[s] # "reset"
  /\ output' = Tail(output)
  /\ IF Head(output).kind = "bestmove" THEN Leave(s) ELSE UNCHANGED brokerVars
  /\ UNCHANGED <<clientVars, input, processVars, timedOut>>

\* The send raises ConnectionError: _run_search leaves the lock with the
\* search still running and its lines unread.
ForwardFails(s) ==
  /\ task[s] = "searching"
  /\ output # <<>>
  /\ link[s] = "reset"
  /\ output' = Tail(output)
  /\ Leave(s)
  /\ UNCHANGED <<clientVars, input, processVars, timedOut>>

\* Stockfish is gone: nothing can be sent to it and, behind its last line, nothing
\* is left to read.  The search ends without a bestmove, the lock is given back.
EngineGone(s) ==
  /\ ~alive
  /\ HoldsLock(s)
  /\ task[s] # "queued" => output = <<>>
  /\ Leave(s)
  /\ UNCHANGED <<clientVars, engineVars, timedOut>>

-----------------------------------------------------------------------------
\* Stockfish.
Emit(kind, q) == output' = Append(output, [kind |-> kind, of |-> q])
Reads(cmd) == input # <<>> /\ Head(input).cmd = cmd /\ input' = Tail(input)

EngineReady ==
  /\ searching = NoSearch
  /\ Reads("configure")
  /\ Emit("readyok", Head(input).of)
  /\ configured' = Head(input).of
  /\ UNCHANGED <<searching, alive>>

EngineGo ==
  /\ searching = NoSearch
  /\ Reads("go")
  /\ searching' = Head(input).of
  /\ UNCHANGED <<output, configured, alive>>

EngineInfo ==
  /\ searching # NoSearch
  /\ Len(output) < MaxOut
  /\ Emit("info", searching)
  /\ UNCHANGED <<input, processVars>>

EngineBestmove ==
  /\ searching # NoSearch
  /\ Emit("bestmove", searching)
  /\ searching' = NoSearch
  /\ UNCHANGED <<input, configured, alive>>

EngineStop ==
  /\ Reads("stop")
  /\ IF searching # NoSearch
     THEN Emit("bestmove", searching) ELSE UNCHANGED output
  /\ searching' = NoSearch
  /\ UNCHANGED <<configured, alive>>

\* Stockfish runs its next command, or ends its search.
EngineProgress ==
  /\ EngineReady \/ EngineGo \/ EngineStop \/ EngineBestmove
  /\ UNCHANGED <<brokerVars, clientVars, timedOut>>

EngineChatter == EngineInfo /\ UNCHANGED <<brokerVars, clientVars, timedOut>>

\* Stockfish exits: its commands are gone, its lines can still be read.
EngineDies ==
  /\ alive
  /\ alive' = FALSE
  /\ searching' = NoSearch
  /\ input' = <<>>
  /\ UNCHANGED <<brokerVars, clientVars, output, configured, timedOut>>

-----------------------------------------------------------------------------
ClientStep(s) == Go(s) \/ Stop(s) \/ Reset(s) \/ Disconnect(s)

SearchStep(s) ==
  \/ Configure(s) \/ ReadConfigLine(s) \/ ConfigureTimeout(s)
  \/ Forward(s) \/ ForwardFails(s) \/ EngineGone(s)

Next ==
  \/ \E s \in Session : ClientStep(s) \/ SearchStep(s)
  \/ EngineProgress \/ EngineChatter \/ EngineDies

Spec == Init /\ [][Next]_vars

\* Tasks that can go on do, Stockfish takes its commands, and every search it
\* is asked for is finite (the clients of this repository use go depth).
Fairness ==
  /\ \A s \in Session : WF_vars(SearchStep(s))
  /\ WF_vars(EngineProgress)

FairSpec == Spec /\ Fairness

-----------------------------------------------------------------------------
TypeOK ==
  /\ queue \in Seq(Session) /\ IsInjective(queue)
  /\ active \in Session \cup {NoSession}
  /\ priority \in [Session -> {"interactive", "background"}]
  /\ link \in [Session -> {"open", "reset", "closed"}]
  /\ task \in [Session -> Running \cup {"none", "done"}]
  /\ goes \in [Session -> 0..MaxGo]
  /\ input \in Seq(Command)
  /\ output \in Seq(Line)
  /\ {searching, configured} \subseteq Searches \cup {NoSearch}
  /\ alive \in BOOLEAN /\ timedOut \in BOOLEAN

\* The lock, _active_session and the tasks agree: only the task at the head of
\* the lock talks to the engine, it is the active one, and a task that is over
\* has given up both, on every path out of _run_search.
OneSessionAtTheEngine ==
  /\ \A s \in Session : task[s] \in Running <=> s \in ToSet(queue)
  /\ \A s \in Session : task[s] \in {"configuring", "searching"} <=> active = s
  /\ active # NoSession => HoldsLock(active)

\* Sessions do not hear each other: as long as no wait for readyok timed out,
\* every line a searching session will read belongs to its own current search,
\* although clients that were reset leave searches running and lines unread
\* behind them.  The readyok that ends _configure_engine is the barrier.
ReadyokSeparatesSearches ==
  ~timedOut => \A s \in Session : task[s] = "searching" =>
    \A line \in ToSet(output) : line.of = Current(s)

\* The options of a session stay in the process all share: whatever was abandoned,
\* timed out or mistaken before it, a search runs under the options its own
\* session sent for it.
SearchesRunUnderOwnOptions == searching # NoSearch => configured = searching

\* A stop reaches the search it was meant for or none: one that comes too late
\* for the active search never cuts short the search of the next session.
StopHitsItsTarget ==
  [][input # <<>> /\ Head(input).cmd = "stop" /\ input' = Tail(input)
       => searching \in {NoSearch, Head(input).of}]_vars

\* Every search a client asks for comes to an end, however many sessions wait,
\* stop, are reset, disconnect or time out meanwhile, and although Stockfish dies.
SearchesEnd == \A s \in Session : task[s] = "queued" ~> task[s] = "done"

\* "one Stockfish subprocess as serialized UCI client sessions": no client is
\* ever given the bestmove of somebody else's search.
NoForeignBestmove ==
  \A s \in Session :
    task[s] = "searching" /\ link[s] = "open" /\ output # <<>>
      /\ Head(output).kind = "bestmove" => Head(output).of = Current(s)
=============================================================================
