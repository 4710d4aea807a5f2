------------------------------ MODULE TCPClient ------------------------------
(***************************************************************************)
(* An engine behind a TCP socket: TCPUCIClient (mcp_server/tcp_client.py), *)
(* created and configured by TCPAnalyzer.create (tcp_analyzer.py), and the *)
(* calls that a slice of parallel_gather makes on it one after the other   *)
(* through with_engine_retry (EngineRetry).                                *)
(*                                                                         *)
(* A connection is an engine process of its own: it starts with default    *)
(* options and answers commands in order.  Between two reads the client    *)
(* may be cancelled, time out or find the peer gone; sending several       *)
(* commands in a row is one step, which may fail as well.                  *)
(***************************************************************************)
EXTENDS EngineRetry, Sequences

CONSTANTS
  MultiPVs,    \* what calls ask for
  Horizon      \* bound: the clock stops here

ASSUME ClientAssumption ==
  MultiPVs \subseteq Nat \ {0} /\ Horizon \in Nat

VARIABLES
  engine,    \* the peer of the connection, or NoPeer: _reader and _writer
  multipv,   \* _current_multipv
  applied,   \* _applied_options: the options connect() sends again
  place,     \* where the client is
  ending,    \* how the operation ends that _reset_connection is part of
  caller,    \* the call that uses the client, or NoCall
  wanted     \* the multipv it asks for

NoCall == "none"
retryVars == <<failures, openedAt, at, attempt, failedAt>>
beliefs == <<multipv, applied>>
clientVars == <<now, retryVars, engine, beliefs, place, ending, caller, wanted>>

\* A fresh process has its compiled-in defaults.
NewEngine == [alive |-> TRUE, multipv |-> 1, configured |-> FALSE, lines |-> <<>>,
              todo |-> <<>>]
NoPeer == [NewEngine EXCEPT !.alive = FALSE, !.multipv = 0]

ClientInit ==
  /\ now = 1 /\ RetryInit
  /\ engine = NoPeer
  /\ multipv = 1 /\ applied = {}
  /\ place = "opening" /\ ending = "created"
  /\ caller = NoCall /\ wanted \in MultiPVs

Reach(where) == place' = where

\* What a live engine answers to a command.
Answer(line) == IF engine.alive THEN <<<<line>>>> ELSE <<>>

\* The next line is there, and the client reads it.
NextLine == engine.lines # <<>>
Heard(token) == NextLine /\ Head(engine.lines)[1] = token
Read == engine' = [engine EXCEPT !.lines = Tail(@)]

-----------------------------------------------------------------------------
\* connect(): open_connection, then "uci".
Open ==
  /\ place = "opening"
  /\ engine' = [NewEngine EXCEPT !.lines = <<<<"uciok">>>>]
  /\ Reach("greeting")
  /\ UNCHANGED <<now, retryVars, multipv, applied, ending, caller, wanted>>

\* uciok: the options kept from before are sent again, then "isready".
Greeted ==
  /\ place = "greeting" /\ Heard("uciok")
  /\ engine' = [engine EXCEPT
       !.configured = @ \/ "configured" \in applied,
       !.lines = Tail(@) \o Answer("readyok")]
  /\ Reach("connecting")
  /\ UNCHANGED <<now, retryVars, beliefs, ending, caller, wanted>>

\* connect() is done: create() goes on with configure(), and analyse() with
\* the search.
Connected ==
  /\ place = "connecting" /\ Heard("readyok")
  /\ IF ending = "created"
     THEN /\ engine' = [engine EXCEPT !.configured = @ \/ engine.alive,
                                        !.lines = Tail(@) \o Answer("readyok")]
          /\ applied' = applied \cup {"configured"}
          /\ Reach("configuring")
     ELSE /\ engine' = [engine EXCEPT
                           !.lines = Tail(@) \o Answer("readyok")]
          /\ UNCHANGED applied
          /\ Reach("syncing")
  /\ UNCHANGED <<now, retryVars, multipv, ending, caller, wanted>>

Configured ==
  /\ place = "configuring" /\ NextLine
  /\ Read
  /\ Reach("idle") /\ ending' = "none"
  /\ UNCHANGED <<now, retryVars, beliefs, caller, wanted>>

\* configure() fails after connect() went well.  A failed send has closed the
\* connection; after a failed read nobody closes it, and create() raises.
ConfigureFails ==
  /\ place = "configuring"
  /\ engine' = NoPeer /\ multipv' = 1 /\ applied' = {}
  /\ Reach("opening")    \* the pool's factory is asked again, for a new client
  /\ UNCHANGED <<now, retryVars, ending, caller, wanted>>

-----------------------------------------------------------------------------
\* The caller's turn: the breaker, then analyse().
EnterCall(c) ==
  /\ place = "idle"
  /\ Enter(c)
  /\ caller' = c /\ wanted' \in MultiPVs
  /\ Reach("calling")
  /\ UNCHANGED <<now, engine, beliefs, ending>>

RefuseCall(c) ==
  /\ place = "idle"
  /\ Refuse(c)
  /\ UNCHANGED <<now, engine, beliefs, place, ending, caller, wanted>>

CallAgain ==
  /\ place = "idle" /\ caller # NoCall
  /\ Again(caller)
  /\ Reach("calling")
  /\ UNCHANGED <<now, engine, beliefs, ending, caller, wanted>>

\* _ensure_connected.  The client may not have noticed yet that the peer is gone.
Analyse ==
  /\ place = "calling"
  /\ engine # NoPeer
  /\ engine' = [engine EXCEPT !.lines = @ \o Answer("readyok")]
  /\ Reach("syncing")
  /\ UNCHANGED <<now, retryVars, beliefs, ending, caller, wanted>>

\* Faulty variant: the believed MultiPV outlives the connection.
ForgetConnectionOnly ==
  /\ engine' = NoPeer
  /\ UNCHANGED beliefs

\* _reset_connection forgets the connection and what it was told of MultiPV, but
\* keeps the other options.
Forget ==
  /\ engine' = NoPeer
  /\ multipv' = 1
  /\ UNCHANGED applied

Reconnect ==
  /\ place = "calling"
  /\ ~engine.alive
  /\ Forget
  /\ ending' = "analyse"
  /\ Reach("opening")
  /\ UNCHANGED <<now, retryVars, caller, wanted>>

\* The lines of a search are named after the call and its attempt.
Search(c) == <<c, attempt[c]>>

\* readyok: MultiPV is set if it is believed to differ, then the search starts.
Synced ==
  /\ place = "syncing" /\ Heard("readyok")
  /\ engine' = [engine EXCEPT
       !.multipv = IF wanted # multipv /\ engine.alive THEN wanted ELSE @,
       !.lines = Tail(@), !.todo = Append(@, Search(caller))]
  /\ multipv' = wanted
  /\ Reach("searching")
  /\ UNCHANGED <<now, retryVars, applied, ending, caller, wanted>>

IsBestmove(line) == line[1] = "bestmove"

\* Lines that are not the awaited one are read and skipped.
Skip ==
  /\ place \in {"syncing", "searching"} /\ NextLine
  /\ LET line == Head(engine.lines)
     IN  IF place = "syncing" THEN line[1] # "readyok" ELSE ~IsBestmove(line)
  /\ Read
  /\ UNCHANGED <<now, retryVars, beliefs, place, ending, caller, wanted>>

Bestmove ==
  /\ place = "searching" /\ NextLine /\ IsBestmove(Head(engine.lines))
  /\ Read
  /\ Succeed(caller)
  /\ caller' = NoCall
  /\ ending' = "none"
  /\ Reach("idle")
  /\ UNCHANGED <<now, beliefs, wanted>>

-----------------------------------------------------------------------------
Waits == {"opening", "greeting", "connecting", "syncing", "searching"}

\* Faulty variant: a timeout leaves the connection as it is.
BreakWithoutReset(how) ==
  /\ place \in Waits
  /\ how \in {"transport", "cancelled"}
  /\ ending = "created" => how = "transport"
  /\ UNCHANGED <<beliefs, engine>>
  /\ Reach("broken")
  /\ ending' = IF ending = "created" THEN "created" ELSE how
  /\ UNCHANGED <<now, retryVars, caller, wanted>>

\* A timeout, the end of the stream, an error of a send, or a cancellation:
\* _reset_connection, on the way out.  It awaits the last drain and closes.
Break(how) ==
  /\ place \in Waits
  /\ how \in {"transport", "cancelled"}
  /\ ending = "created" => how = "transport"
  /\ Forget
  /\ Reach("broken")
  /\ ending' = IF ending = "created" THEN "created" ELSE how
  /\ UNCHANGED <<now, retryVars, caller, wanted>>

Broken ==
  /\ place = "broken"
  /\ IF ending = "created" THEN Reach("opening") /\ UNCHANGED <<retryVars, caller, ending>>
     ELSE /\ Reach("idle") /\ ending' = "none"
          /\ IF ending = "transport" THEN Fail(caller) ELSE Raise(caller)
          /\ caller' = IF at'[caller] = "pausing" THEN caller ELSE NoCall
  /\ UNCHANGED <<now, engine, beliefs, wanted>>

\* The engine ends its oldest search.  It answers isready while it searches.
Emit ==
  /\ engine.alive /\ engine.todo # <<>>
  /\ engine' = [engine EXCEPT
       !.lines = @ \o <<<<"info">>, <<"bestmove", Head(engine.todo)>>>>,
       !.todo = Tail(@)]
  /\ UNCHANGED <<now, retryVars, beliefs, place, ending, caller, wanted>>

\* The engine process dies.  What it has sent is still read.
Die ==
  /\ engine.alive
  /\ engine' = [engine EXCEPT !.alive = FALSE]
  /\ UNCHANGED <<now, retryVars, beliefs, place, ending, caller, wanted>>

Tick ==
  /\ now < Horizon
  /\ now' = now + 1
  /\ UNCHANGED <<retryVars, engine, beliefs, place, ending, caller, wanted>>

ClientNext ==
  \/ Open \/ Greeted \/ Connected \/ Configured \/ ConfigureFails
  \/ \E c \in Call : caller = NoCall /\ (EnterCall(c) \/ RefuseCall(c))
  \/ CallAgain \/ Analyse \/ Reconnect \/ Synced \/ Skip \/ Bestmove
  \/ (\E how \in {"transport", "cancelled"} : Break(how)) \/ Broken
  \/ Emit \/ Die \/ Tick

ClientSpec == ClientInit /\ [][ClientNext]_clientVars

-----------------------------------------------------------------------------
ClientTypeOK ==
  /\ RetryOK
  /\ multipv \in MultiPVs \cup {1}
  /\ place \in Waits \cup {"configuring", "idle", "calling", "broken"}

\* Whatever happened to the connections before, a search runs on an engine that
\* has the options and the MultiPV its call asks for.
SearchesRunAsAsked ==
  place = "searching" /\ engine.alive =>
    engine.configured /\ engine.multipv = wanted

\* A call is answered with the bestmove of its own last attempt: nothing an
\* earlier search left behind is ever read as an answer.
AnswersAreOwn ==
  [][\A c \in Call : at[c] = "trying" /\ at'[c] = "answered" =>
       Head(engine.lines) = <<"bestmove", Search(c)>>]_clientVars
=============================================================================
