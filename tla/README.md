# Verification of chessy-mcp

chessy-mcp is an MCP server that answers chess questions (evaluate a position,
list top moves, classify a move, analyse a game, explore an opening) with a pool
of Stockfish engines behind a cache. This directory holds TLA+ models of the
parts of it that are concurrent and stateful, of the rules by which it decides how
a game ended, and of the three tools that judge moves; the TLC configurations that
check them; and TLAPS proofs of their most important properties.

Check everything by hand with

    tlc -config MCEnginePool.cfg MCEnginePool      (and so on for each .cfg)
    tlapm EngineProofs.tla                         (and the other *Proofs modules)

`MCBrokerCrossTalk.cfg` belongs to `MCEngineBroker` and `MCTopZeroing.cfg` to
`MCTools`; these two end with a counterexample, see *Where code and documentation
disagree*.

## 1. The system

| Component | Source (under `src/`) | State | Operations | What makes it correct |
|---|---|---|---|---|
| Engine pool | `core/engines/pool.py` | queue of engines, `_alive_count`, `_closed`, self-heal task | `run`, `_replace_and_retry`, `_accept_fresh`, self-heal loop, `close` | one task per engine, exact count, no lost process or slot, a cut-off engine never serves again |
| Single flight | `mcp_server/cache/single_flight.py` | table key → future | `do` as producer or waiter | one producer per key, every waiter ends with its flight's result |
| Two-tier cache | `mcp_server/cache/{memory,disk,multi_tier}.py` | L1 LRU, L2 SQLite table | get, set, clear | values belong to their key, L1 never ahead of L2 for long |
| Cached evaluator | `mcp_server/engine/cached_evaluator.py` | module-level cache and flights | `evaluate_game_position_cached` | one engine search per wave of equal requests |
| Engine broker | `broker/server.py` | `_engine_lock`, `_active_session`, the pipe to one Stockfish | UCI commands of each client, `_run_search`, stop, preemption, disconnect | sessions do not hear each other, stops hit their search, the lock is always given back |
| Explorer cache | `mcp_server/lichess_explorer/cache.py` | L1, L2 with expiry, flights | `get_or_fetch` | hits are younger than the time to live, one HTTP call per key |
| Retry and breaker | `mcp_server/engine/retry.py` | failures, `opened_at` | `with_engine_retry` | refuses only after a burst of failures, tries twice |
| Parallel gather | `mcp_server/engine/parallel_gather.py` | slices of a game, permits, engines in hand | `gather_evaluate_positions_bounded` | one result per position or none; nothing leaks; every slice ends |
| TCP client and pool | `mcp_server/{tcp_client,tcp_analyzer}.py` | connection, believed MultiPV, applied options | `connect`, `configure`, `analyse`, reset | the believed options are the engine's; an answer is that of its own search |
| Admission | `mcp_server/middleware/{rate_limit,request_cost,request_logger}.py` | token buckets | `is_allowed`, refusals before it | no client exceeds its rate |
| Rules, domain, claims | `mcp_server/{rules,domain,claims}/` | none | terminal status, draw claims, mating material, action choice | one notion of a terminal position, claims as in the Laws of Chess |
| Game record | `mcp_server/analysis/{mainline_parser,result_reconciliation,termination_resolution,reconciliation_warnings,trailing_ply_reconciliation,game_termination}.py` | board, moves, metadata, warnings | `parse_mainline`, `reconcile_result`, `build_game_termination_assessment` | read to the end and no further; the board decides; nothing is overridden in silence |
| Rule-aware evaluation | `mcp_server/engine/{zeroing_post_state,zeroing_post_state_all,eval_pipeline}.py`, `models/mcpeval_factory.py`, `contracts/mate_state.py` | none | score, best move and action of one position | a claim leaves no win behind |
| Grading | `mcp_server/analysis/move_grading/`, `core/{winprob.py,engines/grading.py}` | none | ten strategies in order, then the invariants | the engine's own move is not blamed |
| classify_move | `mcp_server/tools/classify_move.py`, `analysis/{classification_stability,practical_equivalence,classify_helpers}.py` | one handler and its awaits | validation, two evaluations, grade, second look, evidence, verification, verdict | what it says of a move does not contradict itself |
| top_moves | `mcp_server/tools/top_moves.py`, `analysis/{multi_pv,top_moves_finder,candidate_evaluator,top_moves_forensics}.py` | cache of candidate lists | candidates, ranking, action, comparisons, defence proof | the list is in the order of what the moves promise |
| analyze_game | `mcp_server/tools/game_metrics.py`, `analysis/{game_analyzer,game_coaching,game_critical_forensics,game_threat_forensics}.py` | one handler and its awaits | evaluations, grades twice, segments, critical moments, forensics | segments tile the game, mistakes are not lost |
| Forensics | `mcp_server/analysis/{forensics,forensic_extensions,forensic_integration,position_update_forensics,threat_forensics,mate_forensics,reply_materialization,candidate_continuation,causal_trace}.py` | none | signatures of a move and of its reply | each claim is visible in the evidence it rests on |
| Move and claim validation | `mcp_server/analysis/move_classifier.py`, `mcp_server/parsers/board_builder.py` | none | `validate_classify_input` | exactly the legal claims are accepted |
| Pool life cycle, ponder | `mcp_server/engine/{pool_lifecycle,lifespan,pool_factory,ponder}.py` | the shared pool | create on first use, close, warm | one pool, closed once |
| Parsers, models, position descriptions, other tools | `mcp_server/{parsers,models,contracts,tools}/` | none | read texts, build responses | fields agree with each other |

How they interact. A tool call looks its position up in the two-tier cache;
on a miss it enters the single flight of its key, whose producer calls the engine
through the retry helper and `_EnginePool.run`; the result goes to L1 and, if L1
was cold, to L2. A game is cut into slices by the parallel gather; each slice takes
an engine first and then goes through cache and flights with it in its hands. The
TCP pool is the same `_EnginePool` over TCP clients, which talk either to a
Stockfish container or to the broker; the broker puts all its sessions on one
Stockfish process. The explorer cache reuses the LRU, the SQLite file and the single
flight for HTTP answers. All Python components run on one asyncio event loop, except
the SQLite calls (`asyncio.to_thread`) and the rule-aware override (a second loop in
a thread). Requests come in through the token bucket.

The chess side is sequential but for the engine: a PGN is read by python-chess,
walked by `parse_mainline` until the rules end the game, and its result settled
between the board, the Result and Termination tags and the movetext. What a tool
says of a move is made from evaluations it awaits one after the other: the position
before and after, deeper ones of the same pair, the zeroing moves one by one. The
answers may contradict each other, and every later step must say which it went by.

What is hard: any request may be cancelled at any `await` (its client
disconnected); what was tested before an await may be false after it; engine
processes die, hang or are cut off in a search; disk calls fail one at a time and
may remove the database file; threads outlive the request that started them; the
broker's client may be reset while its search runs. On the chess side, the end of a
game is tested in several places by different code, repetitions and move counts
depend on how much of the history is known, plies may follow the end, and four
sources may name four results; scores change sides, and claims, mates and
centipawns are put on one scale. `PROJECT.json` lists each of
these hazards at its line, with the properties aimed at it.

## 2. Modules

    SingleFlight -----> CachedEvaluator      (SF == INSTANCE SingleFlight)
          |-----------> ExplorerCache        (SF == INSTANCE SingleFlight)
    EnginePool                               (fn of run() is abstract)
    EngineBroker                             (Stockfish is external)
    EngineRetry ------> TCPClient            (EXTENDS; the clock runs)
          |-----------> BatchGather          (Retry == INSTANCE, the clock stands)
    Gathering <........ BatchGather          (refinement: KeepsPromise)
    RateLimiter ------> Admission            (EXTENDS)
    ChessRules -------> GameRecord           (EXTENDS; python-chess is external)
    Evaluation, MoveGrading, Scoring, Line, Tactics, Evidence, Verdict
       |--------------> ClassifyMove --------> Tools   (EXTENDS)
       |--------------> TopMoves ------------> Tools   (TM == INSTANCE)
       |---> Coaching -> AnalyzeGame --------> Tools   (AG == INSTANCE)
    MC*                                      (instances for TLC)
    SingleFlightProofs, CachedEvaluatorProofs, ExplorerCacheProofs, BatchGatherProofs,
    CoachingProofs                           (each about the module it is named after)
    EngineProofs                             (EnginePool and TCPClient)
    ServerProofs                             (EngineBroker and Admission)
    ChessProofs                              (GameRecord, ClassifyMove and Tools)

One action is the code between two suspension points of the event loop. An
`asyncio.Lock` that nobody holds does not suspend, and the bodies under the
pool's, the flights' and the LRU's locks do not await, so those blocks are part of
the action around them. Wherever the code awaits, the model ends the action, and a
cancellation may come instead of the continuation.

**EnginePool** (`core/engines/pool.py`). `queue`, `aliveCount` and `closer` are `_q`,
`_alive_count` and `_closed`/`close()`; `pc[c]` and `held[c]` say where a request is in
`run()` and which engine its local variable holds; `healer` and `healEngine` are the
self-heal task. `up`, `stray` and `tainted` are facts about the processes: which run,
which of them nobody has, and which were cut off in a search. The factory is
`Analyzer.create` or `TCPAnalyzer.create`: it starts the process or opens the connection
and then awaits its configuration, so that one that fails or is cancelled there leaves
an engine running that was never handed out (`CreateAborted`, `stray`). `abandoned` is a
history variable. A request's path is `Request`, `Acquire` or `GiveUp` (PoolBusy), then
`Finish` (a result, or an ordinary exception), `TransportError` (into
`_replace_and_retry`: `Dropped`, `Respawned`/`RespawnFailed`,
`RetryAccepted`/`RetryRefused`/`RetryFailed`, `Returned`) or `CancelRun` (`CleanedUp`).
`CancelRecovery` is a cancellation inside those awaits. Engine identities are reused
after a process is closed, which keeps the model finite.

**SingleFlight** (`mcp_server/cache/single_flight.py`). A flight is named after
the request that leads it; `inFlight` is the table, `future` the state of each
flight's future. `Settle` is the `try` of `do` with its `finally`: it settles the
future and pops the key in one step, because nothing between awaits.

**CachedEvaluator** (`cached_evaluator.py`, `multi_tier.py`, `memory.py`,
`disk.py`). L1 is `l1` with its LRU `order`; L2 is `l2`; each request has a
`thread` for its disk calls which reads or writes at a moment of its own and
survives the request. A value is named after the request whose search produced
it, so that "the right value" can be said. `DiskRead` and `DiskWrite` contain the
failure of the call and the removal of the database (`KeptOrEmptied`), and a write that
succeeds may prune any other row (`Inserted`): which rows are the oldest of a table of
100 000 depends on keys the model does not have. `lost` is history: the keys whose row
was taken or not written since it was last there. The engine search itself
(retry, zeroing post-states, rule-aware override) is one abstract step that ends
in a value or an exception. `SF!Lead`, `SF!Join`, `SF!Settle`, ... are the actions
of SingleFlight itself, so that what is proved of its table can be used for the
evaluator.

**ExplorerCache** (`lichess_explorer/cache.py`). As above, with the clock each
request read on entry (`now`), entries that expire, and without the second look at
L1 that MultiTierCache takes. `clock` advances at any moment.

**EngineBroker** (`broker/server.py`). `queue` is `_engine_lock` with its FIFO
waiters, `task[s]` the place of a session's `_run_search`, `link[s]` its
connection. `input` and `output` are the pipes. Stockfish is external: it reads
commands in order, does not come to a `setoption` or a `go` while it searches, ends
a search at a `stop` or by itself, and answers `isready`. Positions and the values of
options are not modelled; each command and line carries the search it belongs to, a tag
neither the code nor a client can see. `configure` stands for the setoptions with
`isready`, since the broker sends them in one go and waits for `readyok` only;
`configured` is the search whose setoptions the process executed last. `EngineDies` is
the end of the process at any moment, after which it is not started again (`alive`). Its
lines can be read to the end; what is sent to it is lost until somebody notices
(`Send`), then the call raises: `EngineGone` and the second branch of `ReadConfigLine`
are the ways out of `_run_search`, and in a client's own command the exception ends the
session, as `Disconnect` does at any time.

**ChessRules** (`mcp_server/rules/`). Chess is a graph: the constant `Pos` gives
each position its side to move, its facts (check, insufficient or locked material,
the pieces of each side, the balance) and its legal moves, each quiet or zeroing. A
board is the path played and the halfmove clock, so that the fifty- and
seventy-five-move rules and repetitions are computed with the real limits (100,
150, 3, 5). The predicates of python-chess are external; `RuleTerminal`,
`IsTerminal`, `ReasonsNow`, `Intended`, `CanCheckmate`, `ChooseAction` and
`RuleStatus` are the functions of `status.py`, `terminal.py` and
`action_choice.py`. `Views` are the evaluations an action is chosen by.

**GameRecord**. `board` is where `parse_mainline` stands and `ended` its
`reached_terminal`; `pgn` is how far python-chess has read, which goes on after the
end (`IgnorePly`); `unread` counts the tokens it could not play, `over` is the
test `parse_pgn_game_candidate` makes of them. `Reconcile` is
`reconcile_result` with any metadata, `Assess` the second account of the ending.
`Classify` is a request for the position reached so far, with its history or as a
bare FEN; `verdict` holds its answer until the game goes on.

**EngineRetry** (`engine/retry.py`). The breaker is `failures` and `openedAt`;
`at`, `attempt` and `failedAt` say where each call is. A call is refused or let in
when it starts (`Refuse`, `Enter`), never between its attempts; `Fail` counts within
the window and trips, `Succeed` clears. `now` is a variable in TCPClient and a
constant in BatchGather.

**TCPClient** (`tcp_client.py`, `tcp_analyzer.py`). A connection is an engine
process of its own with what it really has (its MultiPV, whether it was
configured, the searches to do, the lines still to be read); the client has what it
believes. Every `await` may raise: end of stream, a timeout, a cancellation. The
reset then drops the connection and what was believed. Sending several commands in a
row is one step, which may fail as well.

**Gathering** and **BatchGather** (`engine/parallel_gather.py`). `Gathering` is what
a caller is promised: a call is open, then answered with exactly one result per
position or failed, once. BatchGather is how it is done: slices with permits and an
engine each, the cache (`known`), flights of others, the breaker, the pool's
replacement of a crashed engine and second run of the slice. Single requests enter
their flight first and queue for an engine afterwards, which is the order of
`evaluate_game_position_cached`; that is how the two can wait for each other.

**RateLimiter** and **Admission** (`middleware/`). A bucket is its tokens and its
time stamp; `Ask` sweeps idle buckets, cuts the map where that left too many, fills
up the bucket and takes the cost. Admission is the request logger around it: what is
refused before a token is looked at, and what each request is charged. `passed`,
`evicted` and `since` are history: at any moment an observer may start to count anew
(`Watch`), so that the account is about every stretch of time and not about the time
since the server was started.

**Evaluation** (`cached_evaluator.py`, `zeroing_post_state*.py`,
`eval_pipeline.py`, `action_choice.py`, `mcpeval_factory.py`). From what the engine
says of a position, and at a halfmove clock of a hundred of each capture and pawn move,
to the score, the best move and the recommended action. A position is a record of
facts (side to move, clock, whether a claim is open, its legal moves by number, ...);
an answer of the engine is a record too. Scores keep the point of view the code
gives them: White's in Evaluation and TopMoves, the mover's in MoveGrading.

**MoveGrading**, **Scoring** (`analysis/move_grading/`). Each strategy is an operator
that grades or passes; `Grade` asks them in the dispatcher's order and `Enforced`
applies the invariants. `Scoring` collects what they are asked about. The win
probability is a table in thousandths, because a logistic function is a table on
any finite set of scores.

**Line**, **Tactics**, **Evidence** (the forensics). A ply is a record of what the
readers of a line tell apart (check, capture, material swing, quiet, how it ends the
game). A moment is the set of the men concerned with what is counted of each.
The evidence of a move is the set of signatures the code would write.

**Verdict**, **ClassifyMove**. `ClassifyMove` is the handler, one action per await:
`Ask`, `SearchBefore`, `SearchAfter`, the second look at the engine's own move,
`Enrich`, `Verify`, `Escalate`, `Judge`; each search may answer anything in the
instance's tables or raise. What the second look replaces loses its win/draw/loss
figures, as in move_classifier.py, and a new grade is made with the claims of the
position after the move. `deepened` is history: the readings of the deeper searches.
`Verdict` has what is compared between two readings, the
stability built from it and the practical verdict.

**TopMoves**. From the call through the cache, the multi-PV search, the one-by-one
evaluation of candidates or of all zeroing moves, the ranking, to the response with
comparisons and the defence proof. `cache` outlives the call. The row that is made up for
a winning capture has the mover's own numbers beside White's; `madeUp`, a mark of the
model, tells the properties which rows those are.

**Coaching**, **AnalyzeGame**. `Coaching` has the segments, momentum events and
critical plies as operators on the sequence of values (`Segments` is a fold over the
plies with a pending transition); `AnalyzeGame` is the call: the evaluations, one
position per step (`Scan`), the two passes of grades, the critical moments one after the
other, each searched again.

**Tools**. The server with the three tools, each answering a call of its own; they share
the rules of evaluation and nothing else. The properties that are about more than one of
them are stated here, and so is what the theorems take for granted of the engine's
answers (`FitsRanking`, `FitsChoice`, `FitsGame`; see section 5). `MCTools` is the
instance for TLC.

## 3. Runs

| Run | Bounds | Distinct states | Shows |
|---|---|---|---|
| `pool` | 2 requests that come again and again, 2 slots, 6 engine identities, 1 engine left running by a failed creation | 243 215 | the pool's invariants, refilling and closing |
| `single_flight` | 4 calls, 2 keys | 47 736 | one producer per key, shared results, waiters end |
| `cached_evaluator` | 3 requests, 2 keys, L1 of one entry | 203 432 | cache and flights agree, one search per wave, nothing is memory-only unasked |
| `broker` | 2 sessions, 2 searches each, 2 unread info lines | 88 024 | sessions are kept apart and search under their own options, stops hit their target, searches end, also when Stockfish dies |
| `broker_crosstalk` | 4 sessions, abrupt ones only | — | violation: `NoForeignBestmove` |
| `explorer` | 3 requests, 1 key, time to live 2, clock up to 2 | 417 581 | hits are fresh |
| `game_record` | 22 positions, 5 starts, 13 Termination texts, 2 plies or tokens behind the end | 131 277 | reading, claims, results and both accounts of the ending |
| `admission` | 2 clients, a map swept at 2 and cut to 1, clock up to 5, two evictions per client | 229 373 | what passes keeps the rate |
| `gather` | 2 games (one cut into 2 slices, one of a single position they share), 1 single request for it, 3 engines, 3 permits, 1 retry, breaker at 2 | 75 904 | nothing leaks, the promise of a gather, all tasks end |
| `tcp` | 1 client that is called again and again with MultiPV 1 or 3, 1 retry, breaker at 3, window 5, cool-down 2, clock up to 9 | 37 799 | options, answers and refusals |
| `tools` | one call of classify_move (15 requests) or analyze_game (9 games), two of top_moves (9 calls); 20 positions, 1 to 4 answers of a search, up to 10 candidate lists, scores up to 20 000 | 157 421 | what the tools say of a move agrees |
| `top_zeroing` | as `tools`, with a capture of Black that always wins | — | violation: `WinningZeroingMoveCounts` |

Why the bounds are enough for the cases that matter. Two slots with two requests let one
request recover while the other holds, returns or waits for the last engine, with the
self-heal task and `close()` in between; five identities let all of them hold different
processes, and a sixth is the one a failed creation left running, so that the pool still
has all it can use beside it. A flight needs a producer, a waiter that wakes late and a
second producer that follows it; the fourth call is a waiter of the second flight. The
evaluator needs a search, a lookup as old as that search, and a request for another key
that evicts it, hence an L1 of one entry. Two broker sessions that search twice meet as
active and queued, reset and fresh; the foreign bestmove takes a third and a fourth. A
clock up to the time to live lets an entry be fetched, rehydrated one tick later and
asked for when it is just too old. The positions of `MCGameRecord` are a rook ending
that can be repeated, won, stalemated or traded off, a pawn ending that locks, and a
knight against a pawn that mates by a smothered mate or loses its piece; the starts put
the clock just before the hundredth and the hundred-and-fiftieth ply, and one game
starts when it is over already. The texts cover each branch of the reconciliation.

In `admission` a map of one kept bucket makes every second client an eviction, and a
clock of twice the idle limit lets a bucket be swept, made anew and swept again;
`FewEvictions` is a state constraint, because evicting costs no time and its count is a
history variable. The observer may start again at any state, so an idle time of any
length comes before the stretch he looks at. In `gather` the three slices can hold the
three engines while the single request leads the flight two of them wait for, which is
the cycle the acquire timeout has to end; one retry and a breaker at two reach a refusal
behind another task's failures. `tcp` has time for a breaker that trips, cools down and
trips again; one client suffices since a client serves one call at a time. `MCTools` is
a server that answers one call. Its positions (`MCFacts`) are small graphs in which the
mover wins, loses, mates, is mated, may claim now or announce a claim; each search has
answers that agree with and that contradict the others. The games are one of eight plies
with every change of sides, one of two plies, a claimed draw, a mate and one without
moves. What is a default in the code (depth 12, caps of 32 and 8) is a parameter, and
smaller where a cap has to be met.

`CHECK_DEADLOCK FALSE` is set where requests are one-shot and the system really
comes to rest: everywhere but in the pool and the tools.

Key properties:

- *Pool.* `SlotsAccounted`: until `close()`, `_alive_count` is exactly the queued
  engines and those in a first attempt, so it never drifts and `put_nowait` never
  raises `QueueFull`; and the only way to lose a slot for good is to cancel its
  recovery. `NoOrphanEngine`: each process that runs is in exactly one place, in the
  queue or with a task that will queue or close it, but for those a `create()` that did
  not return left behind; the pool itself drops none. `TaintedNeverServes`: one that was
  cut off in a search is not used again.
  `ClosedPoolNeverGrows`, `QuietPoolRefills`, `CloseTerminates`.
- *Flights.* `OneProducerPerKey`, `WaitersShareTheFlight`, `WaitersEnd`.
- *Evaluator.* `NoRedundantSearch` (the promise of
  `tests/test_cache_late_miss_recheck_v14.py` and of the comment in
  `multi_tier.py`), `MemoryBackedByDisk` (the write-when-cold rule loses nothing: a value
  that is in memory only was pruned, cleared, gone with the database or not to be
  written), `AnswersMatchTheirKey`, `RequestsEnd`.
- *Broker.* `OneSessionAtTheEngine`, `ReadyokSeparatesSearches`,
  `SearchesRunUnderOwnOptions` (the options in force are those the search's own session
  sent for it), `StopHitsItsTarget`, `SearchesEnd`.
- *Explorer.* `HitsAreFresh`.
- *Game record.* `OneTerminality`: three tests for the end of a game agree on every
  reachable board, with or without history, but for locked positions, which
  python-chess does not know. `PliesStopAtTheEnd`. `ClaimVerdictsAreRight`: a claim
  is granted exactly where the Laws grant it, and the recommended action is never a
  claim that would be refused. `BoardOutcomeStands`: which
  of the four sources wins. `EndingsAgree`: the two accounts of the ending.
- *Admission.* `PassedKeepsTheRate`: in every stretch of time, what a client was let
  through is at most its rate times that time plus a full bucket, and one more per
  eviction of its own bucket in it; neither a long idle time before it (the cap of a
  bucket) nor the sweep of idle buckets gives anything away.
- *Gather.* `NothingLeaks`: engines idle, lost to the self-heal task and in hands are
  the pool's size, permits likewise. `KeepsPromise`: the refinement of Gathering.
  `TasksEnd`.
- *TCP.* `SearchesRunAsAsked`: a search runs on a configured engine with the
  MultiPV its call asked for. `AnswersAreOwn`: the bestmove returned is never a
  leftover. `RefusalsFollowABurst`: a refusal means Threshold failures, none older
  than the cool-down, without a success between them.
- *Tools.* `EngineBestIsNotBlamed`. `StableMeansUnanimous`: every deeper search that was
  made, the overruled one included, found the class that is called stable, with the same
  best move and mates. `ClaimIsNotMatched`: where a claim was recommended, the verdict
  rates no move as equivalent that does not draw, the engine's own included.
  `LossIsTheReplys`: a material loss to the reply is seen on a line that starts with it.
- `ClaimsLeaveNoWinBehind`: where a draw is recommended, no capture or pawn move wins, be
  it one that was searched at a clock of a hundred or a candidate of top_moves by what
  its row promises; writings the caller adds to the list are looked at after the action
  was chosen and are excepted. `RankedByOutcome`: candidates come in the order of what
  they promise the mover, with any scores: a losing one is followed by losing ones only,
  a winning one preceded by winning ones, the shorter mate first, and the better score
  first among those that neither win nor lose.
  Both leave aside the made-up rows that the code reads with another sign than they
  were written with (`ReadAsMeant`): those of Black, and those that kept the mate of the
  candidate they replaced. What goes wrong there is 2 below.
- `NoMistakeIsLost`: while there is room, each move counted as a mistake or a blunder is
  a critical moment; the last ply is counted as an intended claim where it can be one,
  and is then no move. `SegmentsTileTheGame`.

Every property of a passing run is known to be able to fail: the *Faulty variant*
operators in the modules are plausible bugs (a dropped guard, a missing reset, a
forgotten shield), and with one of them in the place of the real definition TLC
finds the property violated. They are used by no specification. The type invariants
of the modules are proved, or part of what is proved, in the proof modules.

### Where code and documentation disagree

Two disagreements are shown by a run.

1. *A broker session can receive another's bestmove* (`broker_crosstalk`). An
   abandoned search (its client was reset while lines were being sent) keeps
   Stockfish from the next sessions' `isready`; when they time out, each leaves
   one `readyok` to come, and later sessions count from the wrong one. Without a
   timed-out configuration this cannot happen (`ReadyokSeparatesSearches`).
2. *For Black, a mating capture at a clock of a hundred is ranked last, and a draw is
   claimed in its stead* (`top_zeroing`). The scores after the zeroing moves are the
   mover's (zeroing_post_state_all.py:64-97); `rank_candidate` (multi_pv.py:117-125) and
   `select_root_recommended_action` (79, 83) multiply them by the sign of the side to
   move once more, against the comment of top_moves_finder.py and the docstring of
   `choose_recommended_action`. With a capture of White's the property holds.

The following are stated by definitions of the modules that no run checks, because
they are known not to hold; each becomes a counterexample as soon as it is put into
the configuration of its module (3 and 4 in that of MCTools).

3. *A saturated score can outrank a mate* (Tools, `MateOutranksScores`), against the
   comment of multi_pv.py:28-31. The cap of 9999 is above the value of a mate in two or
   more and equal to that of a mate in one.
4. *A lost mate can be rated equivalent* (ClassifyMove, `LostMateIsNoEquivalent`), against
   the docstring of practical_equivalence.py (11-13): what counts as a mate deterioration
   is only a new mate for the opponent (205-209).
5. *A slot can be lost for good* (EnginePool, `EveryLostSlotRecovers`). A request
   cancelled in `await self._discard(...)` or `await self._factory()` of a recovery
   (pool.py:154-157, 198) has given its slot up and never reaches
   `_start_self_heal`; the handlers there catch `Exception`, which
   `CancelledError` is not.
6. *A closed pool can hold a running engine* (EnginePool, `ClosedPoolHasNoEngines`).
   `run()` puts its engine back after `close()` has drained the queue
   (pool.py:201-205).
7. *A cancelled producer cancels its waiters* (SingleFlight, `CancellationIsLocal`).
   The docstring of single_flight.py says that one disconnected caller cannot cancel
   shared work; this holds for waiters, and is proved (`WaitersAreHarmless`), but not
   for the caller that leads the flight (lines 53-56).
8. *The explorer can fetch twice* (ExplorerCache, `NoRedundantFetch`): the race that
   `multi_tier.py` documents and closes is open in `lichess_explorer/cache.py` (121).
9. *Legal plies behind the end of a game vanish* (GameRecord,
   `IgnoredPliesAreReported`). The count that is reported looks at the errors of
   python-chess (trailing_ply_reconciliation.py:49), which plays on after a fivefold
   repetition, the seventy-fifth move, bare kings or a locked position without
   one, and the count of `parse_mainline` is discarded.

Met on the way, modelled as the code has them, and stated by no property of their own:

- Termination texts "stalemate" and "dead position" are never normalised; the second
  account of the ending does not know locked positions and reads past the end; a
  claim with an intended move is refused when the position can be claimed already; a
  Result tag of `?` with "White wins" as Termination yields `1-0` without a warning.
- candidate_evaluator.py:197 and mate_state.py:85-90 take White's score for the
  mover's. cached_evaluator.py:289-294 writes a mate in one whoever mates, and leaves
  the win/draw/loss figures of the score it replaced. `_pick_override_move` takes the
  first zeroing move.
- top_moves_forensics.py:177-207 ranks a defence that mates or ends the game as zero;
  the root of the proof is the one with the largest mating distance (79-81); lists of
  positions with fewer legal moves than asked for are never served from the cache
  (top_moves_finder.py); the cap on writings comes before the removal of repeats.
- classification_stability.py:492 verifies at a depth below the first for 25 to 29;
  its `FORCING_REPLY_AVAILABLE` is written nowhere; a failed escalation keeps the
  first round's figures.
- The coaching grades every ply as a played move and the counts grade the last ply as
  an intended claim (game_coaching.py:336, game_metrics.py:67-92);
  `searched_depth` is the depth asked for even where long games are searched at 11 or
  12; a strict disagreement about the opening is raised after all engine work; the
  forensics of a critical ply joins a deeper search's reply with the scan's line.
- When Stockfish dies, the broker goes on accepting sessions whose searches all end with
  an info line and no bestmove (server.py:221-222, 268-269). A disconnect that finds its
  search active then raises before it closes its connection (239, 251).
- Slices that hold all engines wait for a flight whose leader waits for an engine;
  only the acquire timeout ends that. A transport error heard through a flight makes a
  slice drop its own healthy engine (pool.py:140-194). The semaphore that config.py
  says caps all evaluations is taken by slices only. After its cool-down the breaker
  admits everybody, not one trial (retry.py:120).
- A cancellation in the drain of `_reset_connection` leaves its socket open, and a
  failed or cancelled configuration in `Analyzer.create` or `TCPAnalyzer.create` leaves
  its process or connection open (`stray` in EnginePool).
  `estimate_mcp_request_cost` is called by nobody, and chunked bodies cost 1.

## 4. Fairness

Safety needs none. For liveness:

- *Pool.* Weak fairness of the self-heal task and of `close()`, and of the end of
  an awaited engine close: a ready task is run by the event loop, and `close()` of
  an engine has a bound of its own. Strong fairness of `HealAccepted`: the factory
  succeeds in the end if it is tried again and again; self-healing rests on it, and
  a factory that never works makes the property false, in the code as well. Nothing
  is assumed of clients or of their searches.
- *Flights, evaluator.* Weak fairness of each request's own steps; searches end
  because every engine call has a timeout, SQLite calls because of the 15 s busy
  timeout. No fairness of cancellations or failures.
- *Broker.* Weak fairness of the search tasks and of Stockfish, whose searches are
  finite: the clients of this repository send `go depth`.
- *Gather.* Weak fairness of each task: engine calls have timeouts and so has the wait
  for an engine (`acquire_timeout`), which is an action of the model (`GiveUp`). The
  self-heal task gets no fairness: `TasksEnd` does not need it.

## 5. Proofs

All are for arbitrary constants: any finite set of requests and any target size
(`PoolAssumption`), any sets of calls and keys (`FlightAssumption`, `CacheAssumption`),
any graph of positions, starts and texts (`PosAssumption`, `GameAssumption`), any
breaker limits, clock and calls (`RetryAssumption`), any clients, rates and sizes of the
map (`LimiterAssumption`), any games, pool and permits (`GatherAssumption`), any
sessions, searches and pipe bounds of the broker (`BrokerAssumption`), any time to live,
keys and requests of the explorer (`ExplorerAssumption`), and any tables of positions
and engine answers in ClassifyMove and Tools. The assumptions only say that "nothing" is
not a member of the sets, that sizes are positive, that there are enough engines to
start with, and that a game starts without a past. `LimiterAssumption` also says that a
bucket idle for the time after which it is swept would be full again, as with the values
of config.py. `MateNeedsMaterial` is a fact of chess the graph cannot know: whoever has
mated had two knights, a knight and a bishop, bishops of both colours, a stronger piece,
or any piece beside one of the opponent's.

Three theorems about the tools also have hypotheses, because there the engine's answers
are compared as numbers. `FitsChoice`: scores are numbers. `FitsGame`: likewise, and a
game has one position more than it has moves. `FitsRanking`: scores are numbers, of any
size; mates are nearer than a thousand moves; a move that mates leads to a mate, and none
is announced in a drawn position. The
theorems also say that `None` is not a number. TLC evaluates them on the
instance (the ASSUMEs at the end of `MCTools`).

**EngineProofs, the pool.** The invariant of the pool's specification is `IInv`: the
safety properties, type and `OneOwner` together with `HandsOK`, which says at which
program counters a task's engine variable is set and that no self-heal task exists
once `close()` drains. None of them is inductive alone. `SlotsAccounted` (in
`IInv` by its parts, `CountIsExact` and `LostSlotsAccounted`) needs `TypeOK` and the
ownership part, because a request that goes from *busy* to *idle*
must hold an engine that is not queued already; `NoOrphanEngine` needs `OneOwner`,
because closing an engine that somebody else holds too would leave a dead engine in
use; `TaintedNeverServes` needs both. An engine that a creation left running is new, so
it is none that is queued or held. There is one lemma per action, with one step
per conjunct of `IInv`; `BusyCount`, `RecoveringCount`, `AppendDistinct`,
`TailDistinct`, `HolderOwns`, `HeldTake` and `HeldDrop` are the facts about
cardinalities, queues and owners they share. `ClosedNeverGrows` is the action property,
from the same invariant.

**SingleFlightProofs.** The invariant adds `FuturesFollowProducers` (the future
of a flight is pending exactly while its producer runs, and then holds its
outcome). From it: one producer per key, an exact table, waiters that end
as their flight ended, and futures that no waiter can settle.

**CachedEvaluatorProofs.** Initial states map to initial states of SingleFlight and each
step to one of its steps or a stutter (`StepSimulation`); the actions are written with
those of SingleFlight, so this is no result of its own, but it carries what is proved of
SingleFlight over to the evaluator. `SearchesAreNeeded` follows: a search starts only
when L1 is cold and the table has no flight for the key, and the table is exact.

`AnswersMatchTheirKey` and `MemoryBackedByDisk` have an invariant of their own beside
that of the flights. `ValuesFound`: whatever lies in a tier, in a thread's row or in an
answer was found by a search for its own key that has reached its write or is over.
`RowsAccounted`: what a thread has read is on disk still, or its key is in `lost`: a
write failed, the removal of the database or a pruning took the row. The rule that L2 is
written only when L1 was cold is then safe, because whoever warms L1 has read the value
from disk or put a write of it on its way.

**ExplorerCacheProofs.** The expiry an entry gets is counted from the clock its request
read on entry, however long it waited, and all callers of a flight store the value.
`EntriesAreFresh` says that no entry, on disk, in memory or on its way between them,
expires later than the time to live after its value was fetched. It rests on
`WaitersCameEarly`: whoever waits for an answered flight read the clock before the answer
came. `HitsStay` keeps a hit true after it was given, when its entry may be gone. That a
flight's future is what its producer left is SingleFlight's theorem, reached by showing
each step to be one of SingleFlight (`StepSimulation`, `FlightsHold`).

**ChessProofs, game record.** The invariant says three things beside types: the reader
stands at the first terminal position or before it, and what python-chess has read
beyond is bounded (`ReaderOK`); the two accounts are what was computed from a game
that has not changed since (`ReportsOK`); an answer is about the present board
(`VerdictOK`). `ReaderOK` also says that no earlier position was locked:
`OneTerminality` is false without it, for a board that is locked and repeated five
times would be terminal under two names. `BoardDecides` is the lemma that no
FIDE downgrade meets a mate, and the only use of `MateNeedsMaterial`;
`OverridesWarn` and `AccountsAgree` go through the sources of a result case by
case; `IntendedExact` is the edge of the hundredth ply.

**EngineProofs, the TCP client.** The invariant has five parts. `Breaker`: each call's
attempts are counted and the breaker's account covers those that failed. `ClientOK`: the
types of the client and its peer. `UnderWay`: a call is under way exactly while the
client works for it. `BeliefsHold`: what the client believes of the MultiPV is what the
live engine behind its connection has, and a connection in use was configured; this is
where reconnects and cancellations have to be looked at one by one. `LinesOK`: a
bestmove that is unread or to come is that of the attempt under way, and nothing follows
it. `OwnAnswers` and `RefusalsAreDue` are action properties from it.

**ServerProofs, admission.** Per client, `Funded`: what passed since the observer began
and what the bucket is worth now (`Worth`) is at most one capacity, one more for each
eviction, and the rate times the time since. A bucket is never worth more than its
capacity, however long it was idle (`FilledIsCapped`): this is what `Watch` needs, for
the observer may begin at any time and must find no more than one capacity. The sweep
removes only buckets that are full by then (`SweepGivesNothing`, where the assumption is
used). One step of `is_allowed` is then a short list of cases by whether the bucket is
there.

**ServerProofs, broker.** The lock and the tasks first: the queue holds exactly the
sessions with a running task, its head alone may be the active one, and a task that
leaves takes its session out (`OneSessionAtTheEngine`). The pipes are harder, since a
session that is reset leaves its commands in Stockfish's input and its lines in the
output. `Owned`: every `go` or `stop` not yet read stands right behind a command of its
own search, or is next while Stockfish has the options of its search and runs no other
(`Serves`). That is why a stop cannot hit the next session's search, however late it is
read (`StopHitsItsTarget`), and why a search has its own options
(`SearchesRunUnderOwnOptions`); both hold after timeouts too. `Barrier`, as long as no
wait for a `readyok` has timed out: the handshake of the configuring session is in the
input with only its own commands behind it (`Configuring`), in the output with only its
own lines behind it (`Ready`), or lost with the process (`Hopeless`); while a session
searches all that is in the engine and the pipes is of its search (`AllOf`); and with no
session configuring there is no handshake anywhere (`NoHandshake`).
`ReadyokSeparatesSearches` is what `AllOf` says of the active session. After a timeout
the third part fails first, and number 1 above is what follows.

**BatchGatherProofs.** `SlicesTile`: for every number of positions, engines and the
rounding of `math.ceil`, the slices cover each index once. From the invariant
`TasksOK` (a result is filed under an index of its own slice and is that of its
position) each step is a step of `Gathering` or a stutter (`GatherKeepsPromise`).
`GatherLeaksNothing`: each step moves one task, and the engines and permits it gains are
those the pool and the semaphore lose (`Balances`); `OneMoves` turns that into
cardinalities.

**ChessProofs, classify_move.** For any answers of any searches. `EngineIsNotBlamed` goes
through the ten strategies (`MoveGrading`) and the enforcement at the end, under the
guard that the grade was made from `before`; `StableClassesAgree` through the two
rounds of verification and the ways they may fail. A conclusion compares the last
reading with the initial one; that the first round's reading says the same rests on the
convergence of the two rounds, for which the invariant (`VerifyInv`) keeps that the
second starts with what the first one read (`ConcludedIsUnanimous`).
`ClaimsAreNotMatched` goes through the order of the tests of the verdict: the outcome of
a claim is a draw, so a move that is called equal to it draws
(`ClaimIsAnotherOutcome`).

**ChessProofs, the tools.** `LossesAreTheReplys`: a line that does not begin with the
reply is replaced by the reply alone, and a line of one ply loses material at once or
never (`OnePlyLosesAtOnce`), so that a later loss comes of a line that does; no other
part of the evidence writes this signature. The moments of analyze_game are undescribed
until the last pass (`CoachInv`), which describes each by its own line and reply.

`CandidatesAreRanked`: `Ranked` is defined by counting who is in front of a candidate.
That each place is taken exactly once is the pigeonhole principle on the places
(`InFront` is a strict total order), so no recursion is involved; then the rank of a
candidate is compared with what its row says (`RankSays`) case by case over the kinds of
endings. Scores are as large as the engine prints them. One past 9000 counts as a win or
a loss and keeps that when it is clamped (`TheCeilingKeeps`); that it may pass a mate is
number 3 above. What a row promises is told without the code's signs, and
`MeantIsPromised` is where the two meet: a row that is read as it is meant promises what
the ranking reads in it. A made-up row of Black's is not, which is number 2 above. The
invariant (`TopInv`) also covers lists that an earlier call left in the cache.

`NoWinIsLeftBehind`: the evaluation recommends a claim only from the best gain, which is a
maximum over the zeroing moves; top_moves chooses its action from the candidates it
returns, unless writings were added later (`ActionInv`). That the evaluation of
top_moves reads gains as classify_move does is `SameGains`.

`MistakesAreKept`: every grade the ten strategies and the enforcement call a mistake or a
blunder weighs at least a hundred (`Weighs`), the bound from which a ply is critical; a
selection smaller than its room leaves nothing out; and the grades are made from
evaluations that no longer change (`WholeUpTo`, `Reviewed`), so the moments are those
that were selected, although they are graded again after deeper searches.

**CoachingProofs and ChessProofs, segments.** `SegmentsTile` is about a loop over the
plies, written as a recursive function (`Confirmed`). That it has a value for every
number of plies comes from well-founded recursion (`RunsExist`), and what holds after
each ply from the least ply at which it would fail (`LeastOf`, `ConfirmedRuns`). What
holds is `RunFits`: a state that is neither decisive nor two bands away from the one
before it was seen at its first ply and was confirmed later; the plies since a pending
state was seen first still carry the current one, so that rewriting them (`ObserveKeeps`)
makes no new start in their midst. The segments are then told by their starts: the n-th
member of a set of plies exists, and between it and the next there is no other
(`NthAreNeighbours`, `LastNthIsLast`, from counting the members below each), so the
states between two starts are equal (`SteadyBetween`) and the segments follow each other
(`DividedTiles`). `SegmentsTileValues` is that for any values; ChessProofs carries it to
the segments analyze_game keeps, which are made of values that do not change once the
evaluations are there (`SegInv`, `WorthsStay`).

Model-checked only: all liveness (`QuietPoolRefills`, `CloseTerminates`, `WaitersEnd`,
`RequestsEnd`, `SearchesEnd`, `TasksEnd`), which needs ENABLED or fairness and is out of
the prover's reach.

## 6. Abstractions to keep in mind

- The fn of `run()` is any mix of success, ordinary exception, transport error and
  cancellation. `_is_transport_error` is not looked into.
- The self-heal interval and its back-off are not modelled: a sleep takes any time.
- A pruning of L2 takes any one of the other rows: which of 100 000 is the oldest depends
  on keys the model does not have. Taking several at once is several prunings.
- The engines and connections that `create()` leaves behind (`Stray`) stay for ever, as
  in the code, and their number is bounded by `MaxStray`.
- The explorer cache never clears its tiers itself; `Wipe` is what the evaluation
  cache, which shares the SQLite file, may do to it.
- The broker's `priority` is fixed per session (clients set it when they connect).
  The 180 s read timeout of a running search is not modelled, because Stockfish
  prints info lines all the time.
- The broker's own shutdown is not modelled. Only in it can a search start for a
  session that is already closed (server.py:205).
- In the concurrent modules scores, positions and all chess content are abstract.
- Game record: the search for locked pawn chains is a fact about a position, the
  texts of the PGN are what the code's searches find in them, and tokens behind a
  result token, move numbers and NAGs are left out. So are the fields that only
  describe (confidence, `result_source`, repetition status) and the forced-mate
  part of the assessment, which needs the engine. A zeroing move is assumed never
  to lead back, as in chess.
- BatchGather: the clock of the breaker stands still (TCPClient has the one that runs),
  the cache never forgets and its disk never fails (CachedEvaluator), positions of
  one slice are distinct from each other only as the games of the instance make them.
  A cancellation of the whole gather is not modelled; SingleFlight and EnginePool have
  cancellation at every await.
- TCPClient: lines are the bestmove and one info line; the parsing of info lines is not
  modelled.
- Admission: time is in whole units and so are tokens; a request's size is one of a few.
- Tools: boards are facts and moves are numbers. What a predicate of the forensics finds
  on the squares is data of the instance, so the models show what is claimed of the
  facts and not how they are seen. Wording, ids, timings, metrics and response models are
  left out, and with them the causal trace's anchors. In one call of
  analyze_game the search for the two best candidates answers every moment with the
  same pair of scores. `MCTools` runs one tool at a time: they share only the caches,
  which have modules of their own.

## 7. Not modelled

- *PGN and move parsers, PGN validation*: string rewriting without state, which TLA+
  could only copy. What is made of the parsed game is GameRecord.
- *Position descriptions* (`position_integrity.py`, `tactical_snapshot_extensions.py`,
  `advanced_motifs.py`, `tactical_continuation_resolved.py`): enumeration of squares and
  wording; nothing decides on it later.
- *Response builders, models, contracts, openings, usage, cache keys, configuration*:
  data classes, tables and formatting.
- *evaluate_position, explore_opening*: one evaluation or one lookup behind request
  validation. *Ponder warming*: one more caller of the cached evaluator.
- *Pool life cycle*: creation behind a lock and `EnginePool.Close`; requests that still
  hold a pool that was dropped would need two pools in EnginePool.
- *Engine analyzer, Lichess client*: thin wrappers of python-chess and HTTP, which are
  single steps of the models.
- *Scripts, tests, deployment*: not part of the running program.

Hazards without a property (each has a note in `PROJECT.json`): the explorer's second
fetch and the unreported plies (known not to hold, above), an option outside the
defaults that one broker session leaves to the others, a connection nobody closes, the
second event loop of the rule-aware override, requests that outlive the shared pool.

## 8. Plan

Every safety property and every action property of the runs is proved. What is left is
to model more: two generations of the shared pool, the cancellation of a gather, and the
tokens behind a result token in GameRecord; then to carry `NothingLeaks` over to
those.
