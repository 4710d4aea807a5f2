----------------------------- MODULE AnalyzeGame -----------------------------
(***************************************************************************)
(* One call of the tool analyze_game (analysis/game_analyzer.py,           *)
(* tools/game_metrics.py, analysis/game_coaching.py,                       *)
(* game_critical_forensics.py): every position of the game is evaluated,   *)
(* every move graded twice, once for the counts and once for the coaching, *)
(* and the critical moments of one side are searched again and described.  *)
(* How the PGN is read and its result reconciled is GameRecord; how the    *)
(* positions are shared out to the engines is BatchGather.                 *)
(***************************************************************************)
EXTENDS Integers, Sequences, FiniteSets, SequencesExt

CONSTANTS
  None, Cps, WinPct,
  Facts,       \* what the rules and the boards say of each position
  Searches,    \* what a first search of a position may answer
  Deeper,      \* what a deeper one may answer
  Tops,        \* the two best candidates a search may give, None if it raises
  Requests     \* the calls of the instance

S == INSTANCE Scoring
E == INSTANCE Evaluation
C == INSTANCE Coaching
Ev == INSTANCE Evidence
T == INSTANCE Tactics
L == INSTANCE Line

VARIABLES
  game,        \* the call being answered
  stage,       \* where its handler awaits
  evals,       \* the evaluations of the positions, the initial one in front
  metrics,     \* the counts and the turning points
  coaching,    \* the coaching evidence
  pending,     \* the moments whose class changed and that are searched again
  report       \* what the call ended with

agVars == <<game, stage, evals, metrics, coaching, pending, report>>

\* The position after a ply, the initial one after ply 0, and its evaluation.
Plies == 1 .. Len(game.moves)
Position(ply) == Facts[game.places[ply + 1]]
At(ply) == evals[ply + 1]

Most == IF game.most < 1 THEN 1 ELSE C!Capped(game.most, 7)
Depth == IF game.depth < 1 THEN 1 ELSE C!Capped(game.depth, 30)

---------------------------------------------------------------------------
\* _build_fifty_move_short_circuit: the last position of a drawn game is not
\* searched where fifty moves may be claimed in it.
IsClaimedDraw(ply) ==
  /\ game.result = "1/2-1/2" /\ ply = Len(game.moves)
  /\ Position(ply).clock >= 100 /\ Position(ply).moves # <<>>

FiftyMoves(p) ==
  [E!FromEval(p, E!Unsearched, E!Nothing) EXCEPT
     !.status = "fifty_moves", !.cp = 0, !.mate = None, !.execute = None,
     !.action = "claim_draw", !.decision = [outcome |-> "draw", cp |-> 0]]

Answers(ply) ==
  IF IsClaimedDraw(ply) THEN {FiftyMoves(Position(ply))}
  ELSE {E!Evaluate(Position(ply), said) : said \in Searches[game.places[ply + 1]]}

Deepened(ply) == {E!Evaluate(Position(ply), said) : said \in Deeper[game.places[ply + 1]]}

\* One answer for each of a sequence of positions.
Chosen(answers) ==
  FoldLeft(LAMBDA lists, one : {Append(list, e) : list \in lists, e \in one}, {<<>>}, answers)

Graded(ply, action, e1, e2) ==
  S!Score(Position(ply - 1), Position(ply), Position(ply), action, game.moves[ply], e1, e2)

\* _compute_game_metrics: the last move of a drawn game may be the claim.
CountedAction(ply) ==
  IF /\ ply = Len(game.moves) /\ Position(ply).now
     /\ Position(ply - 1).intended /\ game.moves[ply] \in Position(ply - 1).announced
  THEN "claim_draw_with_intended_move" ELSE "play_move"

Counted == [k \in Plies |-> [side |-> Position(k - 1).turn,
                             score |-> Graded(k, CountedAction(k), At(k - 1), At(k))]]

\* _build_records: for the coaching every move is a move.
Records ==
  [k \in Plies |->
     [side |-> Position(k - 1).turn, mates |-> Position(k).terminal = "checkmate",
      before |-> C!ValueFor(game.side, At(k - 1)), after |-> C!ValueFor(game.side, At(k)),
      score |-> Graded(k, "play_move", At(k - 1), At(k)), comment |-> k \in game.comments]]

---------------------------------------------------------------------------
\* _select_critical_moments, and where the evidence of a moment starts from.
Moment(records, events, k) ==
  [ply |-> k, class |-> records[k].score.class, loss |-> C!Loss(records[k]),
   reasons |-> C!ReasonsOf(game.side, records, events, k), comment |-> records[k].comment,
   reply |-> S!StrongestReply(Position(k), At(k)), verified |-> None, gap |-> None,
   signs |-> {}, categories |-> {}]

EventsOf(records) ==
  [k \in Plies |-> C!RecordEvents(game.side, records[k],
                                  IF k > 1 THEN C!ValueFor(game.side, At(k - 2)) ELSE None)]

\* _build_root_cause_links: what a costly moment led to in the game itself.
Links(moments) ==
  [k \in {j \in DOMAIN moments : moments[j].loss >= 100} |->
     C!Materialization([j \in DOMAIN game.places |->
                          (IF game.side = "white" THEN 1 ELSE -1) * game.balance[j]], k)]

CoachedFrom(records) ==
  LET events == EventsOf(records)
      critical == C!CriticalPlies(game.side, records, events, Most)
      moments == [k \in critical |-> Moment(records, events, k)]
  IN  [moments |-> moments,
       segments |-> C!Segments([k \in Plies |-> C!ValueFor(game.side, At(k))]),
       events |-> events,
       positive |-> [k \in C!PositivePlies(game.side, records) |->
                       [reason |-> C!PositiveReason(records[k]), gap |-> None]],
       links |-> Links(moments),
       depth |-> None, escalated |-> None, final |-> None, corpus |-> None]

Coached == CoachedFrom(Records)

---------------------------------------------------------------------------
\* _verify_critical_moments: what the boards and the deeper search add to a
\* moment.  game.boards has the facts of each ply.
Reassessed(m, score, found, depth, gap) ==
  LET board == game.boards[m.ply]
      forcing == found # None /\ Ev!IsForcing(found)
      costly == score.eff # None /\ score.eff >= 100
      alone == gap # None /\ gap >= 150 /\ ~score.engineBest
  IN  [m EXCEPT
         !.verified = [class |-> score.class, eff |-> score.eff, depth |-> depth,
                       stable |-> score.class = m.class],
         !.gap = gap,
         !.reply = IF found = None THEN @ ELSE found,
         !.signs = @ \cup UNION {
           Ev!When(board.enPrise # {}, "NEW_EN_PRISE_PIECE_AFTER_MOVE"),
           Ev!When(board.hanging # {}, "NEW_TACTICALLY_HANGING_CANDIDATE_AFTER_MOVE"),
           Ev!When(alone, "ONLY_MOVE_MISSED_CANDIDATE"),
           Ev!When(found # None /\ found.ply.check, "FORCING_CHECK_REPLY"),
           Ev!When(found # None /\ found.ply.capture, "FORCING_CAPTURE_REPLY"),
           Ev!When(found # None /\ found.ply.check /\ found.ply.capture, "CHECK_CAPTURE_REPLY"),
           Ev!When(found # None /\ found.ply.end = "mate", "STRONGEST_REPLY_IS_MATE_IN_ONE"),
           Ev!When(costly /\ forcing, "MISSED_FORCING_REPLY_CANDIDATE"),
           Ev!When(board.pawn /\ costly /\ forcing, "PAWN_MOVE_FORCING_PUNISHMENT"),
           Ev!When(m.comment /\ forcing, "PLAYER_SELF_REPORT_WITH_FORCING_REPLY"),
           Ev!When(m.comment, "PLAYER_SELF_REPORT_PRESENT")}]

Verified(m, e1, e2, depth, gap) ==
  Reassessed(m, Graded(m.ply, "play_move", e1, e2), S!StrongestReply(Position(m.ply), e2),
             depth, gap)

\* enrich_game_critical_forensics: the evidence of a moment over the scan's own
\* line; a reply that a deeper search found may not be the one it starts with.
ReplyOf(m) ==
  LET board == game.boards[m.ply]
  IN  IF m.reply # None THEN m.reply
      ELSE IF At(m.ply).best = None /\ board.mates.matesAfter # {}
      THEN Position(m.ply).replies[C!Lowest(board.mates.matesAfter)] ELSE None

LineSigns(m) ==
  LET reply == ReplyOf(m)
  IN  IF reply = None THEN {} ELSE Ev!Materialization(reply, At(m.ply).pv)

\* The causal trace follows the plies of the line that can be played.
TraceSigns(m) ==
  Ev!When(L!Replayed(At(m.ply).pv) > 0, "CRITICAL_CAUSAL_POSITION_DELTA_TRACE_AVAILABLE")

GameSigns(m) ==
  LET link == IF m.ply \in DOMAIN coaching.links THEN coaching.links[m.ply] ELSE None
  IN  Ev!When(link # None, "ACTUAL_GAME_MATERIALIZATION_LINK_AVAILABLE")
        \cup Ev!When(link = m.ply + 1, "ACTUAL_GAME_MATERIALIZATION_NEXT_PLY")

MateReply(m) == LET r == ReplyOf(m) IN r # None /\ r.ply.end = "mate"

Described(m) ==
  LET board == game.boards[m.ply]
      signs == UNION {
        m.signs, LineSigns(m), TraceSigns(m), GameSigns(m),
        C!ThreatDelta(board.probed, board.threatsIfPass, board.threatsNow),
        Ev!When(board.hanging \cup board.exchanged # {}, "NEW_TACTICALLY_HANGING_CANDIDATE_AFTER_MOVE"),
        T!MateSigns(board.mates, None),
        Ev!When(MateReply(m), "STRONGEST_REPLY_IS_MATE_IN_ONE")}
  IN  [m EXCEPT !.reply = ReplyOf(m), !.signs = signs, !.categories = C!Categories(signs)]

---------------------------------------------------------------------------
Start == CHOOSE r \in Requests : TRUE

Init ==
  /\ game = Start /\ stage = "idle" /\ evals = <<>> /\ metrics = None
  /\ coaching = None /\ pending = {} /\ report = None

End(x) == stage' = "done" /\ report' = x
Refuse(code) == End([ok |-> FALSE, code |-> code])
IsRich == game.detail # "standard"

\* A game without moves is reported as it stands.
ZeroPly(r) ==
  [ok |-> TRUE, plies |-> 0, metrics |-> None,
   coaching |-> IF r.detail = "standard" THEN None
                ELSE [moments |-> <<>>, segments |-> <<>>, over |-> E!IsOver(Facts[r.places[1]])]]

AskGame ==
  \E r \in Requests :
    /\ stage = "idle"
    /\ game' = r
    /\ IF r.strict /\ (r.malformed \/ (r.moves = <<>> /\ r.warned))
       THEN Refuse("strict_pgn_error")
       ELSE IF r.moves = <<>> THEN End(ZeroPly(r))
       ELSE stage' = "scan" /\ UNCHANGED report
    /\ UNCHANGED <<evals, metrics, coaching, pending>>

\* All positions are evaluated; the results are in the order of the positions,
\* whichever engine answers first.
Scan ==
  /\ stage = "scan"
  /\ \E e \in Answers(Len(evals)) : evals' = Append(evals, e)
  /\ stage' = IF Len(evals') = Len(game.places) THEN "count" ELSE "scan"
  /\ UNCHANGED <<game, metrics, coaching, pending, report>>

\* The moves are counted and the opening looked up; a strict call then ends with
\* the first warning there is.
Count ==
  /\ stage = "count"
  /\ metrics' = C!Metrics(Counted)
  /\ IF game.strict /\ (game.warned \/ game.disagrees) THEN Refuse("strict_pgn_error")
     ELSE IF IsRich THEN stage' = "coach" /\ UNCHANGED report
     ELSE End([ok |-> TRUE, plies |-> Len(game.moves), metrics |-> metrics', coaching |-> None])
  /\ UNCHANGED <<game, evals, coaching, pending>>

GoOnWith(c) ==
  /\ coaching' = IF game.detail = "forensic"
                 THEN [c EXCEPT !.depth = C!VerificationDepth(Depth)] ELSE c
  /\ stage' = IF game.detail # "forensic" THEN "final"
              ELSE IF c.moments = <<>> THEN "praise" ELSE "verify"

Coach ==
  /\ stage = "coach"
  /\ GoOnWith(Coached)
  /\ UNCHANGED <<game, evals, metrics, pending, report>>

\* The moments whose class the deeper search changed.
Doubtful(after) ==
  {k \in DOMAIN after : ~after[k].verified.stable /\ coaching.depth < 26}

Adopt(after, doubtful) ==
  /\ coaching' = [coaching EXCEPT !.moments = after]
  /\ pending' = doubtful
  /\ stage' = IF doubtful = {} THEN "praise" ELSE "escalate"

\* The positions around the moments are searched once, more deeply; two moments
\* next to each other share one.
VerifyGame ==
  /\ stage = "verify"
  /\ LET plies == DOMAIN coaching.moments
         around == SetToSortSeq(plies \cup {k - 1 : k \in plies}, <)
     IN  \E list \in Chosen([i \in DOMAIN around |-> Deepened(around[i])]), top \in Tops :
           LET Found(ply) == list[CHOOSE i \in DOMAIN around : around[i] = ply]
               gap(k) == IF top = None THEN None ELSE C!Gap(Position(k - 1).turn, top)
           IN  \E after \in {[k \in plies |-> Verified(coaching.moments[k], Found(k - 1), Found(k),
                                                       coaching.depth, gap(k))]} :
                 Adopt(after, Doubtful(after))
  /\ UNCHANGED <<game, evals, metrics, report>>

\* A class that changed is settled by a search that is deeper still; what the
\* earlier verification wrote is replaced.
EscalateMoment ==
  /\ stage = "escalate"
  /\ LET k == C!Lowest(pending)
         depth == C!EscalationDepth(coaching.depth)
         bare == [coaching.moments[k] EXCEPT !.signs = {}, !.reply = S!StrongestReply(Position(k), At(k))]
     IN  /\ \E e1 \in Deepened(k - 1), e2 \in Deepened(k) :
              coaching' = [coaching EXCEPT
                             !.moments[k] = Verified(bare, e1, e2, depth, coaching.moments[k].gap),
                             !.escalated = depth]
         /\ pending' = pending \ {k}
         /\ stage' = IF pending = {k} THEN "praise" ELSE "escalate"
  /\ UNCHANGED <<game, evals, metrics, report>>

\* The good moves are checked to be the only ones; a search that raises leaves
\* the reason as it was.
Praise ==
  /\ stage = "praise"
  /\ \E top \in Tops :
       coaching' = [coaching EXCEPT !.positive =
         [k \in DOMAIN @ |->
            LET gap == IF top = None THEN None ELSE C!Gap(Position(k - 1).turn, top)
            IN  [gap |-> gap, reason |-> IF gap # None /\ gap >= 150 THEN "unique_resource"
                                         ELSE @[k].reason]]]
  /\ stage' = "final"
  /\ UNCHANGED <<game, evals, metrics, pending, report>>

\* _final_assessment; the scan's score decides which action the rules recommend.
Final ==
  /\ stage = "final"
  /\ LET n == Len(game.moves)
         q == Position(n)
         e == At(n)
     IN  \E top \in IF game.detail = "forensic" /\ ~E!IsOver(q) THEN Tops ELSE {None} :
           coaching' = [coaching EXCEPT !.final =
             [value |-> C!ValueFor(game.side, e), over |-> E!IsOver(q),
              forced |-> q.terminal = "checkmate" \/ e.mate # None,
              best |-> IF e.best \in DOMAIN q.moves THEN e.best ELSE None,
              reasonable |-> IF top = None THEN None ELSE C!Reasonable(q.turn, top),
              action |-> IF E!IsOver(q) THEN "game_over"
                         ELSE E!ChooseAction(q, E!RuleScore(q, e), E!For(q.turn, e.mate), E!Nothing)]]
  /\ stage' = "describe"
  /\ UNCHANGED <<game, evals, metrics, pending, report>>

Deliver(done) ==
  /\ coaching' = done
  /\ End([ok |-> TRUE, plies |-> Len(game.moves), metrics |-> metrics, coaching |-> done])

DescribedBy(moments) == [coaching EXCEPT !.moments = moments, !.corpus = C!Corpus(moments)]

Describe ==
  /\ stage = "describe"
  /\ Deliver(DescribedBy([k \in DOMAIN coaching.moments |-> Described(coaching.moments[k])]))
  /\ UNCHANGED <<game, evals, metrics, pending>>

\* The scan and the verifying searches raise; the other searches are guarded.
EngineFailsGame ==
  /\ stage \in {"scan", "verify", "escalate"}
  /\ Refuse("engine_error")
  /\ UNCHANGED <<game, evals, metrics, coaching, pending>>

StopGame == stage = "done" /\ UNCHANGED agVars

Next ==
  \/ AskGame \/ Scan \/ Count \/ Coach \/ VerifyGame \/ EscalateMoment \/ Praise \/ Final
  \/ Describe \/ EngineFailsGame \/ StopGame

Spec == Init /\ [][Next]_agVars
=============================================================================
