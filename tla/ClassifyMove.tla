----------------------------- MODULE ClassifyMove -----------------------------
(***************************************************************************)
(* One call of the tool classify_move (tools/classify_move.py) with what it *)
(* calls: validation, two rule-aware evaluations, the grade, its second     *)
(* look at the engine's own move, the evidence, the verification by deeper  *)
(* searches and the practical verdict.  The engine's answers are chosen     *)
(* where the code awaits them; a search may also fail.                      *)
(***************************************************************************)
EXTENDS Integers, Sequences, FiniteSets, SequencesExt

CONSTANTS
  None, Cps, WinPct,
  Places,      \* positions by name
  Facts,       \* what the rules and the boards say of each
  Searches,    \* what a first search of a position may answer
  Deeper,      \* what a deeper one may answer
  Quick,       \* what a candidate's own search answers
  Requests,    \* the calls of the instance
  AskedDepth,  \* the depth they ask for
  RawCap,      \* how many writings may be compared: 32
  MoveCap      \* how many moves: 8

G == INSTANCE MoveGrading
S == INSTANCE Scoring
E == INSTANCE Evaluation
L == INSTANCE Line
T == INSTANCE Tactics
V == INSTANCE Verdict
Ev == INSTANCE Evidence

VARIABLES
  request,     \* the call being answered
  phase,       \* where its handler awaits
  before,      \* eval_before
  after,       \* eval_after
  score,       \* the grade
  evidence,    \* the forensic evidence
  stability,   \* evidence.stability
  deepened,    \* history: the readings of the deeper searches that answered
  reply        \* what the call ended with

vars == <<request, phase, before, after, score, evidence, stability, deepened, reply>>

P == Facts[request.place]
Move == P.moves[request.move]
IsClaim(r) == r.action \in G!Claims

\* The board after the action: a claim with an intended move plays it on the
\* board of the evidence, a claim at once leaves the board.
Q == IF request.action = "claim_draw" THEN P ELSE Facts[Move.leads]

Forensic(r) == r.detail = "forensic" \/ (r.detail = "standard" /\ r.compare # <<>>)
IsPlain(r) == r.detail = "standard" /\ r.compare = <<>>

---------------------------------------------------------------------------
\* What validation refuses, in its order.
ActionError(r) ==
  LET p == Facts[r.place]
  IN  IF E!IsOver(p) THEN "game_already_over"
      ELSE IF r.action = "claim_draw" THEN IF p.now THEN None ELSE "illegal_action"
      ELSE IF r.move \notin DOMAIN p.moves THEN "illegal_move"
      ELSE IF r.action = "claim_draw_with_intended_move" /\ r.move \notin p.announced
      THEN "illegal_action" ELSE None

CompareError(r) == Ev!Canonical(r.compare, MoveCap).error

Refusal(r) ==
  IF Len(r.compare) > RawCap THEN "too_many"
  ELSE IF ActionError(r) # None THEN ActionError(r)
  ELSE CompareError(r)

---------------------------------------------------------------------------
\* q is the board that is taken for the one after the action, r the position e2
\* was made of.
Score(q, r, e1, e2) == S!Score(P, q, r, request.action, request.move, e1, e2)

\* build_classification: whether both actions lead to the same outcome.
SameAction == /\ request.action = before.action
              /\ request.action = "play_move" =>
                   request.move = before.best \/ score.isBest \/ score.engineBest

SameOutcome ==
  \/ SameAction
  \/ E!ActionOutcome(request.action, P.turn, after)
       = E!ActionOutcome(before.action, P.turn, before)

\* _classification_verified: a grade that contradicts itself is not confirmed.
IsConfirmed ==
  /\ ~(/\ request.action = "play_move" /\ before.action # "play_move"
       /\ score.isBest /\ ~score.equivalent)
  /\ ~(score.eff > 0 /\ score.kind = "none")
  /\ ~(score.engineBest /\ score.eff > 0)

\* What the verification compares of a pair of evaluations.
Reading(e1, e2, s) ==
  [class |-> s.class, eff |-> s.eff, best |-> e1.best,
   mateBefore |-> E!MateState(P.turn, e1), mateAfter |-> E!MateState(Q.turn, e2),
   wdlLoss |-> V!ExpectationLost(P.turn, e1.wdl, e2.wdl),
   before |-> e1.pv, after |-> e2.pv]

Initial == Reading(before, after, score)

---------------------------------------------------------------------------
Idle == [place |-> CHOOSE x \in Places : TRUE, move |-> None, action |-> "play_move",
         detail |-> "standard", compare |-> <<>>]
Blank == [strongest |-> None, line |-> <<>>, signs |-> {}, unfixed |-> {}, compared |-> <<>>,
          differences |-> <<>>, impression |-> None, trace |-> None]

Init ==
  /\ request = Idle /\ phase = "idle"
  /\ before = None /\ after = None /\ score = None
  /\ evidence = Blank /\ stability = None /\ deepened = {} /\ reply = None

\* What is delivered of the grade, and with which confidence.
Delivered == V!Delivered(request.action, before.action, score)
Confidence ==
  V!Confidence(E!IsOver(Q) \/ ~({before.mate, after.mate} \subseteq {None}),
               AskedDepth, AskedDepth)

Answer(x) ==
  /\ phase' = "done" /\ reply' = x
Fail == Answer([ok |-> FALSE, code |-> "engine_error"])

Ask ==
  \E r \in Requests :
    /\ phase = "idle"
    /\ request' = r
    /\ IF Refusal(r) = None THEN phase' = "before" /\ UNCHANGED reply
       ELSE Answer([ok |-> FALSE, code |-> Refusal(r)])
    /\ UNCHANGED <<before, after, score, evidence, stability, deepened>>

\* The position the call is about.
SearchBefore ==
  /\ phase = "before"
  /\ \E said \in Searches[request.place] : before' = E!Evaluate(P, said)
  /\ phase' = "after"
  /\ UNCHANGED <<request, after, score, evidence, stability, reply, deepened>>

\* The position after the move; a claim evaluates the same position again, which
\* the cache answers, and takes the draw for its outcome.
AfterClaim == {E!ClaimProjected(before)}
AfterMove == {E!Evaluate(Facts[Move.leads], said) : said \in Searches[Move.leads]}

SearchAfter ==
  /\ phase = "after"
  /\ \E e \in IF IsClaim(request) THEN AfterClaim ELSE AfterMove :
       /\ after' = e
       /\ LET q == IF IsClaim(request) THEN P ELSE Q IN score' = Score(q, q, before, e)
  /\ phase' = "second_look"
  /\ UNCHANGED <<request, before, evidence, stability, reply, deepened>>

\* verify_best_if_needed: the engine's own move, called an error, is searched
\* again, and its evaluation rebuilt without an expectation.  The new grade takes
\* the board before the move for the one after it as well.
IsDoubtful ==
  /\ request.action = "play_move" /\ request.move = before.best
  /\ Ev!IsError(score.class) /\ ~score.missed /\ ~score.conceded

NoSecondLook ==
  /\ phase = "second_look" /\ ~IsDoubtful
  /\ phase' = "evidence"
  /\ UNCHANGED <<request, before, after, score, evidence, stability, reply, deepened>>

Regrade(again) ==
  IF again.best # None /\ again.best # request.move
  THEN before' = again /\ score' = Score(P, Q, again, after)
  ELSE /\ score' = [score EXCEPT !.class = "best", !.eff = 0, !.engineBest = TRUE]
       /\ UNCHANGED before

SecondLook ==
  /\ phase = "second_look" /\ IsDoubtful
  /\ \E said \in Deeper[request.place] :
       Regrade(E!FromEval(P, [E!Evaluate(P, said) EXCEPT !.wdl = None], E!Nothing))
  /\ phase' = "evidence"
  /\ UNCHANGED <<request, after, evidence, stability, reply, deepened>>

\* A second look that raises is forgotten.
SecondLookFails ==
  /\ phase = "second_look" /\ IsDoubtful
  /\ phase' = "evidence"
  /\ UNCHANGED <<request, before, after, score, evidence, stability, reply, deepened>>

---------------------------------------------------------------------------
\* _reply_from_eval, over the board after the action.
StrongestReply == S!StrongestReply(Q, after)

ForcedLine == L!PrincipalLine(after.pv)

\* _candidate_evidence and enrich_candidate_geometry of a move.
Candidate(k) ==
  LET m == P.moves[k]
      q == Facts[m.leads]
      quick == Quick[m.leads]
      e == IF E!IsOver(q) THEN E!Unsearched ELSE quick
  IN  [move |-> k, value |-> Ev!CandidateValue(e.cp, e.mate), material |-> m.ply.swing,
       forcingReply |-> IF E!IsOver(q) \/ e.best \notin DOMAIN q.moves THEN None
                        ELSE Ev!IsForcing(q.replies[e.best]),
       facts |-> m.facts, endpoint |-> L!Endpoint(m.ply, L!PrincipalLine(e.pv).line)]

San(k) == [text |-> "san", move |-> k]

\* best_san_for_score: the played move where the grade calls it the engine's.
BestSan == IF score.engineBest /\ request.move # None THEN San(request.move)
           ELSE IF before.best \in DOMAIN P.moves THEN San(before.best) ELSE None
PlayedSan == IF request.action = "claim_draw" THEN None ELSE San(request.move)

ComparedMoves ==
  LET texts == IF PlayedSan = None
               THEN Ev!Compared(Forensic(request) /\ BestSan # None, BestSan, None,
                                request.compare, MoveCap)
               ELSE Ev!Compared(Forensic(request), PlayedSan, BestSan, request.compare, MoveCap)
  IN  [k \in DOMAIN texts |-> Candidate(texts[k].move)]

\* The moment of the tactics; a claim at once has no move to judge.
Moment == IF request.action = "claim_draw" THEN P.passing ELSE Move.moment

\* The signatures in the order of the pipeline: enrich_move_analysis,
\* upgrade_move_forensics, apply_threat_forensics, apply_mate_forensics,
\* apply_reply_materialization_evidence.
FirstSigns ==
  LET r == StrongestReply
  IN  UNION {Ev!MechanismSigns(score.class, r), Ev!ProfileSigns(r, ForcedLine),
             T!UpdateSigns(Moment, T!FirstUpdate(Moment))}

LaterSigns ==
  LET r == StrongestReply
      line == ForcedLine.line
  IN  UNION {Ev!ExtensionSigns(r, line), T!ThreatSigns(T!ThreatUpdate(Moment)),
             T!PinSigns(Moment.linesBefore, Moment.lines,
                        IF r = None THEN Moment.lines ELSE r.linesAfter),
             IF r # None /\ T!HasZwischenzug(r.ply, r.recaptures, r.turn)
             THEN {"ZWISCHENZUG_RESPONSE_CANDIDATE"} ELSE {},
             T!MateSigns(Moment, after.best),
             Ev!MaterializationSigns(r, line)}

\* apply_position_update_correction: the failed update is asked again.
UpdateSignatures == {"OPPONENT_MOVE_CREATED_URGENT_CHANGE", "FAILED_POSITION_UPDATE_CANDIDATE"}
Signs == (FirstSigns \ UpdateSignatures) \cup LaterSigns
           \cup T!UpdateSigns(Moment, T!CorrectedUpdate(Moment))

\* _stability_evidence, what the verdict later replaces.
Impression ==
  LET mates == [b |-> before.mate, a |-> after.mate]
      changed == \/ (mates.b = None) # (mates.a = None)
                 \/ None \notin {mates.b, mates.a} /\ (mates.b > 0) # (mates.a > 0)
  IN  V!FirstImpression([forcingReply |-> StrongestReply # None /\ Ev!IsForcing(StrongestReply),
                         engineBest |-> score.engineBest, reading |-> Initial],
                        score.cpl, Delivered.equivalent, changed)

Standard ==
  /\ phase = "evidence" /\ IsPlain(request)
  /\ Answer([ok |-> TRUE, code |-> None, graded |-> Delivered, confirmed |-> IsConfirmed,
             confidence |-> Confidence])
  /\ UNCHANGED <<request, before, after, score, evidence, stability, deepened>>

Enrich ==
  /\ phase = "evidence" /\ ~IsPlain(request)
  /\ LET compared == ComparedMoves
     IN  evidence' = [strongest |-> StrongestReply, line |-> ForcedLine.line,
                      signs |-> Signs, unfixed |-> FirstSigns, compared |-> compared,
                      differences |-> Ev!Differences(E!Sign(P.turn), compared, before.best),
                      impression |-> Impression,
                      trace |-> T!Trace(Len(after.pv), Len(ForcedLine.line),
                                        ForcedLine.line # <<>> /\ L!Ends(Last(ForcedLine.line)), None)]
  /\ stability' = V!Unverified(AskedDepth, Initial, "not_needed")
  /\ phase' = IF Forensic(request) THEN "verify" ELSE "judge"
  /\ UNCHANGED <<request, before, after, score, reply, deepened>>

---------------------------------------------------------------------------
IsTactical == V!IsTactical(evidence.strongest # None /\ Ev!IsForcing(evidence.strongest),
                           evidence.signs)

Reason == V!NotVerified(request.action, score.class, AskedDepth)

DeeperReading(e1, e2) == Reading(e1, e2, Score(Q, Q, e1, e2))

DeeperReadings ==
  {DeeperReading(E!Evaluate(P, a), E!Evaluate(Q, b)) :
     a \in Deeper[request.place], b \in Deeper[Move.leads]}

NeedsNoVerification ==
  /\ phase = "verify" /\ Reason # None
  /\ stability' = [stability EXCEPT !.status = Reason]
  /\ phase' = "judge"
  /\ UNCHANGED <<request, before, after, score, evidence, reply, deepened>>

Conclude(st) == V!Concluded(st, Initial, IsTactical)

EscalateOrConclude(st) ==
  IF V!MustEscalate(st) THEN stability' = st /\ phase' = "escalate"
  ELSE stability' = Conclude(st) /\ phase' = "judge"

Verify ==
  /\ phase = "verify" /\ Reason = None
  /\ \E r \in DeeperReadings :
       /\ deepened' = {r}
       /\ EscalateOrConclude(V!Verified(stability, Initial, r, IsTactical))
  /\ UNCHANGED <<request, before, after, score, evidence, reply>>

Escalate ==
  /\ phase = "escalate"
  /\ \E r \in DeeperReadings :
       /\ deepened' = deepened \cup {r}
       /\ stability' = Conclude(V!Escalated(stability, Initial, r, IsTactical))
  /\ phase' = "judge"
  /\ UNCHANGED <<request, before, after, score, evidence, reply>>

\* A search of either round that raises ends the verification.
VerificationFails ==
  /\ phase \in {"verify", "escalate"} /\ Reason = None
  /\ stability' = V!VerificationFailed(stability)
  /\ phase' = "judge"
  /\ UNCHANGED <<request, before, after, score, evidence, reply, deepened>>

---------------------------------------------------------------------------
\* _selected_evidence: the verified reading, or the initial one.
Judged ==
  [mover |-> P.turn, action |-> request.action, sameOutcome |-> SameOutcome,
   mated |-> after.status = "checkmate" /\ after.winner = P.turn,
   engineBest |-> score.engineBest,
   forcingReply |-> evidence.strongest # None /\ Ev!IsForcing(evidence.strongest),
   signatures |-> evidence.signs,
   reading |-> IF stability.performed THEN stability.reading ELSE Initial]

Judge ==
  /\ phase = "judge"
  /\ Answer([ok |-> TRUE, code |-> None, graded |-> Delivered, confirmed |-> IsConfirmed,
             confidence |-> Confidence,
             verdict |-> V!Equivalence(Judged), priority |-> V!Priority(Judged)])
  /\ UNCHANGED <<request, before, after, score, evidence, stability, deepened>>

\* A search that raises outside of the guarded ones ends the call.
EngineFails ==
  /\ \/ phase \in {"before", "after"}
     \/ phase = "evidence" /\ ~IsPlain(request)
  /\ Fail
  /\ UNCHANGED <<request, before, after, score, evidence, stability, deepened>>

Stop == phase = "done" /\ UNCHANGED vars

Next ==
  \/ Ask \/ SearchBefore \/ SearchAfter \/ NoSecondLook \/ SecondLook \/ SecondLookFails
  \/ Standard \/ Enrich \/ NeedsNoVerification \/ Verify \/ Escalate \/ VerificationFails
  \/ Judge \/ EngineFails \/ Stop

Spec == Init /\ [][Next]_vars

\* The event loop runs every handler on; every await of the engine ends, with an
\* answer or an error.
FairSpec == Spec /\ WF_vars(Next)
---------------------------------------------------------------------------
IsGraded == score # None
IsJudged == phase = "done" /\ reply.ok /\ evidence # Blank

\* The engine's own move is never held against the mover: graded with the
\* engine's evaluations it is best and costs nothing, unless they show a mate
\* for the other side or another action was to be preferred.
EngineBestIsNotBlamed ==
  /\ IsGraded /\ request.action = "play_move"
  /\ before.best # None /\ request.move = before.best
  /\ before.action = "play_move" /\ score.kind # "mate_transition"
  => score.class = "best" /\ score.eff = 0

\* A class that is called stable was searched again, and every deeper search that
\* was made, the one that was overruled as well, found the same class, best move
\* and mates.
Essence(r) == <<r.class, r.best, r.mateBefore, r.mateAfter>>

StableMeansUnanimous ==
  stability # None /\ stability.stable = TRUE
  => deepened # {} /\ \A r \in deepened : Essence(r) = Essence(Initial)

\* Where the draw was to be claimed, no part of the answer rates a move as equal to
\* the claim unless that move draws, not even the engine's own.
ClaimIsNotMatched ==
  /\ IsJudged /\ request.action = "play_move"
  /\ before.action \in G!Claims /\ E!OutcomeFor(P.turn, after) # "draw"
  => reply.verdict.status # "equivalent"

\* "Any mate deterioration ... blocks an equivalent label", says the docstring of
\* practical_equivalence.py: so does the loss of the mover's own forced mate by a
\* move that is not the engine's.  It does not hold: the README says
\* more under "Where code and documentation disagree".
LostMateIsNoEquivalent ==
  /\ IsJudged /\ request.action = "play_move" /\ ~score.engineBest
  /\ before.mate # None /\ E!For(P.turn, before.mate) > 0
  /\ after.status = "active" /\ after.mate = None
  => reply.verdict.status # "equivalent"
=============================================================================
