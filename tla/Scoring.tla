------------------------------- MODULE Scoring -------------------------------
(***************************************************************************)
(* dispatch_score (analysis/move_grading/dispatcher.py): what the grading   *)
(* strategies are asked about, gathered from the boards and the evaluations *)
(* before and after an action.                                             *)
(***************************************************************************)
EXTENDS Integers, Sequences

CONSTANTS None, Cps, WinPct

G == INSTANCE MoveGrading
E == INSTANCE Evaluation

\* The scores of an evaluation as the mover counts them.
Scores(color, e) == [cp |-> E!For(color, e.cp), mate |-> E!For(color, e.mate)]

\* p and q are the boards before and after, e1 and e2 the evaluations; r is the
\* position that e2 was made of, whose claims it carries.
Situation(p, q, r, action, move, e1, e2) ==
  [action |-> action,
   first |-> move # None /\ move = e1.best,
   only |-> Len(p.moves) = 1,
   before |-> Scores(p.turn, e1), after |-> Scores(p.turn, e2),
   now |-> p.now, intended |-> p.intended, intendedHere |-> move \in p.announced,
   mated |-> IF q.terminal # "checkmate" THEN "nobody"
             ELSE IF q.turn = p.turn THEN "mover" ELSE "opponent",
   drawn |-> q.terminal \notin {None, "checkmate"},
   opponentClaims |-> q.now \/ (e2.status = "active" /\ (r.now \/ r.intended)),
   deficit |-> p.deficit,
   drawBefore |-> e1.decision.outcome = "draw", drawAfter |-> e2.decision.outcome = "draw",
   canonical |-> e1.action]

\* score_played_move.
Score(p, q, r, action, move, e1, e2) == G!Grade(Situation(p, q, r, action, move, e1, e2))

\* _reply_from_eval and _strongest_reply_fact: the engine's move for the other
\* side, where there is one.
StrongestReply(q, e) ==
  IF E!IsOver(q) \/ e.best \notin DOMAIN q.moves THEN None ELSE q.replies[e.best]
=============================================================================
