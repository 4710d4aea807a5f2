---------------------------- MODULE MoveGrading ----------------------------
(***************************************************************************)
(* The grade of an action (mcp_server/analysis/move_grading): what the     *)
(* engine says before and after it, what the rules say, and the order in   *)
(* which the strategies are asked.  Scores are the mover's: the sign the   *)
(* code multiplies by is applied already.  The logistic win probability is *)
(* a table in thousandths over the scores of an instance.                  *)
(***************************************************************************)
EXTENDS Integers, FiniteSets

CONSTANTS
  None,     \* Python's None
  Cps,      \* the centipawn scores of the instance
  WinPct    \* centipawns -> thousandths of a win

Larger(a, b) == IF a > b THEN a ELSE b
Lesser(a, b) == IF a < b THEN a ELSE b
Bound(low, high, x) == Larger(low, Lesser(high, x))
Size(x) == IF x < 0 THEN -x ELSE x

Win(cp) == WinPct[Bound(-2000, 2000, cp)]

Classes == {"best", "good", "inaccuracy", "mistake", "blunder"}
Faults == {"inaccuracy", "mistake", "blunder"}
Claims == {"claim_draw", "claim_draw_with_intended_move"}
Actions == Claims \cup {"play_move"}

ClassOfLoss(loss) ==
  IF loss < 20 THEN "best" ELSE IF loss < 50 THEN "good"
  ELSE IF loss < 100 THEN "inaccuracy" ELSE IF loss < 300 THEN "mistake"
  ELSE "blunder"

\* A score as the engine gives it: centipawns or a distance to mate.
Evals == [cp: Cps \cup {None}, mate: Int \cup {None}]
HasMate(e) == e.mate # None
Mates(e) == HasMate(e) /\ e.mate > 0
IsMated(e) == HasMate(e) /\ e.mate < 0

\* before_mover and after_mover: one number for a score of either sort.
Value(e) == IF e.cp # None THEN e.cp
            ELSE IF ~HasMate(e) THEN 0
            ELSE IF e.mate > 0 THEN 10000 ELSE -10000

\* What is graded: the action; whether the move is the engine's first, or the
\* only one; both scores; the rules before (claims at once, with a move, with
\* this move) and after; the opponent's material less the mover's; whether the
\* evaluations decided for a draw; and best_action of the evaluation before.
Situations ==
  [action: Actions, first: BOOLEAN, only: BOOLEAN, before: Evals, after: Evals,
   now: BOOLEAN, intended: BOOLEAN, intendedHere: BOOLEAN,
   mated: {"nobody", "opponent", "mover"}, drawn: BOOLEAN, opponentClaims: BOOLEAN,
   deficit: Int, drawBefore: BOOLEAN, drawAfter: BOOLEAN, canonical: Actions]

EngineBest(s) == s.action = "play_move" /\ s.first
OnlyMove(s) == s.action = "play_move" /\ s.only
CanClaim(s) == s.now \/ s.intended

WinningBefore(s) == Mates(s.before) \/ Value(s.before) >= 200
ForcedWin(s) == Mates(s.before) \/ Value(s.before) >= 100
WinningAfter(s) == Mates(s.after) \/ Value(s.after) >= 100
Down(s) == s.deficit >= 200
LosingAfter(s) == Value(s.after) <= -100 \/ IsMated(s.after) \/ Down(s)

Baseline(s) == IF CanClaim(s) THEN Larger(Value(s.before), 0) ELSE Value(s.before)
Delta(s) == Value(s.before) - Value(s.after)
RawLoss(s) == IF EngineBest(s) THEN 0 ELSE Larger(0, Delta(s))

ClaimRecommended(s) ==
  /\ ~ForcedWin(s) /\ ~WinningAfter(s) /\ ~s.drawn
  /\ \/ s.canonical \in Claims
     \/ CanClaim(s) /\ (Value(s.before) <= -100 \/ Down(s) \/ IsMated(s.before))

---------------------------------------------------------------------------
\* A score is built from this one: a best move that lost nothing.
Flawless(s) ==
  [class |-> "best", cpl |-> 0, raw |-> 0, delta |-> 0, mateLoss |-> None,
   eff |-> 0, kind |-> "none", engineBest |-> EngineBest(s), winLoss |-> 0,
   isBest |-> TRUE, equivalent |-> FALSE, missed |-> FALSE,
   missedKind |-> "none", conceded |-> FALSE]

Graded(s, class, eff, kind, winLoss) ==
  [Flawless(s) EXCEPT !.class = class, !.eff = eff, !.kind = kind,
                      !.winLoss = winLoss, !.isBest = FALSE]

Measured(s, score) ==
  [score EXCEPT !.cpl = RawLoss(s), !.raw = RawLoss(s), !.delta = Delta(s)]
Unmeasured(score) ==
  [score EXCEPT !.cpl = None, !.raw = None, !.delta = None]
NotTheEngines(score) == [score EXCEPT !.engineBest = FALSE]

\* An intended claim is not missed by playing the very move it announces.
AnnouncesTheMove(s, score) ==
  /\ s.canonical = "claim_draw_with_intended_move"
  /\ score.engineBest /\ score.raw \in {None, 0}

WithClaims(s, score) ==
  IF s.canonical \notin Claims THEN score
  ELSE IF s.action \in Claims
       THEN [score EXCEPT !.missed = FALSE, !.missedKind = "none"]
  ELSE IF AnnouncesTheMove(s, score)
       THEN [score EXCEPT !.missed = FALSE, !.equivalent = TRUE, !.missedKind = "none"]
       ELSE [score EXCEPT !.missed = TRUE, !.isBest = FALSE, !.equivalent = FALSE,
               !.missedKind = IF s.now THEN "immediate" ELSE "intended_move"]

Finalized(s, score) ==
  WithClaims(s, IF score.engineBest /\ s.canonical = s.action
                THEN [score EXCEPT !.equivalent = TRUE, !.isBest = TRUE]
                ELSE score)

---------------------------------------------------------------------------
DeliveredMate(s) ==
  [Flawless(s) EXCEPT !.mateLoss = 0,
     !.equivalent = EngineBest(s) /\ s.canonical = "play_move"]

ReceivedMate(s) ==
  [NotTheEngines(Graded(s, "blunder", 1000, "mate_transition", 1000))
     EXCEPT !.cpl = 1000, !.raw = 1000, !.delta = 1000]

ClaimGrade(s) ==
  IF Mates(s.before) \/ Value(s.before) >= 200
  THEN [Graded(s, "blunder", 1000, "outcome_penalty", 500)
          EXCEPT !.cpl = None, !.raw = None]
  ELSE IF s.canonical = "play_move"
  THEN [Graded(s, "blunder", 500, "technical_win_forfeited", 500)
          EXCEPT !.cpl = None, !.raw = None]
  ELSE [Flawless(s) EXCEPT !.mateLoss = 0, !.isBest = s.canonical = s.action,
                           !.equivalent = s.canonical = s.action]

Stake(s) == IF Value(s.before) > 0 THEN Value(s.before) ELSE 1000

DrawnGrade(s) ==
  IF WinningBefore(s)
  THEN LET score == [Measured(s, NotTheEngines(
                       Graded(s, "blunder", Bound(300, 1000, Stake(s)), "blundered_draw", 500)))
                       EXCEPT !.equivalent = FALSE]
       IN  IF HasMate(s.before) THEN [score EXCEPT !.cpl = None, !.raw = None] ELSE score
  ELSE [Flawless(s) EXCEPT !.class = IF EngineBest(s) THEN "best" ELSE "good",
          !.raw = RawLoss(s), !.delta = Delta(s), !.equivalent = s.canonical \in Claims]

Concedes(s) == s.opponentClaims /\ WinningBefore(s)

ConcededGrade(s) ==
  [Measured(s, NotTheEngines(
     Graded(s, "blunder", Bound(500, 1000, Stake(s)), "conceded_draw", 500)))
     EXCEPT !.conceded = TRUE]

DrawPreserved(s) ==
  /\ s.drawBefore \/ (CanClaim(s) /\ Value(s.before) <= 100)
  /\ s.drawAfter /\ EngineBest(s) /\ RawLoss(s) = 0

PreservedGrade(s) ==
  [Flawless(s) EXCEPT !.delta = Delta(s), !.engineBest = TRUE,
     !.isBest = s.canonical = "play_move", !.equivalent = TRUE,
     !.missed = /\ s.canonical \in Claims /\ s.action = "play_move"
                /\ s.canonical # "claim_draw_with_intended_move"]

ForfeitLoss(s) ==
  LET swing == Larger(Size(Value(s.before)), Size(Value(s.after)))
  IN  Bound(300, 1000, IF swing > 0 THEN swing
                       ELSE IF Down(s) THEN s.deficit ELSE 500)

ForfeitGrade(s) ==
  [Measured(s, Graded(s, "blunder", ForfeitLoss(s), "draw_claim_forfeit", 500))
     EXCEPT !.missed = TRUE]

---------------------------------------------------------------------------
\* Mate before and mate after, for the side that mates and for the other.
DistanceLoss(s) ==
  IF s.mated # "nobody" THEN 0
  ELSE Larger(0, Size(s.after.mate) + 1 - Size(s.before.mate))

Distance(s, score, loss) ==
  [score EXCEPT !.mateLoss = loss, !.kind = IF loss > 0 THEN "mate_distance" ELSE "none"]

StillMates(s) ==
  LET loss == DistanceLoss(s)
      score == IF EngineBest(s) \/ loss = 0 THEN Flawless(s)
               ELSE IF loss = 1 THEN Graded(s, "good", 50, "", 5)
               ELSE IF loss = 2 THEN Graded(s, "inaccuracy", 150, "", 20)
               ELSE Graded(s, "mistake", 300, "", Lesser(200, 20 * loss))
  IN  [Distance(s, score, loss) EXCEPT
         !.isBest = EngineBest(s) \/ (s.canonical = "play_move" /\ loss = 0)]

MateThrown(s) ==
  IF EngineBest(s)
  THEN [Flawless(s) EXCEPT !.equivalent = s.canonical = s.action]
  ELSE NotTheEngines(Unmeasured(Graded(s, "blunder", 1000, "mate_transition", 1000)))

Resists(s) ==
  LET loss == Larger(0, Size(s.before.mate) - Size(s.after.mate))
      score == IF EngineBest(s) \/ loss = 0 THEN Flawless(s)
               ELSE IF loss = 1 THEN Graded(s, "inaccuracy", 150, "", 20)
               ELSE IF loss = 2 THEN Graded(s, "mistake", 300, "", 100)
               ELSE Graded(s, "blunder", 500, "", Lesser(200, 50 * loss))
  IN  [Distance(s, score, loss) EXCEPT
         !.isBest = EngineBest(s) /\ s.canonical = "play_move"]

IsMateToMate(s) ==
  /\ HasMate(s.before) /\ HasMate(s.after)
  /\ s.before.mate > 0 \/ (IsMated(s.before) /\ IsMated(s.after))

MateToMate(s) ==
  IF IsMated(s.before) THEN Resists(s)
  ELSE IF s.after.mate > 0 THEN StillMates(s)
  ELSE IF s.after.mate = 0 THEN [Flawless(s) EXCEPT !.mateLoss = 0]
  ELSE MateThrown(s)

\* A mate that becomes centipawns: still winning by far, or not.
MateToCp(s) ==
  IF Value(s.after) >= 400
  THEN IF EngineBest(s) THEN Flawless(s)
       ELSE Graded(s, "inaccuracy", 150, "mate_distance", 20)
  ELSE IF EngineBest(s)
       THEN [Measured(s, Flawless(s)) EXCEPT !.equivalent = s.canonical = s.action]
  ELSE LET lost == Larger(0, 1000 - Win(Value(s.after)))
       IN  Measured(s, IF lost >= 200 THEN Graded(s, "blunder", 1000, "outcome_penalty", lost)
                       ELSE Graded(s, "mistake", 300, "outcome_penalty", lost))

CpToMate(s) ==
  IF IsMated(s.after)
  THEN [NotTheEngines(Unmeasured(
          Graded(s, "blunder", 1000, "mate_transition", Win(Baseline(s)))))
          EXCEPT !.missed = ClaimRecommended(s)]
  ELSE LET best == EngineBest(s) \/ s.after.mate > 0
       IN  [Flawless(s) EXCEPT !.class = IF best THEN "best" ELSE "good",
              !.mateLoss = 0, !.engineBest = best, !.isBest = best,
              !.equivalent = best /\ s.canonical = s.action]

---------------------------------------------------------------------------
\* Two centipawn scores.  In a position won by far a loss weighs less.
WonByFar(s, pct, cp) ==
  \/ Win(Baseline(s)) >= pct /\ Win(Value(s.after)) >= pct
  \/ Baseline(s) >= cp /\ Value(s.after) >= cp

SmallLossCap(s) == IF WonByFar(s, 950, 400) THEN <<15, 45>>
                   ELSE IF WonByFar(s, 900, 300) THEN <<20, 50>>
                   ELSE None

Weighed(s, loss, lost, cap) ==
  LET mild == cap # None /\ lost < 80
      classified == ClassOfLoss(loss)
      class == IF mild \/ classified = "best" THEN "good" ELSE classified
      eff == IF ~mild THEN Lesser(loss, 1000)
             ELSE Lesser(loss, IF lost < 40 THEN cap[1] ELSE cap[2])
  IN  Measured(s, Graded(s, class, eff, IF eff > 0 THEN "engine_cp" ELSE "none", lost))

PlainGrade(s) ==
  Weighed(s, Larger(0, Baseline(s) - Value(s.after)),
          Larger(0, Win(Baseline(s)) - Win(Value(s.after))), SmallLossCap(s))

StandardCp(s) ==
  IF EngineBest(s)
  THEN [Flawless(s) EXCEPT !.delta = Delta(s), !.isBest = s.canonical \notin Claims,
                           !.equivalent = s.canonical = s.action]
  ELSE PlainGrade(s)

---------------------------------------------------------------------------
\* The strategies in the order they are asked; the first that applies decides.
Strategy(s) ==
  IF s.action = "play_move" /\ s.mated = "opponent" THEN DeliveredMate(s)
  ELSE IF s.action = "play_move" /\ s.mated = "mover" THEN ReceivedMate(s)
  ELSE IF s.action \in Claims THEN ClaimGrade(s)
  ELSE IF s.drawn THEN DrawnGrade(s)
  ELSE IF Concedes(s) THEN ConcededGrade(s)
  ELSE IF ClaimRecommended(s) /\ DrawPreserved(s) THEN PreservedGrade(s)
  ELSE IF ClaimRecommended(s) /\ LosingAfter(s) /\ ~WinningAfter(s) THEN ForfeitGrade(s)
  ELSE IF IsMateToMate(s) THEN MateToMate(s)
  ELSE IF Mates(s.before) /\ ~HasMate(s.after) THEN MateToCp(s)
  ELSE IF ~HasMate(s.before) /\ HasMate(s.after) THEN CpToMate(s)
  ELSE StandardCp(s)

MustNotBlame(s, score) ==
  /\ EngineBest(s) \/ OnlyMove(s)
  /\ s.canonical = s.action
  /\ score.class \in Faults \/ score.eff > 0

\* _enforce_invariants: the engine's own move, and the only move, are not
\* blamed; a step into a mate is left as it is unless no other move exists.
Enforced(s, score) ==
  IF score.kind = "mate_transition" /\ ~OnlyMove(s) THEN score
  ELSE LET pardoned ==
             IF ~MustNotBlame(s, score) THEN score
             ELSE [score EXCEPT !.class = "best", !.eff = 0, !.cpl = 0, !.raw = 0,
                     !.delta = 0, !.isBest = TRUE, !.equivalent = TRUE, !.winLoss = 0,
                     !.mateLoss = IF @ = None THEN None ELSE 0,
                     !.engineBest = EngineBest(s) \/ @]
           own == IF EngineBest(s) /\ s.canonical = s.action
                  THEN [pardoned EXCEPT !.engineBest = TRUE, !.isBest = TRUE,
                                        !.equivalent = TRUE]
                  ELSE pardoned
       IN  WithClaims(s, own)

\* Faulty variant: what the strategy says is final.
GradeUnenforced(s) == Finalized(s, Strategy(s))

Grade(s) == Enforced(s, Finalized(s, Strategy(s)))
=============================================================================
