------------------------------- MODULE Verdict -------------------------------
(***************************************************************************)
(* How sure an analysis is of its grade: a searched pair of positions is   *)
(* compared with deeper searches of the same pair                          *)
(* (analysis/classification_stability.py) and what is left decides whether *)
(* the played move was as good as the best in practice                     *)
(* (analysis/practical_equivalence.py).  A reading is what is compared of  *)
(* one search: the grade, the best move, who mates before and after, the   *)
(* expectation lost in tenths of a percentage point, the two variations.   *)
(***************************************************************************)
EXTENDS Integers, Sequences, FiniteSets

CONSTANT None      \* Python's None

Classes == {"best", "good", "inaccuracy", "mistake", "blunder"}
Reverified == {"inaccuracy", "mistake", "blunder"}

Readings == [class: Classes, eff: Nat, best: Nat \cup {None},
             mateBefore: {"white", "black", None}, mateAfter: {"white", "black", None},
             wdlLoss: Nat \cup {None}, before: Seq(Nat), after: Seq(Nat)]

Positive(x) == IF x < 0 THEN 0 ELSE x
Gap(x, y) == IF x < y THEN y - x ELSE x - y
Shorter(x, y) == IF x < y THEN x ELSE y

\* The expectation of a colour is White's or the rest of it.
ExpectationFor(color, e) == IF e = None THEN None
                            ELSE IF color = "white" THEN e ELSE 1000 - e

ExpectationLost(color, before, after) ==
  IF None \in {before, after} THEN None
  ELSE Positive(ExpectationFor(color, before) - ExpectationFor(color, after))

\* The first three plies agree, as far as both variations go.
PrefixStable(a, b) ==
  IF <<>> \in {a, b} THEN None
  ELSE LET common == Shorter(3, Shorter(Len(a), Len(b)))
       IN  SubSeq(a, 1, common) = SubSeq(b, 1, common)

\* The magnitude of the loss: by expectation where both have one.
Magnitude(a, b) ==
  IF None \notin {a.wdlLoss, b.wdlLoss}
  THEN IF Gap(a.wdlLoss, b.wdlLoss) <= 30 THEN "same" ELSE "wdl"
  ELSE IF Gap(a.eff, b.eff) <= 75 THEN "same" ELSE "loss"

SameMates(a, b) == a.mateBefore = b.mateBefore /\ a.mateAfter = b.mateAfter

VariationChanged(a, b, tactical) ==
  tactical /\ FALSE \in {PrefixStable(a.before, b.before), PrefixStable(a.after, b.after)}

\* _disagreement_reasons of two readings; none of them is convergence.
Disagreements(a, b, tactical) ==
  (IF a.class # b.class THEN {"classification_changed"} ELSE {})
    \cup (IF a.best # b.best THEN {"engine_best_move_changed"} ELSE {})
    \cup (IF ~SameMates(a, b) THEN {"mate_status_changed"} ELSE {})
    \cup (IF Magnitude(a, b) = "wdl" THEN {"wdl_loss_shift"} ELSE {})
    \cup (IF Magnitude(a, b) = "loss" THEN {"effective_loss_shift"} ELSE {})
    \cup (IF VariationChanged(a, b, tactical) THEN {"tactical_pv_prefix_changed"} ELSE {})

Agrees(a, b, tactical) == Disagreements(a, b, tactical) = {}

VerificationDepth(depth) == Shorter(depth + 4, 24)
EscalationDepth(depth) == Shorter(depth + 2, 26)

\* What the evidence says before any verification.
Unverified(depth, initial, status) ==
  [performed |-> FALSE, status |-> status, depth |-> None, escalated |-> None,
   converged |-> None, stable |-> None, classStable |-> TRUE,
   disagreements |-> {}, depths |-> {depth}, reading |-> initial]

\* Why a classification is not verified at all.
NotVerified(action, class, depth) ==
  IF action # "play_move" THEN "non_move_action"
  ELSE IF class \notin Reverified THEN "low_coaching_priority_class"
  ELSE IF depth >= 30 THEN "depth_cap_reached"
  ELSE None

Verified(st, initial, r, tactical) ==
  [st EXCEPT !.performed = TRUE, !.status = "verified", !.reading = r,
     !.depth = VerificationDepth(CHOOSE d \in st.depths : TRUE),
     !.classStable = r.class = initial.class,
     !.disagreements = Disagreements(initial, r, tactical)]

MustEscalate(st) == st.disagreements # {} /\ st.depth < 26

Escalated(st, initial, r, tactical) ==
  [st EXCEPT !.status = "escalated", !.reading = r,
     !.depth = EscalationDepth(st.depth), !.escalated = EscalationDepth(st.depth),
     !.classStable = r.class = initial.class,
     !.converged = Agrees(st.reading, r, tactical)]

\* Faulty variant: two searches that contradict each other are not noticed.
ConcludedWithoutConvergence(st, initial, tactical) ==
  [st EXCEPT !.depths = @ \cup ({st.depth, st.escalated} \ {None}),
             !.stable = Agrees(initial, st.reading, tactical)]

Concluded(st, initial, tactical) ==
  [st EXCEPT !.depths = @ \cup ({st.depth, st.escalated} \ {None}),
             !.stable = Agrees(initial, st.reading, tactical) /\ st.converged # FALSE]

\* An engine error in either round: what the first round wrote stays, but the
\* verification counts as not performed.
VerificationFailed(st) ==
  [st EXCEPT !.performed = FALSE, !.status = "engine_verification_failed"]

---------------------------------------------------------------------------
HardPunishments ==
  {"OPPONENT_MATE_IN_ONE_AFTER_MOVE", "STRONGEST_REPLY_IS_MATE_IN_ONE",
   "FAILED_MATE_THREAT_UPDATE_CANDIDATE", "FORCING_REPLY_MATERIAL_LOSS_IMMEDIATE",
   "DELAYED_MATERIALIZATION_AFTER_FORCING_REPLY"}

TacticalSigns ==
  HardPunishments \cup {"FORCING_REPLY_AVAILABLE"}

IsTactical(forcingReply, signatures) ==
  forcingReply \/ signatures \cap TacticalSigns # {}

Opponent(color) == IF color = "white" THEN "black" ELSE "white"

\* What is judged: the mover, the action, whether the move mates, whether both
\* actions lead to the same outcome, whether it is the engine's, the reply, the
\* signatures, and the reading of the initial or of the verified search.
MateDeteriorates(j) ==
  /\ ~j.mated
  /\ j.reading.mateAfter = Opponent(j.mover)
  /\ j.reading.mateBefore # Opponent(j.mover)

Punished(j) ==
  j.signatures \cap HardPunishments # {} \/ (j.forcingReply /\ j.reading.eff >= 100)

Band(x, equivalent, worse, name) ==
  IF x <= equivalent THEN [status |-> "equivalent", reason |-> name]
  ELSE IF x >= worse THEN [status |-> "not_equivalent", reason |-> name]
  ELSE [status |-> "indeterminate", reason |-> name]

\* Faulty variant: the engine's best is asked before the mates are compared.
EquivalenceBestFirst(j) ==
  IF j.action # "play_move" THEN [status |-> "indeterminate", reason |-> "action"]
  ELSE IF j.engineBest THEN [status |-> "equivalent", reason |-> "best"]
  ELSE IF MateDeteriorates(j) THEN [status |-> "not_equivalent", reason |-> "mate"]
  ELSE IF j.reading.wdlLoss # None THEN Band(j.reading.wdlLoss, 20, 50, "wdl")
  ELSE Band(j.reading.eff, 30, 100, "cp")

Equivalence(j) ==
  IF j.action # "play_move" THEN [status |-> "indeterminate", reason |-> "action"]
  ELSE IF ~j.sameOutcome THEN [status |-> "not_equivalent", reason |-> "outcome"]
  ELSE IF MateDeteriorates(j) THEN [status |-> "not_equivalent", reason |-> "mate"]
  ELSE IF Punished(j) THEN [status |-> "not_equivalent", reason |-> "punished"]
  ELSE IF j.engineBest THEN [status |-> "equivalent", reason |-> "best"]
  ELSE IF j.reading.wdlLoss # None THEN Band(j.reading.wdlLoss, 20, 50, "wdl")
  ELSE Band(j.reading.eff, 30, 100, "cp")

Priority(j) ==
  LET status == Equivalence(j).status
  IN  IF status = "equivalent" THEN "negligible"
      ELSE IF MateDeteriorates(j) \/ ~j.sameOutcome \/ Punished(j) THEN "high"
      ELSE IF (j.reading.wdlLoss # None /\ j.reading.wdlLoss >= 150) \/ j.reading.eff >= 200
      THEN "high"
      ELSE IF status = "not_equivalent" THEN "medium" ELSE "low"

---------------------------------------------------------------------------
\* _stability_evidence: the first answer to the same question, made before the
\* verification and overwritten by it.
FirstImpression(j, cpl, equivalent, mateChanged) ==
  LET punished == j.forcingReply /\ j.reading.class \in {"mistake", "blunder"}
      small == IF j.reading.wdlLoss # None THEN j.reading.wdlLoss <= 20
               ELSE cpl # None /\ cpl <= 30
      same == \/ equivalent \/ j.engineBest
              \/ /\ j.reading.class \in {"best", "good"} /\ ~punished
                 /\ ~mateChanged /\ small
  IN  [equivalent |-> same,
       priority |-> IF same THEN "negligible"
                    ELSE IF punished THEN "high"
                    ELSE IF j.reading.class \in {"mistake", "blunder"} THEN "medium"
                    ELSE IF j.reading.class = "inaccuracy" THEN "low"
                    ELSE "routine"]

\* compute_analysis_confidence.
Confidence(exact, searched, requested) ==
  LET depth == IF searched # None THEN searched ELSE requested
  IN  IF exact THEN "high"
      ELSE IF depth # None /\ depth <= 6 THEN "low"
      ELSE IF depth # None /\ depth <= 11 THEN "medium"
      ELSE "normal"

\* action_class: the rules first, then the grade.
ActionClass(action, best, score) ==
  IF score.missed THEN "missed_rule_action"
  ELSE IF score.conceded THEN "conceded_rule_action"
  ELSE IF score.isBest THEN "best"
  ELSE IF action # best THEN "suboptimal_rule_action" ELSE score.class

\* _enforce_action_invariants, which every delivered analysis passes.
Delivered(action, best, score) ==
  [isBest |-> score.isBest /\ ~score.missed /\ (action = best \/ score.equivalent),
   equivalent |-> score.equivalent /\ ~score.missed,
   actionClass |-> ActionClass(action, best, score),
   near |-> IF action = "play_move" /\ best = "play_move" /\ score.cpl # None
            THEN score.cpl <= 50
            ELSE score.isBest /\ ~score.missed /\ (action = best \/ score.equivalent)]
=============================================================================
