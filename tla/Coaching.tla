------------------------------- MODULE Coaching -------------------------------
(***************************************************************************)
(* What a game is reduced to (analysis/game_coaching.py,                   *)
(* game_critical_forensics.py, game_threat_forensics.py,                   *)
(* tools/game_metrics.py): the course of the evaluation in segments, the   *)
(* events in which an advantage changes hands, the critical moments of one *)
(* side and what is said of each.  Values are centipawns for the side that *)
(* is coached; a ply of the game has the number of its move.               *)
(***************************************************************************)
EXTENDS Integers, Sequences, FiniteSets, SequencesExt

CONSTANT None      \* Python's None

MateWorth == 100000
Highest(S) == CHOOSE x \in S : \A y \in S : y <= x
Lowest(S) == CHOOSE x \in S : \A y \in S : x <= y
Capped(x, most) == IF x < most THEN x ELSE most
Distance(x, y) == IF x < y THEN y - x ELSE x - y

\* _white_effective_cp of an evaluation and _perspective_cp of it.
WhiteValue(e) ==
  IF e.status = "checkmate" \/ e.mate = 0
  THEN IF e.winner = "black" THEN -MateWorth
       ELSE IF e.winner = "white" \/ e.cp \in {None, 0} \/ e.cp > 0 THEN MateWorth ELSE -MateWorth
  ELSE IF e.mate # None THEN (IF e.mate > 0 THEN MateWorth - e.mate ELSE -MateWorth - e.mate)
  ELSE IF e.cp # None THEN e.cp ELSE 0

ValueFor(side, e) == IF side = "white" THEN WhiteValue(e) ELSE -WhiteValue(e)

\* _perspective_raw_value of a candidate of a search.
RawFor(side, e) ==
  LET white == IF e.mate = 0 THEN (IF e.cp # None /\ e.cp > 0 THEN MateWorth ELSE -MateWorth)
               ELSE WhiteValue([status |-> "active", winner |-> None, cp |-> e.cp, mate |-> e.mate])
  IN  IF side = "white" THEN white ELSE -white

---------------------------------------------------------------------------
\* The state of a position, from decisively worse to decisively better.
States == 0 .. 6
PositionState(value) ==
  IF value >= 350 THEN 6 ELSE IF value >= 150 THEN 5 ELSE IF value >= 60 THEN 4
  ELSE IF value > -60 THEN 3 ELSE IF value > -150 THEN 2 ELSE IF value > -350 THEN 1 ELSE 0

IsImmediate(current, observed) ==
  Distance(observed, current) >= 2 \/ observed \in {0, 6}

\* _confirm_segment_states: a neighbouring state counts once it is seen twice in
\* a row, and then from where it was seen first; a jump or a decisive state
\* counts at once.  causes has the ply of the confirmation of each transition.
Started(first) == [states |-> <<first>>, pending |-> None, since |-> None, causes |-> <<>>]
Current(run) == Last(run.states)
Caused(run, at, confirmed) ==
  [p \in DOMAIN run.causes \cup {at} |-> IF p = at THEN confirmed ELSE run.causes[p]]
Rewritten(states, from, state) ==
  [k \in DOMAIN states |-> IF k >= from THEN state ELSE states[k]]

\* Faulty variant: the confirmation leaves the plies before it as they were.
ObserveForward(run, seen) ==
  LET ply == Len(run.states) + 1
  IN  IF seen = Current(run)
      THEN [run EXCEPT !.states = Append(@, seen), !.pending = None, !.since = None]
      ELSE IF IsImmediate(Current(run), seen)
      THEN [run EXCEPT !.states = Append(@, seen), !.pending = None, !.since = None,
                       !.causes = Caused(run, ply, ply)]
      ELSE IF run.pending # seen
      THEN [run EXCEPT !.states = Append(@, Current(run)), !.pending = seen, !.since = ply]
      ELSE [states |-> Append(run.states, seen), pending |-> None, since |-> None,
            causes |-> Caused(run, run.since, ply)]

Observe(run, seen) ==
  LET ply == Len(run.states) + 1
  IN  IF seen = Current(run)
      THEN [run EXCEPT !.states = Append(@, seen), !.pending = None, !.since = None]
      ELSE IF IsImmediate(Current(run), seen)
      THEN [run EXCEPT !.states = Append(@, seen), !.pending = None, !.since = None,
                       !.causes = Caused(run, ply, ply)]
      ELSE IF run.pending # seen
      THEN [run EXCEPT !.states = Append(@, Current(run)), !.pending = seen, !.since = ply]
      ELSE [states |-> Rewritten(Append(run.states, seen), run.since, seen),
            pending |-> None, since |-> None, causes |-> Caused(run, run.since, ply)]

\* What is known after each ply.
Confirmed(raw) ==
  LET after[n \in 1 .. Len(raw)] ==
        IF n = 1 THEN Started(raw[1]) ELSE Observe(after[n - 1], raw[n])
  IN  after

Stability(raw, state) ==
  LET changes == Cardinality({k \in 1 .. (Len(raw) - 1) : raw[k] # raw[k + 1]})
      matching == Cardinality({k \in DOMAIN raw : raw[k] = state})
  IN  [level |-> IF 10 * matching >= 8 * Len(raw) /\ changes <= 1 THEN "high"
                 ELSE IF 10 * matching >= 6 * Len(raw) THEN "medium" ELSE "low",
       changes |-> changes]

\* _build_segments: the runs of one confirmed state; values has one value for
\* each ply.
Segment(values, raw, run, first, last) ==
  [start |-> first, end |-> last, state |-> run.states[first],
   peak |-> Highest({values[k] : k \in first .. last}),
   trough |-> Lowest({values[k] : k \in first .. last}),
   cause |-> IF first > 1 THEN first ELSE None,
   confirmed |-> IF first > 1 /\ first \in DOMAIN run.causes THEN run.causes[first] ELSE None,
   stability |-> Stability(SubSeq(raw, first, last), run.states[first])]

Starts(states) == {1} \cup {k \in 2 .. Len(states) : states[k] # states[k - 1]}
Nth(S, n) == CHOOSE x \in S : Cardinality({y \in S : y < x}) = n - 1

Divided(values, raw, run) ==
  LET starts == Starts(run.states)
      LastOf(k) == IF k = Cardinality(starts) THEN Len(raw) ELSE Nth(starts, k + 1) - 1
  IN  [k \in 1 .. Cardinality(starts) |-> Segment(values, raw, run, Nth(starts, k), LastOf(k))]

Segments(values) ==
  IF values = <<>> THEN <<>>
  ELSE LET raw == [k \in DOMAIN values |-> PositionState(values[k])]
       IN  Divided(values, raw, Confirmed(raw)[Len(raw)])

---------------------------------------------------------------------------
\* A record of a ply: its number, its side, whether it mates, the value before
\* and after it, the grade of its move and what the player wrote about it.
Events == {"gained_advantage", "lost_advantage", "missed_conversion", "fell_behind",
           "recovered", "missed_recovery"}

\* _build_advantage_events: what the record shows; twoBefore is the value two
\* plies before, None for the first.
Crossings(side, r, twoBefore) ==
  LET own == r.side = side
  IN  {k \in Events :
         CASE k = "gained_advantage" -> r.before < 150 /\ r.after >= 150
           [] k = "lost_advantage" -> r.before >= 150 /\ r.after < 75
           [] k = "missed_conversion" -> r.before >= 150 /\ r.after < 75 /\ own
           [] k = "fell_behind" -> r.before > -150 /\ r.after <= -150
           [] k = "recovered" -> r.before <= -150 /\ r.after > -75
           [] OTHER -> /\ own /\ twoBefore # None
                       /\ twoBefore <= -150 /\ r.before >= -75 /\ r.after <= -150}

\* The move that mates took nothing away from its own side, and gave the other
\* side nothing.
RecordEvents(side, r, twoBefore) ==
  Crossings(side, r, twoBefore) \
    (IF ~r.mates THEN {}
     ELSE IF r.side = side
          THEN {"lost_advantage", "missed_conversion", "fell_behind", "missed_recovery"}
          ELSE {"recovered", "gained_advantage"})

---------------------------------------------------------------------------
\* What a move cost, as the moments weigh it.
Loss(r) == IF r.score.eff # None THEN r.score.eff
           ELSE IF r.score.cpl # None THEN r.score.cpl ELSE 0

Importance(r) ==
  (IF Loss(r) > 0 THEN Loss(r) ELSE 0)
    + (CASE r.score.class = "blunder" -> 500 [] r.score.class = "mistake" -> 280
         [] r.score.class = "inaccuracy" -> 80 [] OTHER -> 0)
    + (IF r.comment THEN 120 ELSE 0)

\* The weightiest of a set of plies, the earlier of two alike.
Heavier(records, j, k) ==
  \/ Importance(records[j]) > Importance(records[k])
  \/ Importance(records[j]) = Importance(records[k]) /\ j < k

Heaviest(records, plies, most) ==
  {k \in plies : Cardinality({j \in plies : Heavier(records, j, k)}) < most}

IsSignificant(r) ==
  (r.score.eff # None /\ r.score.eff >= 100) \/ r.score.class \in {"mistake", "blunder"}

OwnPlies(side, records) == {k \in DOMAIN records : records[k].side = side}

\* The reasons to look at a ply: the first, the largest and the last error, an
\* advantage that went, a comment.
Turns == {"missed_recovery", "missed_conversion", "fell_behind", "lost_advantage"}

ReasonsOf(side, records, events, k) ==
  LET errors == {j \in OwnPlies(side, records) : IsSignificant(records[j])}
  IN  (IF errors # {} /\ k = Lowest(errors) THEN {"first_significant_error"} ELSE {})
        \cup (IF k \in Heaviest(records, errors, 1) THEN {"largest_error"} ELSE {})
        \cup (IF errors # {} /\ k = Highest(errors) THEN {"last_significant_error"} ELSE {})
        \cup (events[k] \cap Turns)
        \cup (IF records[k].comment THEN {"player_self_report"} ELSE {})

\* Heavy losses fill up what is left of the room.
Filling(side, records, named, most) ==
  LET rest == {k \in OwnPlies(side, records) : Loss(records[k]) >= 100} \ named
      room == most - Cardinality(named)
  IN  IF room <= 0 THEN {} ELSE Heaviest(records, rest, room)

\* Faulty variant: only the plies with a reason of their own are kept.
CriticalPliesNamed(side, records, events, most) ==
  {k \in OwnPlies(side, records) : ReasonsOf(side, records, events, k) # {}}

CriticalPlies(side, records, events, most) ==
  LET named == {k \in OwnPlies(side, records) : ReasonsOf(side, records, events, k) # {}}
  IN  Heaviest(records, named \cup Filling(side, records, named, most), most)

\* The moves of the coached side that were the engine's and held or kept an
\* advantage, at most three.
PositiveReason(r) ==
  IF r.before <= -150 /\ r.after >= r.before - 50 THEN "held_difficult_position"
  ELSE IF r.before >= 150 /\ r.after >= r.before - 75 THEN "converted_advantage_without_slippage"
  ELSE IF Distance(r.before, 0) >= 100 THEN "best_engine_move_under_pressure"
  ELSE None

PositiveWeight(r) ==
  Distance(r.before, 0) + (IF PositiveReason(r) = "held_difficult_position" THEN 150 ELSE 0)

PositivePlies(side, records) ==
  LET good == {k \in OwnPlies(side, records) :
                 records[k].score.engineBest /\ PositiveReason(records[k]) # None}
      Weightier(j, k) == \/ PositiveWeight(records[j]) > PositiveWeight(records[k])
                         \/ PositiveWeight(records[j]) = PositiveWeight(records[k]) /\ j < k
  IN  {k \in good : Cardinality({j \in good : Weightier(j, k)}) < 3}

\* _build_root_cause_links: the first of the six plies after a costly moment at
\* which a pawn or more is gone; balance has the material of the coached side
\* before the first ply and after each.
Materialization(balance, ply) ==
  LET lost == {k \in (ply + 1) .. Capped(Len(balance) - 1, ply + 6) :
                 balance[ply] - balance[k + 1] >= 100}
  IN  IF lost = {} THEN None ELSE Lowest(lost)

\* The gap between the two best candidates.
Gap(side, top) ==
  IF Len(top) < 2 THEN None
  ELSE LET gap == RawFor(side, top[1]) - RawFor(side, top[2]) IN IF gap < 0 THEN 0 ELSE gap

Reasonable(side, top) ==
  Cardinality({k \in DOMAIN top : RawFor(side, top[1]) - RawFor(side, top[k]) <= 100})

\* forensic_verification_depth and the depth of an escalation.
VerificationDepth(scan) ==
  IF scan < 14 THEN Capped(scan + 4, 14) ELSE IF scan <= 18 THEN 22
  ELSE IF scan <= 20 THEN 24 ELSE Capped(scan + 2, 26)
EscalationDepth(depth) == Capped(depth + 2, 26)

---------------------------------------------------------------------------
\* critical_forcing_threat_delta: forcing moves by name, what they are now and
\* what they would be if the mover passed.
Kinds == [check: BOOLEAN, capture: BOOLEAN, promotion: BOOLEAN, mate: BOOLEAN]

Shift(was, is) ==
  IF was.mate # is.mate THEN IF is.mate THEN "strengthened" ELSE "weakened"
  ELSE IF was.check # is.check THEN IF is.check THEN "strengthened" ELSE "weakened"
  ELSE IF was.capture # is.capture THEN IF is.capture THEN "strengthened" ELSE "weakened"
  ELSE None

\* The baseline does not exist where the mover may not pass.
ThreatDelta(probed, baseline, now) ==
  LET was == IF probed THEN DOMAIN baseline ELSE {}
      new == IF probed THEN DOMAIN now \ was ELSE {}
      left == was \cap DOMAIN now
      Shifts(d) == {m \in left : Shift(baseline[m], now[m]) = d}
      Sign(condition, name) == IF condition THEN {name} ELSE {}
  IN  UNION {
    Sign(was # {}, "OPPONENT_FORCING_THREAT_BASELINE_PRESENT"),
    Sign(DOMAIN now # {}, "OPPONENT_FORCING_REPLY_AFTER_MOVE"),
    Sign(new # {}, "NEW_OPPONENT_FORCING_REPLY_AFTER_MOVE"),
    Sign(\E m \in new : now[m].check, "NEW_OPPONENT_CHECK_AFTER_MOVE"),
    Sign(\E m \in new : now[m].capture, "NEW_OPPONENT_CAPTURE_AFTER_MOVE"),
    Sign(\E m \in new : now[m].promotion, "NEW_OPPONENT_PROMOTION_AFTER_MOVE"),
    Sign(was \ DOMAIN now # {}, "RESOLVED_OPPONENT_FORCING_THREAT_CANDIDATE"),
    Sign(left # {}, "FAILED_FORCING_THREAT_UPDATE_CANDIDATE"),
    Sign(Shifts("strengthened") # {}, "OPPONENT_FORCING_MOVE_STRENGTHENED"),
    Sign(Shifts("weakened") # {}, "OPPONENT_FORCING_MOVE_WEAKENED")}

\* The categories of failure a signature supports.
Category ==
  [s \in {"FAILED_FORCING_THREAT_UPDATE_CANDIDATE", "FAILED_POSITION_UPDATE_CANDIDATE",
          "FAILED_MATE_THREAT_UPDATE_CANDIDATE", "MISSED_MATE_IN_ONE_CANDIDATE",
          "MISSED_FORCING_REPLY_CANDIDATE", "FORCING_REPLY_MATERIAL_LOSS_IMMEDIATE",
          "DELAYED_MATERIALIZATION_AFTER_FORCING_REPLY", "NEW_EN_PRISE_PIECE_AFTER_MOVE",
          "NEW_TACTICALLY_HANGING_CANDIDATE_AFTER_MOVE", "ONLY_MOVE_MISSED_CANDIDATE",
          "PAWN_MOVE_FORCING_PUNISHMENT"} |->
     IF s \in {"FORCING_REPLY_MATERIAL_LOSS_IMMEDIATE", "DELAYED_MATERIALIZATION_AFTER_FORCING_REPLY"}
     THEN "MISSED_FORCING_REPLY_CANDIDATE" ELSE s]

Categories(signs) == {Category[s] : s \in signs \cap DOMAIN Category}

\* _failure_corpus: the moments of each category, the grave ones without any.
IsMajor(m) ==
  LET class == IF m.verified = None THEN m.class ELSE m.verified.class
      loss == IF m.verified = None \/ m.verified.eff = None THEN m.loss ELSE m.verified.eff
  IN  (loss # None /\ loss >= 100) \/ class \in {"mistake", "blunder"}

Corpus(moments) ==
  LET grave == {k \in DOMAIN moments : IsMajor(moments[k])}
      named == {k \in DOMAIN moments : moments[k].categories # {}}
      all == UNION {moments[k].categories : k \in named}
  IN  [major |-> Cardinality(grave), categorized |-> Cardinality(named),
       buckets |-> [c \in all |-> {moments[k].ply : k \in {j \in named : c \in moments[j].categories}}],
       uncategorized |-> {moments[k].ply : k \in grave \ named}]

---------------------------------------------------------------------------
\* _compute_game_metrics: the plies of a side, their losses and their faults.
Faults(side, records, class) ==
  Cardinality({k \in OwnPlies(side, records) : records[k].score.class = class})

RawLoss(score) == IF score.raw # None THEN score.raw ELSE score.cpl

Losses(side, records) ==
  {<<k, RawLoss(records[k].score)>> : k \in {j \in OwnPlies(side, records) : RawLoss(records[j].score) # None}}

IsTurningPoint(score) ==
  \/ score.cpl # None /\ score.cpl >= 150
  \/ score.eff # None /\ score.eff >= 150
  \/ score.class \in {"mistake", "blunder"} \/ score.missed

\* The eight costliest, in the order of the game.
TurningPoints(records) ==
  LET Cost(k) == IF records[k].score.eff = None THEN 1000 ELSE records[k].score.eff
      all == {k \in DOMAIN records : IsTurningPoint(records[k].score)}
      Costlier(j, k) == Cost(j) > Cost(k) \/ (Cost(j) = Cost(k) /\ j < k)
  IN  {k \in all : Cardinality({j \in all : Costlier(j, k)}) < 8}

Metrics(records) ==
  [blunders |-> [s \in {"white", "black"} |-> Faults(s, records, "blunder")],
   mistakes |-> [s \in {"white", "black"} |-> Faults(s, records, "mistake")],
   inaccuracies |-> [s \in {"white", "black"} |-> Faults(s, records, "inaccuracy")],
   losses |-> [s \in {"white", "black"} |-> Losses(s, records)],
   turning |-> TurningPoints(records)]
=============================================================================
