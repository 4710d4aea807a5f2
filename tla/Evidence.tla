------------------------------ MODULE Evidence ------------------------------
(***************************************************************************)
(* The evidence that is attached to a classified move: the opponent's      *)
(* strongest reply and what it does (analysis/forensics.py,                *)
(* forensic_extensions.py, reply_materialization.py) and the candidates it *)
(* is compared with (contracts/candidates.py, forensic_integration.py).    *)
(* A signature is a claim about the boards of the move; the evidence is    *)
(* the set of them.                                                        *)
(***************************************************************************)
EXTENDS Integers, Sequences, FiniteSets, SequencesExt

CONSTANT None      \* Python's None

Lines == INSTANCE Line

\* A reply: the ply it is, the piece it takes as the opponent left it, the
\* squares that check after it, what it attacks along a line, and the forcing
\* moves of its side now and after a pass.
Replies == [ply: Lines!Plies, victimLoose: BOOLEAN, checkers: SUBSET {"moved", "other"},
            skewers: BOOLEAN, forcingNow: SUBSET Nat, forcingIfPass: SUBSET Nat]

IsForcing(r) == r.ply.check \/ r.ply.capture
IsError(class) == class \in {"mistake", "blunder"}

When(condition, signature) == IF condition THEN {signature} ELSE {}

\* _mechanism_evidence.
MechanismSigns(class, r) ==
  IF r = None THEN {}
  ELSE UNION {
    When(IsForcing(r) /\ IsError(class), "MISSED_FORCING_REPLY_CANDIDATE"),
    When(r.ply.check, "FORCING_CHECK_REPLY"),
    When(r.ply.capture, "FORCING_CAPTURE_REPLY"),
    When(r.ply.check /\ r.ply.capture, "CHECK_CAPTURE_REPLY"),
    When(r.ply.capture /\ r.victimLoose, "LOOSE_PIECE_PUNISHED")}

ProfileSigns(r, principal) ==
  IF r = None THEN {}
  ELSE When(r.ply.swing <= -100, "IMMEDIATE_MATERIAL_PUNISHMENT")
         \cup When(principal.resolved, "TACTICAL_SEQUENCE_RESOLVED_IN_PV")

---------------------------------------------------------------------------
\* build_adaptive_forcing_resolution: the line up to the first ply after which
\* nothing is left of the sequence, and the loss seen on the way.
Adaptive(line) ==
  LET rest == Lines!Resting(line)
      walked == IF rest = None THEN line ELSE SubSeq(line, 1, rest)
  IN  [resolved |-> rest # None, plies |-> Len(walked),
       loss |-> Lines!FirstMaterialLoss(walked),
       mates |-> rest # None /\ line[rest].end = "mate"]

\* The moves the reply's side would have if the mover passed; nothing is asked
\* when the game is over or the mover is in check.
Followups(r) ==
  IF r = None \/ Lines!Ends(r.ply) \/ r.ply.check THEN {} ELSE r.forcingIfPass

GeometrySigns(r) ==
  IF r = None THEN {}
  ELSE When(r.ply.check /\ "other" \in r.checkers, "DISCOVERED_CHECK_REPLY")
         \cup When(r.skewers, "SKEWER_GEOMETRY_REPLY_CANDIDATE")

\* apply_move_forensic_extensions.
ExtensionSigns(r, line) ==
  LET adaptive == Adaptive(line)
  IN  UNION {
    When(adaptive.resolved, "ADAPTIVE_FORCING_SEQUENCE_RESOLVED"),
    When(adaptive.loss # None, "MATERIAL_LOSS_REALIZED_IN_RETURNED_PV"),
    When(r # None /\ adaptive.loss = 1, "LOSS_MATERIALIZED_ON_FIRST_REPLY"),
    When(r # None /\ adaptive.loss \notin {None, 1}, "LOSS_MATERIALIZED_LATER_IN_FORCING_LINE"),
    When(Followups(r) # {}, "FORCING_FOLLOWUP_IF_OPPONENT_PASSES"),
    When(r # None /\ Followups(r) \ r.forcingNow # {},
         "NEW_FORCING_FOLLOWUP_ENABLED_BY_REPLY_CANDIDATE"),
    GeometrySigns(r)}

---------------------------------------------------------------------------
\* apply_reply_materialization_evidence: the returned line if it starts with
\* the reply, the reply alone if not.
StartsWithReply(r, line) == line # <<>> /\ Head(line) = r.ply

TracedLine(r, line) == IF StartsWithReply(r, line) THEN line ELSE <<r.ply>>

\* What is said of a reply when material is first lost on a ply of the line.
LossAt(first, r, line) ==
  UNION {
    When(IsForcing(r) /\ first = 1, "FORCING_REPLY_MATERIAL_LOSS_IMMEDIATE"),
    When(IsForcing(r) /\ first \notin {None, 1}, "DELAYED_MATERIALIZATION_AFTER_FORCING_REPLY"),
    When(~StartsWithReply(r, line), "REPLY_PV_ALIGNMENT_UNAVAILABLE")}

\* Faulty variant: whatever line the engine returned is the reply's.
MaterializationOfAnyLine(r, line) == LossAt(Lines!MaterialTrace(line).first, r, line)

Materialization(r, line) ==
  LossAt(Lines!MaterialTrace(TracedLine(r, line)).first, r, line)

MaterializationSigns(r, line) == IF r = None THEN {} ELSE Materialization(r, line)

---------------------------------------------------------------------------
\* Candidate moves as they are written: a writing is a record of its text and
\* the move it parses to, None when it is not a legal move of the position.
Illegal(writings) == \E k \in DOMAIN writings : writings[k].move = None

\* canonicalize_candidates: one candidate for each move, in the order of first
\* writing, or an error.
Canonical(writings, cap) ==
  LET firsts == {k \in DOMAIN writings :
                   \A j \in 1 .. (k - 1) : writings[j].move # writings[k].move}
      unique == SelectSeq([k \in DOMAIN writings |-> IF k \in firsts THEN writings[k].move ELSE None],
                          LAMBDA m : m # None)
  IN  IF Illegal(writings) THEN [error |-> "illegal_move", moves |-> <<>>]
      ELSE IF Cardinality(firsts) > cap THEN [error |-> "too_many", moves |-> <<>>]
      ELSE [error |-> None, moves |-> unique]

\* What is asked for is compared by its text, not by its move: the played and
\* the best move in front, then the requested ones, the first eight of all.
WithoutRepeats(texts) ==
  FoldLeft(LAMBDA kept, t : IF \E k \in DOMAIN kept : kept[k] = t THEN kept ELSE Append(kept, t),
           <<>>, texts)

Compared(forensic, played, best, writings, most) ==
  LET own == IF ~forensic THEN <<>>
             ELSE IF best \in {None, played} THEN <<played>> ELSE <<played, best>>
      all == WithoutRepeats(own \o writings)
  IN  SubSeq(all, 1, IF Len(all) < most THEN Len(all) ELSE most)

\* _candidate_white_value: a mate on the scale of centipawns.
MateValue == 100000
CandidateValue(cp, mate) ==
  IF mate = None THEN cp
  ELSE IF mate = 0 THEN MateValue
  ELSE IF mate > 0 THEN MateValue - mate
  ELSE -(MateValue + mate)

\* build_candidate_differences: every other candidate against the engine's best
\* one, or the first; c has a move, a value for White, its material effect for
\* the mover, its reply, and the facts that are listed on one side only.
ReferenceOf(candidates, best) ==
  LET same == {k \in DOMAIN candidates : candidates[k].move = best}
  IN  candidates[IF same = {} THEN 1 ELSE CHOOSE k \in same : \A j \in same : k <= j]

Difference(sign, reference, c) ==
  [reference |-> reference.move, candidate |-> c.move,
   gap |-> IF None \in {reference.value, c.value} THEN None
           ELSE sign * (c.value - reference.value),
   material |-> c.material - reference.material,
   replies |-> <<reference.forcingReply, c.forcingReply>>,
   onlyReference |-> reference.facts \ c.facts, onlyCandidate |-> c.facts \ reference.facts,
   endpoint |-> Lines!EndpointDifference(reference.endpoint, c.endpoint)]

Differences(sign, candidates, best) ==
  IF Len(candidates) < 2 THEN <<>>
  ELSE LET reference == ReferenceOf(candidates, best)
           others == SelectSeq(candidates, LAMBDA c : c.move # reference.move)
       IN  [k \in DOMAIN others |-> Difference(sign, reference, others[k])]
=============================================================================
