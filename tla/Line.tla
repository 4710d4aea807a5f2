-------------------------------- MODULE Line --------------------------------
(***************************************************************************)
(* Principal variations as the analysis reads them: how far a returned     *)
(* line can be replayed, why the replay ends, when it loses material and   *)
(* where a candidate's continuation comes to rest.  A ply is what its      *)
(* readers tell apart; a line is a sequence of plies.                      *)
(***************************************************************************)
EXTENDS Integers, Sequences, FiniteSets

CONSTANT None      \* Python's None

\* A ply: its move; whether it is legal where it is played; check, capture, promotion;
\* whether it gives up something else for good (a pawn move, castling, castling
\* rights); what it changes in the mover's material balance; how the game
\* stands after it; and whether neither a check nor a forcing move is left then.
Plies == [move: Nat, legal: BOOLEAN, check: BOOLEAN, capture: BOOLEAN, promotion: BOOLEAN,
          lasting: BOOLEAN, swing: Int, end: {"none", "mate", "over"}, quiet: BOOLEAN]

Forcing(p) == p.check \/ p.capture \/ p.promotion
Material(p) == p.capture \/ p.promotion
Ends(p) == p.end # "none"

Earliest(S) == IF S = {} THEN None ELSE CHOOSE k \in S : \A j \in S : k <= j

Horizon == 12
Returned(pv) == SubSeq(pv, 1, IF Len(pv) < Horizon THEN Len(pv) ELSE Horizon)

\* The plies that can be replayed: legal, and none of them after the end.
Replayable(pv) ==
  {k \in DOMAIN pv : \A j \in 1 .. k : pv[j].legal /\ (j < k => ~Ends(pv[j]))}
Replayed(pv) == Cardinality(Replayable(pv))
Replay(pv) == SubSeq(pv, 1, Replayed(pv))
Last(line) == line[Len(line)]

StopsEarly(pv) == Replayed(pv) < Len(pv)
RunsIntoTheEnd(pv) == Replayed(pv) > 0 /\ Ends(pv[Replayed(pv)])

\* tactical_sequence_resolved: something forcing was played and nothing is left.
Settles(line) == /\ \E k \in DOMAIN line : Forcing(line[k])
                 /\ Last(line).quiet

PrincipalLine(pv) ==
  LET line == Replay(Returned(pv))
      reason == IF pv = <<>> THEN "no_pv"
                ELSE IF RunsIntoTheEnd(Returned(pv)) THEN "terminal_position"
                ELSE IF StopsEarly(Returned(pv)) THEN "invalid_pv_move"
                ELSE "pv_exhausted"
  IN  [line |-> line, reason |-> reason,
       resolved |-> \/ reason = "terminal_position"
                    \/ reason = "pv_exhausted" /\ Settles(line)]

---------------------------------------------------------------------------
FirstIrreversible(line) ==
  Earliest({k \in DOMAIN line : Material(line[k]) \/ Ends(line[k])})

Balance(line, k) ==
  LET sum[j \in 0 .. Len(line)] == IF j = 0 THEN 0 ELSE sum[j - 1] + line[j].swing
  IN  sum[k]

FirstMaterialLoss(line) ==
  Earliest({k \in DOMAIN line : Balance(line, k) <= -100})

\* build_reply_materialization_trace, over the line that it is handed.
MaterialTrace(pv) ==
  LET line == Replay(pv)
      first == FirstMaterialLoss(line)
  IN  [first |-> first,
       firstCp |-> IF first = None THEN None ELSE Balance(line, first),
       final |-> Balance(line, Len(line)), walked |-> Len(line),
       complete |-> RunsIntoTheEnd(pv) \/ ~StopsEarly(pv),
       reason |-> IF pv = <<>> THEN "no_pv"
                  ELSE IF RunsIntoTheEnd(pv) THEN "terminal_position"
                  ELSE IF StopsEarly(pv) THEN "invalid_pv_move"
                  ELSE "pv_exhausted"]

---------------------------------------------------------------------------
\* A candidate's endpoint: the first ply from the root on after which the game
\* is over or the forcing sequence has settled.
Resting(line) == Earliest({k \in DOMAIN line : Ends(line[k]) \/ Settles(SubSeq(line, 1, k))})

RestingReason(line, k) ==
  IF line[k].end = "mate" THEN "forced_mate_in_returned_pv"
  ELSE IF line[k].end = "over" THEN "terminal_position"
  ELSE IF \E j \in 1 .. k : Material(line[j]) THEN "material_resolution"
  ELSE "quiet_position"

\* _walk_endpoint: root is the candidate's own ply, continuation what follows.
Endpoint(root, continuation) ==
  IF ~root.legal
  THEN [plies |-> 0, reason |-> "invalid_candidate_move", resolved |-> FALSE, events |-> {}]
  ELSE LET line == Replay(<<root>> \o continuation)
           rest == Resting(line)
           plies == IF rest = None THEN Len(line) ELSE rest
       IN  [plies |-> plies,
            reason |-> IF rest # None THEN RestingReason(line, rest)
                       ELSE IF continuation = <<>> THEN "no_pv"
                       ELSE IF Len(line) < Len(continuation) + 1 THEN "invalid_pv_move"
                       ELSE "pv_exhausted",
            resolved |-> rest # None,
            events |-> {k \in 1 .. plies : Material(line[k]) \/ line[k].lasting}]

\* What two endpoints differ by; nothing without an endpoint on either side.
EndpointDifference(reference, candidate) ==
  IF None \in {reference, candidate} THEN [available |-> FALSE, reason |-> "continuation_endpoint_missing"]
  ELSE IF "invalid_candidate_move" \in {reference.reason, candidate.reason}
  THEN [available |-> FALSE, reason |-> "endpoint_delta_missing_or_invalid"]
  ELSE [available |-> TRUE, reason |-> "", plies |-> <<reference.plies, candidate.plies>>,
        reasons |-> <<reference.reason, candidate.reason>>,
        events |-> <<reference.events, candidate.events>>]
=============================================================================
