------------------------------- MODULE Tactics -------------------------------
(***************************************************************************)
(* What the analysis reads off the boards around a played move             *)
(* (analysis/forensics.py, position_update_forensics.py,                   *)
(* threat_forensics.py, mate_forensics.py, causal_trace.py).  Geometry is  *)
(* data: a moment of a game is the set of the men concerned, with what is  *)
(* counted of each, and the set of forcing moves and mates it leaves.      *)
(***************************************************************************)
EXTENDS Integers, Sequences, FiniteSets

CONSTANT None      \* Python's None

---------------------------------------------------------------------------
\* One of the mover's men through the opponent's last move and the played one:
\* prior and now as counted before and after the opponent's move (None where it
\* did not exist), later as counted after the played move, moved if that move
\* is its own.  An attitude is how it stands.
Attitudes == [attackers: Nat, defenders: Nat, pinned: BOOLEAN]
Stories == [prior: Attitudes \cup {None}, now: Attitudes, later: Attitudes \cup {None},
            moved: BOOLEAN]

\* A moment of a game: whether the move before is known, the men, whether the
\* mover is in check, whether a legal move is played, whether that move mates and
\* whether it gives check.
Known(g) == {m \in g.men : m.prior # None}

NewlyAttacked(g) == {m \in Known(g) : m.prior.attackers = 0 /\ m.now.attackers > 0}
NewlyPinned(g) == {m \in Known(g) : ~m.prior.pinned /\ m.now.pinned}

\* forensics.py: only a new attack exposes a piece, and a piece that has moved
\* away is not followed.
FirstExposed(g) == {m \in NewlyAttacked(g) : m.now.defenders = 0}
FirstLater(m) == IF m.moved THEN None ELSE m.later

\* position_update_forensics.py: neither does the last defender's leaving, and a
\* piece is followed through its own move.
Exposed(g) ==
  {m \in Known(g) : /\ m.now.attackers > 0 /\ m.now.defenders = 0
                    /\ m.prior.attackers = 0 \/ m.prior.defenders > 0}

StillExposed(s) == s # None /\ s.attackers > 0 /\ s.defenders = 0
StillPinned(s) == s # None /\ s.pinned

\* The check after the played move is the one it gives: the side to move is asked.
Unanswered(g) == g.inCheck /\ g.checks

Update(g, exposed, later) ==
  LET unresolved == {m \in exposed : StillExposed(later[m])}
                      \cup {m \in NewlyPinned(g) : StillPinned(later[m])}
  IN  [available |-> g.history,
       urgent |-> g.history /\ (g.inCheck \/ exposed # {} \/ NewlyPinned(g) # {}),
       addressed |-> IF ~g.history \/ ~g.played THEN None
                     ELSE g.mates \/ (unresolved = {} /\ ~Unanswered(g))]

FirstUpdate(g) == Update(g, FirstExposed(g), [m \in g.men |-> FirstLater(m)])
CorrectedUpdate(g) == Update(g, Exposed(g), [m \in g.men |-> m.later])

UpdateSigns(g, update) ==
  IF g.mates \/ ~update.urgent THEN {}
  ELSE {"OPPONENT_MOVE_CREATED_URGENT_CHANGE"}
         \cup (IF update.addressed = FALSE THEN {"FAILED_POSITION_UPDATE_CANDIDATE"} ELSE {})

---------------------------------------------------------------------------
\* Forcing moves are named after their squares: what stands before the
\* opponent's move, what it would be if the mover passed, what is left.
NewThreats(before, ifPass) == ifPass \ before

ThreatUpdate(g) ==
  IF ~g.history \/ g.over \/ g.inCheck
  THEN [probed |-> FALSE, new |-> {}, addressed |-> None]
  ELSE LET new == NewThreats(g.threatsBefore, g.threatsIfPass)
       IN  [probed |-> TRUE, new |-> new,
            addressed |-> IF ~g.played THEN None ELSE new \cap g.threatsAfter = {}]

ThreatSigns(update) ==
  IF update.new = {} THEN {}
  ELSE {"OPPONENT_MOVE_ENABLED_FORCING_THREAT_CANDIDATE"}
         \cup (IF update.addressed = FALSE THEN {"FAILED_FORCING_THREAT_UPDATE_CANDIDATE"} ELSE {})

\* The first two pieces on a slider's line: both the other side's, no king, and
\* the one in front worth less.
RelativePins(lines) ==
  {l \in lines : /\ l.front.color # l.actor /\ l.rear.color # l.actor
                 /\ ~l.front.king /\ ~l.rear.king
                 /\ l.front.value < l.rear.value}

PinSigns(before, after, afterReply) ==
  (IF RelativePins(after) \ RelativePins(before) = {} THEN {}
   ELSE {"NEW_RELATIVE_PIN_GEOMETRY_AFTER_MOVE"})
    \cup (IF RelativePins(afterReply) \ RelativePins(after) = {} THEN {}
          ELSE {"RELATIVE_PIN_GEOMETRY_CREATED_BY_STRONGEST_REPLY"})

\* A capture that can be taken back, and a forcing move that could be put between.
HasZwischenzug(ply, recaptures, forcing) ==
  /\ ply.capture /\ ~ply.check /\ ply.end = "none"
  /\ recaptures # {} /\ forcing \ recaptures # {}

---------------------------------------------------------------------------
\* Mates in one: the mover's before the move, the opponent's if the mover
\* passed, the opponent's after the move.
AnswersMateThreat(g) ==
  IF g.over \/ g.inCheck \/ g.matesIfPass = {} THEN None ELSE g.matesAfter = {}

MateSigns(g, reply) ==
  LET threatened == ~g.over /\ ~g.inCheck /\ g.matesIfPass # {}
  IN  UNION {
    IF g.matesBefore # {} THEN {"MATE_IN_ONE_AVAILABLE_BEFORE_MOVE"} ELSE {},
    IF g.matesBefore # {} /\ ~g.mates THEN {"MISSED_MATE_IN_ONE_CANDIDATE"} ELSE {},
    IF g.mates THEN {"PLAYED_MATE_IN_ONE"} ELSE {},
    IF threatened THEN {"OPPONENT_MATE_IN_ONE_THREAT_IF_PASS"} ELSE {},
    IF AnswersMateThreat(g) = FALSE THEN {"FAILED_MATE_THREAT_UPDATE_CANDIDATE"} ELSE {},
    IF AnswersMateThreat(g) = TRUE THEN {"IMMEDIATE_MATE_THREAT_ADDRESSED"} ELSE {},
    IF g.matesAfter # {} THEN {"OPPONENT_MATE_IN_ONE_AFTER_MOVE"} ELSE {},
    IF reply # None /\ reply \in g.matesAfter THEN {"STRONGEST_REPLY_IS_MATE_IN_ONE"} ELSE {}}

---------------------------------------------------------------------------
TraceLimit == 12

\* build_causal_position_trace over a replayable line of the given length.
Trace(available, replayable, ends, limit) ==
  LET bound == IF limit = None \/ limit > TraceLimit THEN TraceLimit ELSE limit
      traced == IF replayable < bound THEN replayable ELSE bound
  IN  [plies |-> traced,
       reason |-> IF available = 0 THEN "no_pv"
                  ELSE IF traced = replayable /\ traced > 0 /\ ends THEN "terminal_position"
                  ELSE IF traced = replayable /\ replayable < available /\ replayable < bound
                  THEN "invalid_pv_move"
                  ELSE IF available > bound THEN "trace_limit"
                  ELSE "pv_exhausted"]
=============================================================================
