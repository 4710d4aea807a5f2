----------------------------- MODULE GameRecord -----------------------------
(***************************************************************************)
(* How a game on record is read and its ending decided: parse_mainline     *)
(* walks the moves until the rules end the game, reconcile_result settles  *)
(* the result between the board, the headers and the movetext, and         *)
(* build_game_termination_assessment describes the ending once more, from  *)
(* the whole of the PGN.  At any point of the game a client may ask        *)
(* classify_move to validate a move or a draw claim in the position.       *)
(*                                                                         *)
(* Strings of the PGN are abstract: a header wording is what the regular   *)
(* expressions of the code find in it.                                     *)
(***************************************************************************)
EXTENDS ChessRules

CONSTANTS
  Starts,     \* boards the games start from: the initial position or a FEN tag
  Wordings,   \* texts of the Termination header
  MaxTail     \* bound: plies and tokens that follow the end of a game

Results == {"1-0", "0-1", "1/2-1/2"}
Decisive == {"1-0", "0-1"}
Canonical == Results \cup {"*"}
Winner(r) == IF r = "1-0" THEN "white" ELSE IF r = "0-1" THEN "black" ELSE NONE

Norms ==
  {"normal", "fifty_moves", "seventyfive_moves", "fivefold_repetition",
   "threefold_repetition", "repetition", "checkmate", "insufficient_material",
   "resignation", "time_forfeit", "unterminated", "abandoned", "adjudication",
   "rules_infraction", "draw_agreement", NONE}

\* norm is normalize_termination of the text.  The other fields are what further
\* searches in the same text find: an ending FIDE requires mating material for,
\* the winner it seems to name, an agreement, any word strict mode knows.
Wording == [present: BOOLEAN, norm: Norms,
            forfeit: {"resignation", "time", "infraction", NONE},
            infers: Decisive \cup {NONE}, agreement: BOOLEAN, known: BOOLEAN]
Absent == [present |-> FALSE, norm |-> NONE, forfeit |-> NONE, infers |-> NONE,
           agreement |-> FALSE, known |-> FALSE]

ASSUME GameAssumption ==
  /\ Starts \subseteq {b \in Boards : Len(b.path) = 1}
  /\ Absent \in Wordings /\ Wordings \subseteq Wording
  /\ MaxTail \in Nat

\* raw is the Result tag, "?" and any other text ("bad") included; movetext is the
\* result token after the moves.
Metadata == [raw: Canonical \cup {"?", "bad", NONE},
             movetext: Canonical \cup {NONE}, wording: Wordings]

VARIABLES
  strict,    \* the request's strict flag
  pgn,       \* the board at the end of what python-chess has read
  board,     \* the board at the end of what parse_mainline has accepted
  ended,     \* reached_terminal
  over,      \* python-chess has seen the game end after some ply
  unread,    \* move tokens python-chess could not read: game.errors
  progress,  \* reading, reconciled, assessed or refused
  meta,      \* GameMetadata
  report,    \* ReconciledResult
  ending,    \* GameTerminationAssessment
  verdict    \* the last answer of validate_classify_input

game == <<strict, pgn, board, ended, over, unread>>
recordVars == <<strict, pgn, board, ended, over, unread, progress, meta, report, ending,
          verdict>>

Nothing == [kind |-> NONE]
Surplus == Len(pgn.path) - Len(board.path)

---------------------------------------------------------------------------
\* parse_mainline, with the checks of parse_pgn_game_candidate on the tokens
\* python-chess cannot read.
\* Faulty variant: the end of the game as python-chess sees it.
GameEndsForPythonChess(b) == IsRepetition(b, 5) \/ IsGameOver(b)

GameEnds(b) == IsRepetition(b, 5) \/ RuleTerminal(b, "complete") # NONE

RecordInit ==
  /\ strict \in BOOLEAN
  /\ board \in Starts
  /\ pgn = board
  /\ ended = (RuleTerminal(board, "complete") # NONE)
  /\ over = FALSE
  /\ unread = 0
  /\ progress = IF strict /\ ended THEN "refused" ELSE "reading"
  /\ meta = Nothing /\ report = Nothing /\ ending = Nothing /\ verdict = Nothing

ReadPly(m) ==
  /\ progress = "reading" /\ unread = 0 /\ ~ended
  /\ board' = Push(board, m)
  /\ pgn' = board'
  /\ ended' = GameEnds(board')
  /\ over' = (over \/ IsGameOver(pgn'))
  /\ verdict' = Nothing
  /\ UNCHANGED <<strict, unread, progress, meta, report, ending>>

\* A legal ply after the end is counted and thrown away.
IgnorePly(m) ==
  /\ progress = "reading" /\ unread = 0 /\ ended
  /\ Surplus < MaxTail
  /\ pgn' = Push(pgn, m)
  /\ over' = (over \/ IsGameOver(pgn'))
  /\ verdict' = Nothing
  /\ UNCHANGED <<strict, board, ended, unread, progress, meta, report, ending>>

\* A token python-chess cannot play is forgiven only behind the end of the game.
UnreadToken ==
  /\ progress = "reading" /\ Surplus + unread < MaxTail
  /\ IF strict \/ ~over
     THEN progress' = "refused" /\ UNCHANGED unread
     ELSE unread' = unread + 1 /\ UNCHANGED progress
  /\ verdict' = Nothing
  /\ UNCHANGED <<strict, pgn, board, ended, over, meta, report, ending>>

---------------------------------------------------------------------------
\* validate_classify_input: a FEN is asked about without its history.
AskedBoard(h) == IF h = "complete" THEN board ELSE FromFen(board)

Accepts(b, h, action, move) ==
  /\ ~IsTerminal(b)
  /\ CASE action = "play_move" -> move \subseteq Here(b).moves
       [] action = "claim_draw" -> ReasonsNow(b, h) # {}
       [] action = "claim_draw_with_intended_move" -> move \subseteq Intended(b, h)

Questions ==
  [action: {"claim_draw"}, move: {{}}] \cup
  [action: {"play_move", "claim_draw_with_intended_move"},
   move: {{m} : m \in Here(board).moves}]

Classify(r, h) ==
  /\ progress = "reading"
  /\ verdict' = [kind |-> r.action, move |-> r.move, history |-> h,
                 accepted |-> Accepts(AskedBoard(h), h, r.action, r.move)]
  /\ UNCHANGED <<game, progress, meta, report, ending>>

---------------------------------------------------------------------------
\* reconcile_result.
Header(m) == IF m.raw \in Canonical THEN m.raw ELSE NONE

BoardResult(b) ==
  LET terminal == RuleTerminal(b, "complete")
  IN  IF terminal = NONE THEN NONE
      ELSE IF terminal # "checkmate" THEN "1/2-1/2"
      ELSE IF Here(b).turn = "black" THEN "1-0" ELSE "0-1"

\* Faulty variant: the header before the board.
PickResultHeaderFirst(m, onBoard) ==
  IF Header(m) \in Results THEN Header(m)
  ELSE IF onBoard # NONE THEN onBoard
  ELSE IF m.movetext \in Results THEN m.movetext
  ELSE "*"

PickResult(m, onBoard) ==
  IF onBoard # NONE THEN onBoard
  ELSE IF Header(m) \in Results THEN Header(m)
  ELSE IF m.movetext \in Results THEN m.movetext
  ELSE "*"

PickWarnings(m, onBoard) ==
  IF onBoard # NONE
  THEN (IF Header(m) \in Results \ {onBoard} THEN {"header_not_board"} ELSE {}) \cup
       (IF m.movetext \in Results \ {onBoard} THEN {"movetext_not_board"} ELSE {})
  ELSE IF m.raw # NONE /\ m.movetext # NONE /\ m.raw # m.movetext
       THEN {"header_not_movetext"} ELSE {}

InferResult(picked, w) == IF picked = "*" /\ w.infers # NONE THEN w.infers ELSE picked

\* FIDE 5.1.2, 6.9 and 7.5.5: nobody wins who could not have mated.
NeedsDraw(b, result, w) ==
  /\ w.forfeit # NONE /\ result \in Decisive
  /\ ~CanCheckmate(b, Winner(result))

Concurrent(norm, b) ==
  CASE norm = "seventyfive_moves" -> IsSeventyFive(b)
    [] norm = "fivefold_repetition" -> IsRepetition(b, 5)
    [] norm = "insufficient_material" -> IsInsufficient(b)
    [] norm = "fifty_moves" -> b.clock >= 100
    [] norm = "threefold_repetition" -> IsRepetition(b, 3)
    [] OTHER -> FALSE

\* The header names an ending that the board does not show.
Refuted(norm, b) ==
  \/ norm \in {"checkmate", "insufficient_material", "seventyfive_moves",
               "fivefold_repetition"}
  \/ norm \in {"threefold_repetition", "fifty_moves"} /\ ~Concurrent(norm, b)

ResolveTermination(b, w, auto) ==
  IF auto # NONE THEN auto ELSE IF Refuted(w.norm, b) THEN NONE ELSE w.norm

TerminationWarnings(b, w, auto) ==
  IF /\ w.present
     /\ IF auto # NONE
        THEN w.norm \notin {"normal", auto} /\ ~Concurrent(w.norm, b)
        ELSE Refuted(w.norm, b)
  THEN {"termination_not_board"} ELSE {}

DrawNorms == {"insufficient_material", "fifty_moves", "seventyfive_moves",
              "threefold_repetition", "fivefold_repetition"}

OtherWarnings(w, result, plies) ==
  (IF strict /\ w.present /\ w.norm = NONE /\ ~w.known
   THEN {"unrecognised"} ELSE {}) \cup
  (IF \/ w.norm \in DrawNorms /\ result \in Decisive
      \/ w.norm = "checkmate" /\ result \in {"1/2-1/2", "*"}
      \/ w.norm = "unterminated" /\ result \in Results
   THEN {"contradiction"} ELSE {}) \cup
  (IF w.agreement /\ plies < 2 THEN {"premature_draw"} ELSE {})

\* reconcile_trailing_plies: nothing is counted unless python-chess met an error.
TrailingPlies == IF unread = 0 THEN 0 ELSE Surplus + unread

ResultInferred(m, onBoard, result) ==
  IF onBoard # NONE THEN onBoard
  ELSE IF m.raw \in {"*", NONE} /\ m.movetext \in {"*", NONE} /\ result \in Results
       THEN result ELSE NONE

ReconcileResult(m) ==
  LET auto == RuleTerminal(board, "complete")
      onBoard == BoardResult(board)
      declared == InferResult(PickResult(m, onBoard), m.wording)
      drawn == NeedsDraw(board, declared, m.wording)
      result == IF drawn THEN "1/2-1/2" ELSE declared
  IN  [kind |-> "report", result |-> result, auto |-> auto,
       termination |-> ResolveTermination(board, m.wording, auto),
       inferred |-> ResultInferred(m, onBoard, result),
       trailing |-> TrailingPlies,
       warnings |-> PickWarnings(m, onBoard)
         \cup TerminationWarnings(board, m.wording, auto)
         \cup OtherWarnings(m.wording, result, Len(board.path) - 1)
         \cup (IF drawn THEN {"no_mating_material"} ELSE {})
         \cup (IF m.raw = "bad" THEN {"bad_result"} ELSE {})
         \cup (IF TrailingPlies > 0 THEN {"trailing_plies"} ELSE {})]

Reconcile(m) ==
  /\ progress = "reading"
  /\ meta' = m
  /\ report' = ReconcileResult(m)
  /\ progress' = IF strict /\ report'.warnings # {} THEN "refused" ELSE "reconciled"
  /\ verdict' = Nothing
  /\ UNCHANGED <<game, ending>>

---------------------------------------------------------------------------
\* build_game_termination_assessment.  python-chess reads the PGN again, and fills
\* a missing Result tag from the movetext unless an error made it stop there.
PgnResult(m) ==
  IF m.raw \notin {"*", NONE} THEN m.raw
  ELSE IF m.movetext # NONE /\ unread = 0 THEN m.movetext ELSE "*"

EndingStatus(terminal, checkmate, winner, w) ==
  IF checkmate THEN "board_checkmate"
  ELSE IF terminal THEN "rules_terminal"
  ELSE IF w.norm = "resignation" \/ w.forfeit = "resignation"
       THEN IF winner # NONE THEN "explicit_resignation" ELSE "ongoing_or_unknown"
  ELSE IF w.norm = "time_forfeit" THEN "explicit_time_forfeit"
  ELSE IF w.norm = "abandoned" THEN "explicit_abandoned"
  ELSE IF w.norm = "adjudication" THEN "explicit_adjudication"
  ELSE IF w.norm = "rules_infraction" THEN "rules_infraction"
  ELSE IF winner # NONE /\ ~w.present THEN "candidate_nonterminal_decisive_result"
  ELSE "ongoing_or_unknown"

\* Faulty variant: the declared winner is taken even if the board decides.
AssessEndingByHeader(m) ==
  LET terminal == IsGameOver(pgn)
      checkmate == IsCheckmate(pgn)
      winner == Winner(PgnResult(m))
  IN  [kind |-> "ending", terminal |-> terminal, winner |-> winner,
       status |-> EndingStatus(terminal, checkmate, winner, m.wording)]

AssessEnding(m) ==
  LET terminal == IsGameOver(pgn)
      checkmate == IsCheckmate(pgn)
      winner == IF checkmate THEN Other(Here(pgn).turn)
                ELSE IF terminal THEN NONE ELSE Winner(PgnResult(m))
  IN  [kind |-> "ending", terminal |-> terminal, winner |-> winner,
       status |-> EndingStatus(terminal, checkmate, winner, m.wording)]

Assess ==
  /\ progress = "reconciled"
  /\ ending' = AssessEnding(meta)
  /\ progress' = "assessed"
  /\ verdict' = Nothing
  /\ UNCHANGED <<game, meta, report>>

RecordNext ==
  \/ \E m \in Here(board).moves : ReadPly(m)
  \/ \E m \in Here(pgn).moves : IgnorePly(m)
  \/ UnreadToken
  \/ \E h \in {"complete", "incomplete"} : \E r \in Questions : Classify(r, h)
  \/ \E m \in Metadata : Reconcile(m)
  \/ Assess

RecordSpec == RecordInit /\ [][RecordNext]_recordVars

---------------------------------------------------------------------------
\* The variables have the types the code gives them.
TypeOK ==
  /\ strict \in BOOLEAN /\ ended \in BOOLEAN /\ over \in BOOLEAN
  /\ board \in Boards /\ pgn \in Boards
  /\ unread \in 0..MaxTail
  /\ progress \in {"reading", "reconciled", "assessed", "refused"}
  /\ meta \in Metadata \cup {Nothing}
  /\ report # Nothing =>
       /\ report.result \in Canonical
       /\ report.trailing \in 0..MaxTail
       /\ report.termination \in Norms \cup {"stalemate", "dead_position"}
  /\ ending # Nothing => ending.winner \in Colors \cup {NONE}

\* A game goes on until the first terminal position and no further: whatever the
\* rules (is_terminal_position) call terminal stops parse_mainline, nothing else does.
PliesStopAtTheEnd ==
  [][/\ board' # board => ~IsTerminal(board)
     /\ Surplus' > Surplus => IsTerminal(board)]_recordVars

\* evaluate_rule_status and is_terminal_position agree on every position of the
\* game, whatever is known of its history, and so does python-chess but for the
\* locked positions it does not know ("terminality cannot disagree", terminal.py).
OneTerminality ==
  progress = "reading" => \A h \in HistoryStates :
    /\ RuleTerminal(board, h) # NONE <=> IsTerminal(board)
    /\ RuleTerminal(board, h) \notin {NONE, "dead_position"} <=> IsGameOver(board)

\* What the Laws ask of a draw claim: a hundred plies without a capture or pawn
\* move, or a third occurrence, which only the history of the game can show.
Claimable(b, h) == b.clock >= 100 \/ (h = "complete" /\ IsRepetition(b, 3))

\* validate_classify_input accepts exactly the claims the Laws allow: the position
\* is not over, and it is claimable now or after the intended move.  (A reason that
\* holds already is not looked for in the moves, so an intended claim may be refused
\* where one without a move would be granted.)  A claim the policy recommends is
\* always one that is accepted.
ClaimVerdictsAreRight ==
  verdict.kind \in {"claim_draw", "claim_draw_with_intended_move"} =>
    LET h == verdict.history
        b == AskedBoard(h)
        after == IF verdict.move = {} THEN b
                 ELSE Push(b, CHOOSE m \in verdict.move : TRUE)
    IN  /\ verdict.accepted => ~IsTerminal(b) /\ Claimable(after, h)
        /\ ~IsTerminal(b) /\ Claimable(after, h) =>
             verdict.accepted \/ (verdict.move # {} /\ Claimable(b, h))
        /\ ~verdict.accepted /\ verdict.move = {} =>
             \A v \in Views : RuleStatus(b, h, v).recommended # "claim_draw"

\* What the board shows is final: no header, movetext token or FIDE downgrade
\* changes the result or the termination of a game the rules have ended.
BoardOutcomeStands ==
  report # Nothing /\ RuleTerminal(board, "complete") # NONE =>
    /\ report.result = BoardResult(board)
    /\ report.termination = RuleTerminal(board, "complete")

\* A result that the headers or the movetext declare is never replaced without a
\* warning that says so.
NoSilentOverride ==
  report # Nothing =>
    \A declared \in {meta.raw, meta.movetext} \cap Results :
      declared # report.result =>
        report.warnings \cap {"header_not_board", "movetext_not_board",
                              "header_not_movetext", "no_mating_material"} # {}

\* The two accounts of one ending, the reconciled result and the assessment for the
\* coach, agree on whether the game was over and name the same winner: always when
\* the board decides, and otherwise unless the winner had no mating material, the
\* result was inferred, python-chess met an error, or the Result tag is unusable.
\* (Positions that are locked, or followed by ignored plies, are left out.)
EndingsAgree ==
  ending # Nothing /\ pgn = board /\ report.termination # "dead_position" =>
    /\ ending.terminal <=> report.auto # NONE
    /\ \/ ending.winner = Winner(report.result)
       \/ /\ report.auto = NONE
          /\ \/ "no_mating_material" \in report.warnings
             \/ report.inferred # NONE \/ unread > 0 \/ meta.raw \in {"?", "bad"}

\* "Trailing plies after that point should be counted": plies that are ignored
\* because the game is over are reported (the code reports them only when
\* python-chess itself could not read one of them).
IgnoredPliesAreReported ==
  report # Nothing /\ Len(board.path) > 1 /\ Surplus + unread > 0 =>
    "trailing_plies" \in report.warnings
=============================================================================
