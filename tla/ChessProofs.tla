----------------------------- MODULE ChessProofs -----------------------------
(***************************************************************************)
(* Proofs about the judgement of games and moves.                          *)
(*                                                                         *)
(* GameRecord, for every graph of positions, every start and every         *)
(* Termination header.  The inductive invariant says how far the game has  *)
(* been read, and that what is stored is what was computed.                *)
(*                                                                         *)
(* ClassifyMove, for every set of positions and requests and whatever the  *)
(* searches answer: no move of the engine is held against the mover.       *)
(*                                                                         *)
(* Tools, where the three tools meet, for every set of positions and calls:*)
(* a loss to a reply is seen on a line that begins with it, candidates     *)
(* rank by what they promise, no win is left behind for a draw, no mistake *)
(* is missing from the critical moments while there is room, and the       *)
(* segments of a game cover it.                                            *)
(***************************************************************************)
EXTENDS GameRecord, Tools, FiniteSetTheorems, TLAPS

CP == INSTANCE CoachingProofs

\* The variables of the reader have their types.
GameTyped ==
  /\ strict \in BOOLEAN /\ ended \in BOOLEAN /\ over \in BOOLEAN
  /\ board \in Boards /\ pgn \in Boards
  /\ unread \in 0..MaxTail
  /\ progress \in {"reading", "reconciled", "assessed", "refused"}

\* The reader stands at the first terminal position or before it; only from there
\* on has python-chess read more, and not more than the bound.
ReaderOK ==
  /\ ended <=> IsTerminal(board)
  /\ ~ended => pgn = board
  /\ Len(board.path) <= Len(pgn.path)
  /\ Surplus + unread <= MaxTail
  /\ \A i \in 1..(Len(board.path) - 1) : ~Pos[board.path[i]].locked

\* The two accounts are what was computed from the game, which has not changed since.
ReportsOK ==
  /\ meta \in Metadata \cup {Nothing}
  /\ progress = "reading" => report = Nothing /\ ending = Nothing
  /\ report # Nothing => meta \in Metadata /\ report = ReconcileResult(meta)
  /\ progress = "reconciled" => report # Nothing
  /\ ending # Nothing => report # Nothing /\ ending = AssessEnding(meta)

\* An answer is about the position the game is in.
VerdictOK ==
  verdict # Nothing =>
    \E r \in Questions, h \in {"complete", "incomplete"} :
      verdict = [kind |-> r.action, move |-> r.move, history |-> h,
                 accepted |-> Accepts(AskedBoard(h), h, r.action, r.move)]

IInv == GameTyped /\ ReaderOK /\ ReportsOK /\ VerdictOK

-----------------------------------------------------------------------------
\* Facts about boards.

\* The position on a board is a position of the graph.
LEMMA HereTyped ==
  ASSUME NEW b \in Boards
  PROVE  /\ b.path \in Seq(DOMAIN Pos) /\ Len(b.path) \in Nat /\ Len(b.path) >= 1
         /\ b.path[Len(b.path)] \in DOMAIN Pos
         /\ Here(b) \in PositionFacts
         /\ b.clock \in Nat
  BY PosAssumption DEF Boards, Here

\* A legal move leads to a board that is one position longer.
LEMMA PushTyped ==
  ASSUME NEW b \in Boards, NEW m \in Here(b).moves
  PROVE  /\ Push(b, m) \in Boards
         /\ Len(Push(b, m).path) = Len(b.path) + 1
         /\ \A i \in 1..Len(b.path) : Push(b, m).path[i] = b.path[i]
         /\ Push(b, m).path[Len(b.path) + 1] = m.to
  <1>1. m \in [to: DOMAIN Pos, zeroing: BOOLEAN]
    BY HereTyped DEF PositionFacts
  <1>2. b.path \in Seq(DOMAIN Pos) /\ b.clock \in Nat
    BY HereTyped
  <1>3. Append(b.path, m.to) \in Seq(DOMAIN Pos) /\ Append(b.path, m.to) # <<>>
    BY <1>1, <1>2
  <1> QED BY <1>1, <1>2, <1>3 DEF Push, Boards

\* evaluate_rule_status calls a board terminal exactly if is_terminal_position does.
LEMMA TerminalEquivalence ==
  ASSUME NEW b, NEW h
  PROVE  RuleTerminal(b, h) # NONE <=> IsTerminal(b)
  BY DEF RuleTerminal, IsTerminal, NONE, IsGameOver, IsLockedDead, IsCheckmate,
         IsStalemate

\* So does the test parse_mainline makes after each ply.
LEMMA EndsEquivalence ==
  ASSUME NEW b
  PROVE  GameEnds(b) <=> IsTerminal(b)
  BY TerminalEquivalence DEF GameEnds, IsTerminal

\* The names a board with its history can end under; "game_over" is none of them.
LEMMA TerminalNames ==
  ASSUME NEW b
  PROVE  /\ RuleTerminal(b, "complete") \in
              {NONE, "checkmate", "stalemate", "insufficient_material",
               "seventyfive_moves", "fivefold_repetition", "dead_position"}
         /\ RuleTerminal(b, "complete") = "checkmate" <=> IsCheckmate(b)
         /\ RuleTerminal(b, "complete") \notin {NONE, "dead_position"}
              <=> IsGameOver(b)
  BY DEF RuleTerminal, HasHistory, NONE, IsGameOver, IsLockedDead, IsCheckmate,
         IsStalemate

\* A position that is on the board for the fifth time was there before.
LEMMA SeenBefore ==
  ASSUME NEW b \in Boards, IsRepetition(b, 5)
  PROVE  \E i \in 1..(Len(b.path) - 1) : b.path[i] = b.path[Len(b.path)]
  <1> DEFINE Visits == {i \in DOMAIN b.path : b.path[i] = b.path[Len(b.path)]}
  <1>1. DOMAIN b.path = 1..Len(b.path) /\ Len(b.path) \in Nat
    BY HereTyped
  <1> SUFFICES ASSUME Visits \subseteq {Len(b.path)}
               PROVE  FALSE
    BY <1>1
  <1>2. IsFiniteSet({Len(b.path)}) /\ Cardinality({Len(b.path)}) = 1
    BY FS_Singleton
  <1>3. Cardinality(Visits) <= 1 /\ Cardinality(Visits) \in Nat
    BY <1>2, FS_Subset, FS_CardinalityType
  <1> QED BY <1>3 DEF IsRepetition

\* Who has mated had the material: the FIDE downgrade never meets a mate.
LEMMA MateIsPossible ==
  ASSUME NEW b \in Boards, IsCheckmate(b)
  PROVE  CanCheckmate(b, Other(Here(b).turn))
  <1> DEFINE mated == Here(b).turn
             winner == Other(mated)
             a == Here(b).army[winner]
  <1>1. Here(b) \in PositionFacts
    BY HereTyped
  <1>2. mated \in Colors /\ winner \in Colors /\ Other(winner) = mated
    BY <1>1 DEF PositionFacts, Colors, Other
  <1>3. a \in Army /\ Here(b).army[mated] \in Army
    BY <1>1, <1>2 DEF PositionFacts
  <1>4. MatingArmy(a, Here(b).army[mated])
    BY HereTyped, MateNeedsMaterial DEF IsCheckmate, Here
  <1>5. ASSUME a # Bare
        PROVE  a.strong \/ a.knights > 0 \/ a.light > 0 \/ a.dark > 0
    <2>1. a = [strong |-> a.strong, knights |-> a.knights, light |-> a.light,
               dark |-> a.dark]
      BY <1>3 DEF Army
    <2>2. a.strong \in BOOLEAN /\ a.knights \in Nat /\ a.light \in Nat /\ a.dark \in Nat
      BY <1>3 DEF Army
    <2>3. ~(a.strong = FALSE /\ a.knights = 0 /\ a.light = 0 /\ a.dark = 0)
      BY <2>1, <1>5 DEF Bare
    <2> QED BY <2>2, <2>3
  <1> QED BY <1>2, <1>3, <1>4, <1>5 DEF MatingArmy, CanCheckmate, Army

-----------------------------------------------------------------------------
\* Facts about the two accounts of the ending.

\* The result before the FIDE downgrade, and whether it is downgraded.
Declared(m) == InferResult(PickResult(m, BoardResult(board)), m.wording)
Drawn(m) == NeedsDraw(board, Declared(m), m.wording)

\* The fields of a report one by one.
LEMMA ReportFields ==
  ASSUME NEW m
  PROVE  /\ ReconcileResult(m).kind = "report"
         /\ ReconcileResult(m).auto = RuleTerminal(board, "complete")
         /\ ReconcileResult(m).result = IF Drawn(m) THEN "1/2-1/2" ELSE Declared(m)
         /\ ReconcileResult(m).termination
              = ResolveTermination(board, m.wording, RuleTerminal(board, "complete"))
         /\ ReconcileResult(m).inferred
              = ResultInferred(m, BoardResult(board), ReconcileResult(m).result)
         /\ ReconcileResult(m).trailing = TrailingPlies
         /\ PickWarnings(m, BoardResult(board)) \subseteq ReconcileResult(m).warnings
         /\ Drawn(m) => "no_mating_material" \in ReconcileResult(m).warnings
  BY DEF ReconcileResult, Declared, Drawn

\* The values the metadata can have.
LEMMA MetadataTyped ==
  ASSUME NEW m \in Metadata
  PROVE  /\ m.raw \in Canonical \cup {"?", "bad", NONE}
         /\ m.movetext \in Canonical \cup {NONE}
         /\ m.wording \in Wording
         /\ m.wording.norm \in Norms
         /\ m.wording.infers \in Decisive \cup {NONE}
  <1>1. m.wording \in Wordings /\ Wordings \subseteq Wording
    BY GameAssumption DEF Metadata
  <1> QED BY <1>1 DEF Metadata, Wording

\* What the board decides is a result.
LEMMA BoardResultTyped ==
  ASSUME NEW b
  PROVE  /\ BoardResult(b) \in Results \cup {NONE}
         /\ BoardResult(b) = NONE <=> RuleTerminal(b, "complete") = NONE
  BY DEF BoardResult, Results, NONE

\* If the rules have ended the game, the report says what the board says.
LEMMA BoardDecides ==
  ASSUME NEW m \in Metadata, board \in Boards,
         RuleTerminal(board, "complete") # NONE
  PROVE  /\ ReconcileResult(m).result = BoardResult(board)
         /\ ReconcileResult(m).termination = RuleTerminal(board, "complete")
         /\ ~Drawn(m)
  <1>1. BoardResult(board) \in Results
    BY BoardResultTyped DEF Results, NONE
  <1>2. Declared(m) = BoardResult(board)
    BY <1>1 DEF Declared, InferResult, PickResult, Results, NONE
  <1>3. ASSUME Drawn(m)
        PROVE  FALSE
    <2>1. BoardResult(board) \in Decisive /\ ~CanCheckmate(board, Winner(BoardResult(board)))
      BY <1>2, <1>3 DEF Drawn, NeedsDraw
    <2>2. RuleTerminal(board, "complete") = "checkmate"
      BY <2>1 DEF BoardResult, Decisive, NONE
    <2>3. Here(board).turn \in Colors
      BY HereTyped DEF PositionFacts
    <2>4. Winner(BoardResult(board)) = Other(Here(board).turn)
      BY <2>2, <2>3 DEF BoardResult, Winner, Other, Colors, NONE
    <2> QED BY <2>1, <2>2, <2>4, TerminalNames, MateIsPossible
  <1> QED BY <1>2, <1>3, ReportFields DEF ResolveTermination

\* A declared result that is not reported has left a warning.
LEMMA OverridesWarn ==
  ASSUME NEW m \in Metadata, board \in Boards,
         NEW declared \in {m.raw, m.movetext} \cap Results,
         declared # ReconcileResult(m).result
  PROVE  ReconcileResult(m).warnings \cap
           {"header_not_board", "movetext_not_board", "header_not_movetext",
            "no_mating_material"} # {}
  <1>1. CASE RuleTerminal(board, "complete") # NONE
    <2>1. BoardResult(board) # NONE /\ declared # BoardResult(board)
      BY <1>1, BoardDecides, BoardResultTyped
    <2>2. PickWarnings(m, BoardResult(board)) \cap
            {"header_not_board", "movetext_not_board"} # {}
      <3>1. CASE declared = m.raw
        <4>1. Header(m) \in Results \ {BoardResult(board)}
          BY <2>1, <3>1 DEF Header, Canonical
        <4> QED BY <2>1, <4>1 DEF PickWarnings
      <3>2. CASE declared = m.movetext
        BY <2>1, <3>2 DEF PickWarnings
      <3> QED BY <3>1, <3>2
    <2> QED BY <2>2, ReportFields
  <1>2. CASE RuleTerminal(board, "complete") = NONE
    <2>1. BoardResult(board) = NONE
      BY <1>2, BoardResultTyped
    <2>2. CASE Drawn(m)
      BY <2>2, ReportFields
    <2>3. CASE ~Drawn(m)
      <3>1. declared # Declared(m)
        BY <2>3, ReportFields
      <3>2. declared # PickResult(m, BoardResult(board))
        BY <3>1 DEF Declared, InferResult, Results
      <3>3. m.raw # NONE /\ m.movetext # NONE /\ m.raw # m.movetext
        BY <2>1, <3>2, MetadataTyped
           DEF PickResult, Header, Canonical, Results, NONE
      <3>4. "header_not_movetext" \in PickWarnings(m, BoardResult(board))
        BY <2>1, <3>3 DEF PickWarnings
      <3> QED BY <3>4, ReportFields
    <2> QED BY <2>2, <2>3
  <1> QED BY <1>1, <1>2

\* The report of a typed game has the types of ReconciledResult.
LEMMA ReportTyped ==
  ASSUME NEW m \in Metadata, board \in Boards
  PROVE  /\ ReconcileResult(m).result \in Canonical
         /\ ReconcileResult(m).termination \in Norms \cup {"stalemate", "dead_position"}
  <1>1. PickResult(m, BoardResult(board)) \in Canonical
    BY BoardResultTyped DEF PickResult, Canonical, Results, NONE
  <1>2. Declared(m) \in Canonical
    BY <1>1, MetadataTyped DEF Declared, InferResult, Canonical, Results, Decisive
  <1>3. ResolveTermination(board, m.wording, RuleTerminal(board, "complete"))
          \in Norms \cup {"stalemate", "dead_position"}
    BY TerminalNames, MetadataTyped DEF ResolveTermination, Norms, NONE
  <1> QED BY <1>2, <1>3, ReportFields DEF Canonical, Results

\* The assessment and the report of a game that was read to its end agree.
LEMMA AccountsAgree ==
  ASSUME NEW m \in Metadata, board \in Boards, pgn = board, unread \in Nat,
         ReconcileResult(m).termination # "dead_position"
  PROVE  /\ AssessEnding(m).terminal <=> ReconcileResult(m).auto # NONE
         /\ \/ AssessEnding(m).winner = Winner(ReconcileResult(m).result)
            \/ /\ ReconcileResult(m).auto = NONE
               /\ \/ "no_mating_material" \in ReconcileResult(m).warnings
                  \/ ReconcileResult(m).inferred # NONE
                  \/ unread > 0 \/ m.raw \in {"?", "bad"}
  <1> DEFINE r == ReconcileResult(m)
             t == RuleTerminal(board, "complete")
  <1>1. /\ AssessEnding(m).terminal = IsGameOver(board)
        /\ AssessEnding(m).winner =
             IF IsCheckmate(board) THEN Other(Here(board).turn)
             ELSE IF IsGameOver(board) THEN NONE ELSE Winner(PgnResult(m))
    BY DEF AssessEnding
  <1>2. r.auto = t /\ (t # NONE => t # "dead_position")
    BY ReportFields, BoardDecides
  <1>3. IsGameOver(board) <=> t # NONE
    BY <1>2, TerminalNames
  <1>4. CASE t # NONE
    <2>1. r.result = BoardResult(board)
      BY <1>4, BoardDecides
    <2>2. Here(board).turn \in Colors
      BY HereTyped DEF PositionFacts
    <2>3. (t = "checkmate" <=> IsCheckmate(board)) /\ IsGameOver(board)
      BY <1>3, <1>4, TerminalNames
    <2>4. Winner(r.result) = IF IsCheckmate(board) THEN Other(Here(board).turn) ELSE NONE
      BY <1>4, <2>1, <2>2, <2>3 DEF BoardResult, Winner, Other, Colors, NONE
    <2> QED BY <1>1, <1>2, <1>3, <1>4, <2>3, <2>4
  <1>5. CASE t = NONE
    <2>1. SUFFICES ASSUME ~Drawn(m), r.inferred = NONE, ~(unread > 0),
                          m.raw \notin {"?", "bad"}
                   PROVE  Winner(PgnResult(m)) = Winner(r.result)
      <3>1. ~IsGameOver(board) /\ ~IsCheckmate(board)
        BY <1>3, <1>5, TerminalNames DEF NONE
      <3> QED BY <1>1, <1>2, <1>3, <1>5, <3>1, <2>1, ReportFields
    <2>2. BoardResult(board) = NONE
      BY <1>5, BoardResultTyped
    <2>3. r.result = Declared(m)
      BY <2>1, ReportFields
    <2>4. CASE m.raw \in Results
      <3>1. PickResult(m, NONE) = m.raw /\ m.raw # "*"
        BY <2>4 DEF PickResult, Header, Canonical, Results
      <3>2. PgnResult(m) = m.raw
        BY <2>4 DEF PgnResult, Results, NONE
      <3> QED BY <2>2, <2>3, <3>1, <3>2 DEF Declared, InferResult
    <2>5. CASE m.raw \in {"*", NONE}
      <3>1. PgnResult(m) = IF m.movetext # NONE THEN m.movetext ELSE "*"
        BY <2>1, <2>5 DEF PgnResult
      <3>2. PickResult(m, NONE) = IF m.movetext \in Results THEN m.movetext ELSE "*"
        BY <2>5 DEF PickResult, Header, Canonical, Results, NONE
      <3>3. CASE r.result = PickResult(m, NONE)
        BY <3>1, <3>2, <3>3, MetadataTyped DEF Winner, Canonical, Results, NONE
      <3>4. CASE r.result # PickResult(m, NONE)
        <4>1. PickResult(m, NONE) = "*" /\ r.result \in Results
          BY <2>2, <2>3, <3>4, MetadataTyped
             DEF Declared, InferResult, Decisive, Results
        <4>2. m.movetext \in {"*", NONE}
          BY <3>2, <4>1, MetadataTyped DEF Canonical, Results
        <4> QED BY <2>1, <2>2, <2>5, <4>1, <4>2, ReportFields
                DEF ResultInferred, Results, NONE
      <3> QED BY <3>3, <3>4
    <2> QED BY <2>1, <2>4, <2>5, MetadataTyped DEF Canonical
  <1> QED BY <1>4, <1>5

-----------------------------------------------------------------------------
\* Facts about claims.

\* The board a request is about is a board in the same position.
LEMMA AskedTyped ==
  ASSUME board \in Boards, NEW h
  PROVE  AskedBoard(h) \in Boards /\ Here(AskedBoard(h)) = Here(board)
  <1> DEFINE p == board.path[Len(board.path)]
  <1>1. board.clock \in Nat /\ p \in DOMAIN Pos
    BY HereTyped
  <1>2. FromFen(board).path = <<p>> /\ FromFen(board).clock = board.clock
    BY DEF FromFen, Boards
  <1>3. FromFen(board) = [path |-> <<p>>, clock |-> board.clock]
    BY DEF FromFen, Boards
  <1>4. <<p>> \in Seq(DOMAIN Pos) /\ <<p>> # <<>> /\ Len(<<p>>) = 1 /\ <<p>>[1] = p
    BY <1>1
  <1>5. FromFen(board) \in Boards
    BY <1>1, <1>3, <1>4 DEF Boards
  <1>6. Here(FromFen(board)) = Here(board)
    BY <1>2, <1>4 DEF Here
  <1> QED BY <1>5, <1>6 DEF AskedBoard

\* A claim has a reason now exactly if the position is claimable.
LEMMA ReasonsNowExact ==
  ASSUME NEW b \in Boards, NEW h \in {"complete", "incomplete"}
  PROVE  /\ ReasonsNow(b, h) # {} => Claimable(b, h)
         /\ Claimable(b, h) /\ ~IsTerminal(b) => ReasonsNow(b, h) # {}
  <1>1. ~IsTerminal(b) => Here(b).moves # {}
    BY DEF IsTerminal, IsCheckmate, IsStalemate
  <1> QED BY <1>1 DEF ReasonsNow, Claimable, IsFifty, HasHistory

\* A move is an intended claim only if the position after it is claimable, and
\* always if it is and the position before it is not.
LEMMA IntendedExact ==
  ASSUME NEW b \in Boards, NEW h \in {"complete", "incomplete"},
         NEW m \in Here(b).moves
  PROVE  /\ m \in Intended(b, h) => Claimable(Push(b, m), h)
         /\ Claimable(Push(b, m), h) /\ ~Claimable(b, h) => m \in Intended(b, h)
  <1>1. b.clock \in Nat /\ Push(b, m).clock = IF m.zeroing THEN 0 ELSE b.clock + 1
    BY HereTyped DEF Push
  <1>2. IntendedReasons(b, h, m) # {} <=> Claimable(Push(b, m), h)
    <2>1. ~m.zeroing /\ b.clock + 1 >= 100 <=> Push(b, m).clock >= 100
      BY <1>1
    <2> QED BY <2>1 DEF IntendedReasons, Claimable, HasHistory
  <1>3. ~Claimable(b, h) => ReasonsNow(b, h) = {}
    BY ReasonsNowExact
  <1> QED BY <1>2, <1>3 DEF Intended

\* Only a board that can be claimed now is advised to.
LEMMA AdviceNeedsReason ==
  ASSUME NEW b, NEW h, NEW v, RuleStatus(b, h, v).recommended = "claim_draw"
  PROVE  ~IsTerminal(b) /\ ReasonsNow(b, h) # {}
  BY TerminalEquivalence DEF RuleStatus, ChooseAction

-----------------------------------------------------------------------------
\* The invariant.

\* A game starts at its first position, which may already be terminal.
LEMMA InitInv == RecordInit => IInv
  <1> SUFFICES ASSUME RecordInit
               PROVE  IInv
    OBVIOUS
  <1>1. board \in Boards /\ Len(board.path) = 1 /\ MaxTail \in Nat
    BY GameAssumption DEF RecordInit
  <1>2. GameTyped
    <2>1. ended \in BOOLEAN
      BY DEF RecordInit
    <2>2. strict \in BOOLEAN /\ over \in BOOLEAN /\ pgn = board /\ unread = 0
      BY DEF RecordInit
    <2>3. progress \in {"reading", "refused"}
      BY DEF RecordInit
    <2> QED BY <1>1, <2>1, <2>2, <2>3 DEF GameTyped
  <1>3. ReaderOK
    <2>1. ended <=> IsTerminal(board)
      BY TerminalEquivalence DEF RecordInit
    <2>2. pgn = board /\ unread = 0
      BY DEF RecordInit
    <2>3. Surplus = 0
      BY <1>1, <2>2 DEF Surplus
    <2> QED BY <1>1, <2>1, <2>2, <2>3 DEF ReaderOK
  <1>4. ReportsOK /\ VerdictOK
    BY DEF RecordInit, ReportsOK, VerdictOK
  <1> QED BY <1>2, <1>3, <1>4 DEF IInv

\* ReadPly: the position it leaves is not terminal, hence not locked.
LEMMA ReadPlyStep ==
  ASSUME IInv, NEW m \in Here(board).moves, ReadPly(m)
  PROVE  IInv'
  <1> USE DEF IInv
  <1>1. /\ board' \in Boards
        /\ Len(board'.path) = Len(board.path) + 1
        /\ \A i \in 1..Len(board.path) : board'.path[i] = board.path[i]
    BY PushTyped DEF ReadPly, GameTyped
  <1>2. Len(board.path) \in Nat /\ Len(board.path) >= 1
    BY HereTyped DEF GameTyped
  <1>3. GameTyped'
    <2>1. ended' \in BOOLEAN /\ over' \in BOOLEAN
      BY DEF ReadPly, GameEnds, GameTyped
    <2> QED BY <1>1, <2>1 DEF ReadPly, GameTyped
  <1>4. ~IsTerminal(board) /\ ~Pos[board.path[Len(board.path)]].locked
    BY DEF ReadPly, ReaderOK, IsTerminal, IsLockedDead, Here
  <1>5. ReaderOK'
    <2>1. ended' <=> IsTerminal(board')
      BY EndsEquivalence DEF ReadPly
    <2>2. pgn' = board' /\ unread' = 0 /\ MaxTail \in Nat
      BY GameAssumption DEF ReadPly
    <2>3. ASSUME NEW i \in 1..(Len(board'.path) - 1)
          PROVE  ~Pos[board'.path[i]].locked
      <3>1. i \in 1..Len(board.path) /\ board'.path[i] = board.path[i]
        BY <1>1, <1>2, <2>3
      <3>2. CASE i = Len(board.path)
        BY <1>4, <3>1, <3>2
      <3>3. CASE i # Len(board.path)
        BY <1>2, <3>1, <3>3 DEF ReaderOK
      <3> QED BY <3>2, <3>3
    <2>4. IsTerminal(board)' <=> IsTerminal(board')
      BY DEF IsTerminal, IsCheckmate, IsStalemate, IsInsufficient, IsSeventyFive,
             IsRepetition, IsLockedDead, Here
    <2>5. Surplus' = 0
      BY <1>1, <1>2, <2>2 DEF Surplus
    <2>6. Len(board'.path) <= Len(pgn'.path) /\ Surplus' + unread' <= MaxTail
      BY <1>1, <1>2, <2>2, <2>5
    <2> QED BY <2>1, <2>2, <2>3, <2>4, <2>6 DEF ReaderOK
  <1>6. ReportsOK' /\ VerdictOK'
    BY DEF ReadPly, ReportsOK, VerdictOK
  <1> QED BY <1>3, <1>5, <1>6

\* IgnorePly: only what python-chess has read grows.
LEMMA IgnorePlyStep ==
  ASSUME IInv, NEW m \in Here(pgn).moves, IgnorePly(m)
  PROVE  IInv'
  <1> USE DEF IInv
  <1>1. pgn' \in Boards /\ Len(pgn'.path) = Len(pgn.path) + 1
    BY PushTyped DEF IgnorePly, GameTyped
  <1>2. Len(pgn.path) \in Nat /\ Len(board.path) \in Nat /\ MaxTail \in Nat
    BY HereTyped, GameAssumption DEF GameTyped
  <1>3. GameTyped'
    <2>1. over' \in BOOLEAN
      BY DEF IgnorePly, GameTyped
    <2> QED BY <1>1, <2>1 DEF IgnorePly, GameTyped
  <1>4. ReaderOK'
    <2>1. board' = board /\ ended' = ended /\ ended /\ unread' = 0
      BY DEF IgnorePly
    <2>2. Surplus < MaxTail
      BY DEF IgnorePly
    <2>3. Surplus' = Surplus + 1
      BY <1>1, <1>2, <2>1 DEF Surplus
    <2>4. Surplus' + unread' <= MaxTail
      <3>1. Surplus \in Int
        BY <1>2 DEF Surplus
      <3> QED BY <1>2, <2>1, <2>2, <2>3, <3>1
    <2>5. Len(board'.path) <= Len(pgn'.path)
      BY <1>1, <1>2, <2>1 DEF ReaderOK
    <2> QED BY <2>1, <2>4, <2>5 DEF ReaderOK
  <1>5. ReportsOK' /\ VerdictOK'
    BY DEF IgnorePly, ReportsOK, VerdictOK
  <1> QED BY <1>3, <1>4, <1>5

\* UnreadToken: one more error, or the end of the request.
LEMMA UnreadTokenStep ==
  ASSUME IInv, UnreadToken
  PROVE  IInv'
  <1> USE DEF IInv
  <1>1. board' = board /\ pgn' = pgn /\ ended' = ended /\ MaxTail \in Nat
    BY GameAssumption DEF UnreadToken
  <1>2. Len(pgn.path) \in Nat /\ Len(board.path) \in Nat
    BY HereTyped DEF GameTyped
  <1>3. unread' \in 0..MaxTail /\ Surplus' + unread' <= MaxTail
    <2>1. Surplus \in Int /\ Surplus' = Surplus /\ unread \in Nat
      BY <1>1, <1>2 DEF Surplus, GameTyped
    <2>2. Surplus >= 0
      BY <1>2 DEF Surplus, ReaderOK
    <2>3. Surplus + unread < MaxTail /\ unread' \in {unread, unread + 1}
      BY DEF UnreadToken
    <2>4. unread' \in Nat
      BY <2>1, <2>3
    <2>5. unread' <= MaxTail
      BY <1>1, <2>1, <2>2, <2>3
    <2>6. Surplus' + unread' <= MaxTail
      <3>1. CASE unread' = unread
        BY <1>1, <2>1, <2>3, <3>1
      <3>2. CASE unread' = unread + 1
        BY <1>1, <2>1, <2>3, <3>2
      <3> QED BY <2>3, <3>1, <3>2
    <2> QED BY <1>1, <2>4, <2>5, <2>6
  <1>4. GameTyped' /\ ReaderOK'
    BY <1>1, <1>3 DEF UnreadToken, GameTyped, ReaderOK
  <1>5. ReportsOK' /\ VerdictOK'
    BY DEF UnreadToken, ReportsOK, VerdictOK
  <1> QED BY <1>4, <1>5

\* The other actions leave the game alone.
LEMMA SameGame ==
  ASSUME GameTyped, ReaderOK, UNCHANGED game,
         progress' \in {"reading", "reconciled", "assessed", "refused"}
  PROVE  GameTyped' /\ ReaderOK'
  BY DEF game, GameTyped, ReaderOK, Surplus

\* What is computed from the same game is the same.
LEMMA AccountsUnchanged ==
  ASSUME NEW m, UNCHANGED game
  PROVE  /\ ReconcileResult(m)' = ReconcileResult(m)
         /\ AssessEnding(m)' = AssessEnding(m)
  <1>1. ReconcileResult(m)' = ReconcileResult(m)
    BY DEF game, ReconcileResult, TrailingPlies, Surplus, OtherWarnings
  <1>2. AssessEnding(m)' = AssessEnding(m)
    BY DEF game, AssessEnding, PgnResult
  <1> QED BY <1>1, <1>2

\* Classify: the answer is about the board as it is.
LEMMA ClassifyStep ==
  ASSUME IInv, NEW h \in {"complete", "incomplete"}, NEW r \in Questions,
         Classify(r, h)
  PROVE  IInv'
  <1> USE DEF IInv
  <1>1. GameTyped' /\ ReaderOK'
    BY SameGame DEF Classify, GameTyped
  <1>2. ReportsOK'
    BY AccountsUnchanged DEF Classify, ReportsOK
  <1>3. VerdictOK'
    <2>1. board' = board
      BY DEF Classify, game
    <2> QED BY <2>1 DEF Classify, VerdictOK, Questions, AskedBoard
  <1> QED BY <1>1, <1>2, <1>3

\* Reconcile: the report is computed from the game and stored with the metadata.
LEMMA ReconcileStep ==
  ASSUME IInv, NEW m \in Metadata, Reconcile(m)
  PROVE  IInv'
  <1> USE DEF IInv
  <1>1. GameTyped' /\ ReaderOK'
    BY SameGame DEF Reconcile, GameTyped
  <1>2. UNCHANGED game /\ ReconcileResult(m)' = ReconcileResult(m)
    BY AccountsUnchanged DEF Reconcile
  <1>3. report' # Nothing
    BY ReportFields DEF Reconcile, Nothing, NONE
  <1>4. ReportsOK'
    BY <1>2, <1>3 DEF Reconcile, ReportsOK
  <1>5. VerdictOK'
    BY DEF Reconcile, VerdictOK
  <1> QED BY <1>1, <1>4, <1>5

\* Assess: the game and the metadata are those of the report.
LEMMA AssessStep ==
  ASSUME IInv, Assess
  PROVE  IInv'
  <1> USE DEF IInv
  <1>1. GameTyped' /\ ReaderOK'
    BY SameGame DEF Assess, GameTyped
  <1>2. UNCHANGED <<game, meta, report>>
    BY DEF Assess
  <1>3. ReportsOK'
    <2>1. progress = "reconciled" /\ progress' = "assessed" /\ ending' = AssessEnding(meta)
      BY DEF Assess
    <2>2. report # Nothing /\ meta \in Metadata /\ report = ReconcileResult(meta)
      BY <2>1 DEF ReportsOK
    <2>3. report' = ReconcileResult(meta)' /\ ending' = AssessEnding(meta)'
      BY <1>2, <2>1, <2>2, AccountsUnchanged
    <2> QED BY <1>2, <2>1, <2>2, <2>3 DEF ReportsOK
  <1>4. VerdictOK'
    BY DEF Assess, VerdictOK
  <1> QED BY <1>1, <1>3, <1>4

\* The invariant holds in every reachable state.
THEOREM Invariance == RecordSpec => []IInv
  <1>1. IInv /\ [RecordNext]_recordVars => IInv'
    <2> SUFFICES ASSUME IInv, [RecordNext]_recordVars
                 PROVE  IInv'
      OBVIOUS
    <2>1. CASE \E m \in Here(board).moves : ReadPly(m)
      BY <2>1, ReadPlyStep
    <2>2. CASE \E m \in Here(pgn).moves : IgnorePly(m)
      BY <2>2, IgnorePlyStep
    <2>3. CASE UnreadToken
      BY <2>3, UnreadTokenStep
    <2>4. CASE \E h \in {"complete", "incomplete"} : \E r \in Questions : Classify(r, h)
      BY <2>4, ClassifyStep
    <2>5. CASE \E m \in Metadata : Reconcile(m)
      BY <2>5, ReconcileStep
    <2>6. CASE Assess
      BY <2>6, AssessStep
    <2>7. CASE UNCHANGED recordVars
      <3>1. UNCHANGED <<game, progress, meta, report, ending, verdict>>
        BY <2>7 DEF recordVars, game
      <3>2. GameTyped' /\ ReaderOK'
        BY <3>1, SameGame DEF IInv, GameTyped
      <3>3. ReportsOK'
        BY <3>1, AccountsUnchanged DEF IInv, ReportsOK
      <3>4. VerdictOK'
        <4>1. board' = board /\ verdict' = verdict
          BY <3>1 DEF game
        <4> QED BY <4>1 DEF IInv, VerdictOK, Questions, AskedBoard
      <3> QED BY <3>2, <3>3, <3>4 DEF IInv
    <2> QED BY <2>1, <2>2, <2>3, <2>4, <2>5, <2>6, <2>7 DEF RecordNext
  <1> QED BY <1>1, InitInv, PTL DEF RecordSpec

-----------------------------------------------------------------------------
\* The theorems.

\* Every variable has the type the code gives it.
THEOREM TypeCorrect == RecordSpec => []TypeOK
  <1>1. IInv => TypeOK
    <2> SUFFICES ASSUME IInv
                 PROVE  TypeOK
      OBVIOUS
    <2>1. report # Nothing =>
            /\ report.result \in Canonical
            /\ report.termination \in Norms \cup {"stalemate", "dead_position"}
      BY ReportTyped DEF IInv, GameTyped, ReportsOK
    <2>2. report # Nothing => report.trailing \in 0..MaxTail
      <3>1. SUFFICES TrailingPlies \in 0..MaxTail
        BY ReportFields DEF IInv, ReportsOK
      <3>2. Len(pgn.path) \in Nat /\ Len(board.path) \in Nat /\ MaxTail \in Nat
        BY HereTyped, GameAssumption DEF IInv, GameTyped
      <3>3. Surplus \in Int /\ Surplus >= 0 /\ unread \in Nat
        BY <3>2 DEF IInv, GameTyped, ReaderOK, Surplus
      <3>4. Surplus + unread <= MaxTail
        BY DEF IInv, ReaderOK
      <3> QED BY <3>2, <3>3, <3>4 DEF TrailingPlies
    <2>3. ending # Nothing => ending.winner \in Colors \cup {NONE}
      <3>1. SUFFICES \A m : AssessEnding(m).winner \in Colors \cup {NONE}
        BY DEF IInv, ReportsOK
      <3> QED BY DEF AssessEnding, Winner, Other, Colors, NONE
    <2> QED BY <2>1, <2>2, <2>3 DEF IInv, GameTyped, ReportsOK, TypeOK
  <1> QED BY <1>1, Invariance, PTL

\* A game is read to its first terminal position and no further.
THEOREM ReadsToTheEnd == RecordSpec => PliesStopAtTheEnd
  <1> DEFINE A == /\ board' # board => ~IsTerminal(board)
                  /\ Surplus' > Surplus => IsTerminal(board)
  <1>1. IInv /\ [RecordNext]_recordVars => [A]_recordVars
    <2> SUFFICES ASSUME IInv, RecordNext
                 PROVE  A
      OBVIOUS
    <2>1. ASSUME NEW m \in Here(board).moves, ReadPly(m)
          PROVE  A
      <3>1. ~IsTerminal(board) /\ pgn = board /\ pgn' = board'
        BY <2>1 DEF IInv, ReaderOK, ReadPly
      <3>2. IInv'
        BY <2>1, ReadPlyStep
      <3>3. Len(board.path) \in Nat /\ Len(board'.path) \in Nat
        BY <3>2, HereTyped DEF IInv, GameTyped
      <3>4. Surplus = 0 /\ Surplus' = 0
        BY <3>1, <3>3 DEF Surplus
      <3> QED BY <3>1, <3>4
    <2>2. ASSUME NEW m \in Here(pgn).moves, IgnorePly(m)
          PROVE  A
      BY <2>2 DEF IInv, ReaderOK, IgnorePly
    <2>3. ASSUME board' = board, pgn' = pgn
          PROVE  A
      <3>1. Len(pgn.path) \in Nat /\ Len(board.path) \in Nat
        BY HereTyped DEF IInv, GameTyped
      <3>2. Surplus \in Int /\ Surplus' = Surplus
        BY <2>3, <3>1 DEF Surplus
      <3> QED BY <2>3, <3>2
    <2> QED BY <2>1, <2>2, <2>3
            DEF RecordNext, UnreadToken, Classify, Reconcile, Assess, game
  <1> QED BY <1>1, Invariance, PTL DEF RecordSpec, PliesStopAtTheEnd

\* The tests for the end of a game agree in every position a game reaches.  A
\* position that comes up for the fifth time is not locked: it was there before,
\* and the game would have ended then.
THEOREM TerminalTestsAgree == RecordSpec => []OneTerminality
  <1>1. IInv => OneTerminality
    <2> SUFFICES ASSUME IInv, NEW h \in HistoryStates
                 PROVE  RuleTerminal(board, h) \notin {NONE, "dead_position"}
                          <=> IsGameOver(board)
      BY TerminalEquivalence DEF OneTerminality
    <2>1. ASSUME IsRepetition(board, 5)
          PROVE  ~Here(board).locked
      <3>1. PICK i \in 1..(Len(board.path) - 1) :
                   board.path[i] = board.path[Len(board.path)]
        BY <2>1, SeenBefore DEF IInv, GameTyped
      <3> QED BY <3>1 DEF IInv, ReaderOK, Here
    <2> QED BY <2>1 DEF RuleTerminal, HasHistory, NONE, IsGameOver, IsLockedDead,
                        IsCheckmate, IsStalemate
  <1> QED BY <1>1, Invariance, PTL

\* The result and the termination of a game the rules have ended are the board's.
THEOREM TheBoardDecides == RecordSpec => []BoardOutcomeStands
  <1>1. IInv => BoardOutcomeStands
    BY BoardDecides DEF IInv, GameTyped, ReportsOK, BoardOutcomeStands
  <1> QED BY <1>1, Invariance, PTL

\* A declared result is not replaced in silence.
THEOREM OverridesAreSaid == RecordSpec => []NoSilentOverride
  <1>1. IInv => NoSilentOverride
    BY OverridesWarn DEF IInv, GameTyped, ReportsOK, NoSilentOverride
  <1> QED BY <1>1, Invariance, PTL

\* The report and the assessment describe the same ending.
THEOREM OneEnding == RecordSpec => []EndingsAgree
  <1>1. IInv => EndingsAgree
    <2> SUFFICES ASSUME IInv, ending # Nothing, pgn = board,
                        report.termination # "dead_position"
                 PROVE  EndingsAgree
      BY DEF EndingsAgree
    <2>1. meta \in Metadata /\ report = ReconcileResult(meta) /\ ending = AssessEnding(meta)
      BY DEF IInv, ReportsOK
    <2>2. board \in Boards /\ unread \in Nat
      BY GameAssumption DEF IInv, GameTyped
    <2> QED BY <2>1, <2>2, AccountsAgree DEF EndingsAgree
  <1> QED BY <1>1, Invariance, PTL

\* Claims are judged as the Laws ask, with or without the history of the game.
THEOREM ClaimsAreJudgedRight == RecordSpec => []ClaimVerdictsAreRight
  <1>1. IInv => ClaimVerdictsAreRight
    <2> SUFFICES ASSUME IInv,
                        verdict.kind \in {"claim_draw", "claim_draw_with_intended_move"}
                 PROVE  ClaimVerdictsAreRight
      BY DEF ClaimVerdictsAreRight
    <2>1. PICK r \in Questions, h \in {"complete", "incomplete"} :
            verdict = [kind |-> r.action, move |-> r.move, history |-> h,
                       accepted |-> Accepts(AskedBoard(h), h, r.action, r.move)]
      BY DEF IInv, VerdictOK, Nothing, NONE
    <2> DEFINE b == AskedBoard(h)
    <2>2. b \in Boards /\ Here(b) = Here(board)
      BY AskedTyped DEF IInv, GameTyped
    <2>3. /\ verdict.kind = r.action /\ verdict.move = r.move /\ verdict.history = h
          /\ verdict.accepted <=> Accepts(b, h, r.action, r.move)
      BY <2>1
    <2>4. CASE r.action = "claim_draw"
      <3>1. r.move = {}
        BY <2>4 DEF Questions
      <3>2. verdict.accepted <=> ~IsTerminal(b) /\ ReasonsNow(b, h) # {}
        BY <2>3, <2>4 DEF Accepts
      <3>3. /\ verdict.accepted => ~IsTerminal(b) /\ Claimable(b, h)
            /\ ~IsTerminal(b) /\ Claimable(b, h) => verdict.accepted
        BY <2>2, <3>2, ReasonsNowExact
      <3>4. ~verdict.accepted =>
              \A v \in Views : RuleStatus(b, h, v).recommended # "claim_draw"
        BY <3>2, AdviceNeedsReason
      <3> QED BY <2>3, <3>1, <3>3, <3>4 DEF ClaimVerdictsAreRight
    <2>5. CASE r.action = "claim_draw_with_intended_move"
      <3>1. PICK m \in Here(b).moves : r.move = {m}
        BY <2>2, <2>5 DEF Questions
      <3>2. r.move # {} /\ (CHOOSE x \in r.move : TRUE) = m
        BY <3>1
      <3>3. verdict.accepted <=> ~IsTerminal(b) /\ m \in Intended(b, h)
        BY <2>3, <2>5, <3>1 DEF Accepts
      <3>4. /\ verdict.accepted => ~IsTerminal(b) /\ Claimable(Push(b, m), h)
            /\ ~IsTerminal(b) /\ Claimable(Push(b, m), h)
                 => verdict.accepted \/ Claimable(b, h)
        BY <2>2, <3>3, IntendedExact
      <3> QED BY <2>3, <3>2, <3>4 DEF ClaimVerdictsAreRight
    <2> QED BY <2>3, <2>4, <2>5
  <1> QED BY <1>1, Invariance, PTL

-----------------------------------------------------------------------------
(* The tool classify_move.                                                 *)

\* What is asked of the grading when the engine's own move is played and no
\* claim is preferred to it.
IsEngineMove(s) ==
  s.action = "play_move" /\ s.first = TRUE /\ s.canonical = "play_move"

Fields == {"class", "cpl", "raw", "delta", "mateLoss", "eff", "kind", "engineBest",
           "winLoss", "isBest", "equivalent", "missed", "missedKind", "conceded"}

IsBest(g) == DOMAIN g = Fields /\ g.class = "best" /\ g.eff = 0

\* A grade is either free of blame or the worst there is; nothing in between.
AllOrNothing(g) == IsBest(g) \/ (DOMAIN g = Fields /\ g.class = "blunder")

-----------------------------------------------------------------------------
LEMMA FlawlessIsBest ==
  ASSUME NEW s
  PROVE  IsBest(S!G!Flawless(s))
BY DEF IsBest, Fields, S!G!Flawless

LEMMA BlundersAreWhole ==
  ASSUME NEW s, NEW eff, NEW kind, NEW lost
  PROVE  LET g == S!G!Graded(s, "blunder", eff, kind, lost)
         IN  DOMAIN g = Fields /\ g.class = "blunder"
BY DEF Fields, S!G!Graded, S!G!Flawless

LEMMA EnginesMove ==
  ASSUME NEW s, IsEngineMove(s)
  PROVE  S!G!EngineBest(s) /\ s.action \notin S!G!Claims /\ s.canonical \notin S!G!Claims
BY DEF IsEngineMove, S!G!EngineBest, S!G!Claims

\* The fields a strategy may still set without touching the class or the cost.
LEMMA DistanceKeeps ==
  ASSUME NEW s, NEW g, NEW loss
  PROVE  /\ IsBest(g) => IsBest(S!G!Distance(s, g, loss))
         /\ DOMAIN S!G!Distance(s, g, loss) = DOMAIN g
BY DEF IsBest, Fields, S!G!Distance

LEMMA MateGrades ==
  ASSUME NEW s, IsEngineMove(s)
  PROVE  IsBest(S!G!MateToMate(s))
<1>1. IsBest(S!G!Resists(s))
  <2> DEFINE loss == S!G!Larger(0, S!G!Size(s.before.mate) - S!G!Size(s.after.mate))
             g == S!G!Distance(s, S!G!Flawless(s), loss)
  <2>1. \E b : S!G!Resists(s) = [g EXCEPT !.isBest = b]
    BY EnginesMove DEF S!G!Resists
  <2>2. IsBest(g)
    BY FlawlessIsBest, DistanceKeeps
  <2>. HIDE DEF g
  <2>. QED  BY <2>1, <2>2 DEF IsBest, Fields
<1>2. IsBest(S!G!StillMates(s))
  <2> DEFINE g == S!G!Distance(s, S!G!Flawless(s), S!G!DistanceLoss(s))
  <2>1. \E b : S!G!StillMates(s) = [g EXCEPT !.isBest = b]
    BY EnginesMove DEF S!G!StillMates
  <2>2. IsBest(g)
    BY FlawlessIsBest, DistanceKeeps
  <2>. HIDE DEF g
  <2>. QED  BY <2>1, <2>2 DEF IsBest, Fields
<1>3. IsBest(S!G!MateThrown(s))
  BY EnginesMove, FlawlessIsBest DEF S!G!MateThrown, IsBest, Fields
<1>. QED  BY <1>1, <1>2, <1>3, FlawlessIsBest DEF S!G!MateToMate, IsBest, Fields

LEMMA CpGrades ==
  ASSUME NEW s, IsEngineMove(s)
  PROVE  /\ IsBest(S!G!MateToCp(s))
         /\ IsBest(S!G!StandardCp(s))
         /\ AllOrNothing(S!G!CpToMate(s))
<1>1. IsBest(S!G!MateToCp(s))
  BY EnginesMove, FlawlessIsBest DEF S!G!MateToCp, S!G!Measured, IsBest, Fields
<1>2. IsBest(S!G!StandardCp(s))
  BY EnginesMove, FlawlessIsBest DEF S!G!StandardCp, IsBest, Fields
<1>3. AllOrNothing(S!G!CpToMate(s))
  <2>1. CASE S!G!IsMated(s.after)
    BY <2>1, BlundersAreWhole DEF S!G!CpToMate, S!G!Unmeasured, S!G!NotTheEngines, AllOrNothing, Fields
  <2>2. CASE ~S!G!IsMated(s.after)
    BY <2>2, EnginesMove, FlawlessIsBest DEF S!G!CpToMate, AllOrNothing, IsBest, Fields
  <2>. QED  BY <2>1, <2>2
<1>. QED  BY <1>1, <1>2, <1>3

LEMMA DrawGrades ==
  ASSUME NEW s, IsEngineMove(s)
  PROVE  /\ AllOrNothing(S!G!DrawnGrade(s)) /\ AllOrNothing(S!G!ConcededGrade(s))
         /\ IsBest(S!G!PreservedGrade(s)) /\ AllOrNothing(S!G!ForfeitGrade(s))
<1>1. AllOrNothing(S!G!DrawnGrade(s))
  <2>1. CASE S!G!WinningBefore(s)
    BY <2>1, BlundersAreWhole
    DEF S!G!DrawnGrade, S!G!Measured, S!G!NotTheEngines, AllOrNothing, Fields
  <2>2. CASE ~S!G!WinningBefore(s)
    BY <2>2, EnginesMove, FlawlessIsBest DEF S!G!DrawnGrade, AllOrNothing, IsBest, Fields
  <2>. QED  BY <2>1, <2>2
<1>2. AllOrNothing(S!G!ConcededGrade(s))
  BY BlundersAreWhole DEF S!G!ConcededGrade, S!G!Measured, S!G!NotTheEngines, AllOrNothing, Fields
<1>3. IsBest(S!G!PreservedGrade(s))
  BY FlawlessIsBest DEF S!G!PreservedGrade, IsBest, Fields
<1>4. AllOrNothing(S!G!ForfeitGrade(s))
  BY BlundersAreWhole DEF S!G!ForfeitGrade, S!G!Measured, AllOrNothing, Fields
<1>. QED  BY <1>1, <1>2, <1>3, <1>4

LEMMA StrategyGrades ==
  ASSUME NEW s, IsEngineMove(s)
  PROVE  AllOrNothing(S!G!Strategy(s))
<1>1. AllOrNothing(S!G!DeliveredMate(s))
  BY FlawlessIsBest DEF S!G!DeliveredMate, AllOrNothing, IsBest, Fields
<1>2. AllOrNothing(S!G!ReceivedMate(s))
  BY BlundersAreWhole DEF S!G!ReceivedMate, S!G!NotTheEngines, AllOrNothing, Fields
<1>. QED  BY <1>1, <1>2, EnginesMove, MateGrades, CpGrades, DrawGrades
          DEF S!G!Strategy, AllOrNothing

\* Whatever the strategies say, the invariants enforced at the end leave only a
\* step into a mate.
LEMMA EngineMoveIsPardoned ==
  ASSUME NEW s, IsEngineMove(s), S!G!Grade(s).kind # "mate_transition"
  PROVE  S!G!Grade(s).class = "best" /\ S!G!Grade(s).eff = 0
<1> DEFINE f == S!G!Finalized(s, S!G!Strategy(s))
<1>1. AllOrNothing(f)
  BY StrategyGrades, EnginesMove DEF S!G!Finalized, S!G!WithClaims, AllOrNothing, IsBest, Fields
<1>2. S!G!Grade(s) = S!G!Enforced(s, f)
  BY DEF S!G!Grade
<1>. HIDE DEF f
<1>3. ~(f.kind = "mate_transition" /\ ~S!G!OnlyMove(s))
  BY <1>2 DEF S!G!Enforced
<1> DEFINE p == IF ~S!G!MustNotBlame(s, f) THEN f
                ELSE [f EXCEPT !.class = "best", !.eff = 0, !.cpl = 0, !.raw = 0,
                        !.delta = 0, !.isBest = TRUE, !.equivalent = TRUE, !.winLoss = 0,
                        !.mateLoss = IF @ = None THEN None ELSE 0,
                        !.engineBest = S!G!EngineBest(s) \/ @]
<1>4. IsBest(p)
  <2>1. CASE S!G!MustNotBlame(s, f)
    <3>1. DOMAIN f = Fields
      BY <1>1 DEF AllOrNothing, IsBest
    <3>. QED  BY <2>1, <3>1 DEF IsBest, Fields
  <2>2. CASE ~S!G!MustNotBlame(s, f)
    <3>1. f.class # "blunder"
      BY <2>2, EnginesMove DEF S!G!MustNotBlame, S!G!Faults, IsEngineMove
    <3>. QED  BY <2>2, <3>1, <1>1 DEF AllOrNothing
  <2>. QED  BY <2>1, <2>2
<1>. HIDE DEF p
<1>5. S!G!Grade(s) = [p EXCEPT !.engineBest = TRUE, !.isBest = TRUE, !.equivalent = TRUE]
  BY <1>2, <1>3, EnginesMove DEF S!G!Enforced, S!G!WithClaims, IsEngineMove, p
<1>. QED  BY <1>4, <1>5 DEF IsBest, Fields

-----------------------------------------------------------------------------
\* A grade made from the evaluations the handler holds.
LEMMA ScoreIsFair ==
  ASSUME NEW p, NEW q, NEW r, NEW e1, NEW e2, NEW g,
         g = S!Score(p, q, r, request.action, request.move, e1, e2),
         request.action = "play_move", e1.best # None, request.move = e1.best,
         e1.action = "play_move", g.kind # "mate_transition"
  PROVE  g.class = "best" /\ g.eff = 0
<1> DEFINE s == S!Situation(p, q, r, request.action, request.move, e1, e2)
<1>1. IsEngineMove(s)
  BY DEF S!Situation, IsEngineMove
<1>2. g = S!G!Grade(s)
  BY DEF S!Score
<1>. HIDE DEF s
<1>. QED  BY <1>1, <1>2, EngineMoveIsPardoned

\* No grade exists before both evaluations do.
FairInv ==
  /\ phase \in {"idle", "before", "after"} => score = None
  /\ EngineBestIsNotBlamed

LEMMA FairInit == Init => FairInv
BY DEF Init, FairInv, EngineBestIsNotBlamed, IsGraded

LEMMA SearchAfterFair ==
  ASSUME FairInv, SearchAfter
  PROVE  FairInv'
<1>1. PICK q, e : score' = S!Score(P, q, q, request.action, request.move, before, e)
  BY DEF SearchAfter, Score
<1>2. UNCHANGED <<request, before>> /\ phase' = "second_look"
  BY DEF SearchAfter
<1>. QED  BY <1>1, <1>2, ScoreIsFair DEF FairInv, EngineBestIsNotBlamed

\* The second look either takes the new evaluation together with its grade, or
\* keeps both.
LEMMA SecondLookFair ==
  ASSUME FairInv, SecondLook
  PROVE  FairInv'
<1>1. UNCHANGED request /\ phase' = "evidence"
  BY DEF SecondLook, Regrade
<1>2. CASE \E again : before' = again /\ score' = Score(P, Q, again, after)
  <2>1. PICK again : before' = again /\ score' = Score(P, Q, again, after)
    BY <1>2
  <2>2. score' = S!Score(P, P, Q, request.action, request.move, before', after)
    BY <2>1 DEF Score
  <2>. QED  BY <1>1, <2>2, ScoreIsFair DEF FairInv, EngineBestIsNotBlamed
<1>3. CASE /\ score' = [score EXCEPT !.class = "best", !.eff = 0, !.engineBest = TRUE]
           /\ UNCHANGED before
  BY <1>1, <1>3 DEF FairInv, EngineBestIsNotBlamed, IsGraded, SecondLook, Regrade, IsDoubtful, Ev!IsError
<1>. QED  BY <1>2, <1>3 DEF SecondLook, Regrade

LEMMA FairNext == FairInv /\ [Next]_vars => FairInv'
<1>. SUFFICES ASSUME FairInv, [Next]_vars PROVE FairInv'
  OBVIOUS
<1>1. CASE Ask
  BY <1>1 DEF FairInv, EngineBestIsNotBlamed, IsGraded, Ask
<1>2. CASE SearchBefore
  BY <1>2 DEF FairInv, EngineBestIsNotBlamed, IsGraded, SearchBefore
<1>3. CASE SearchAfter
  BY <1>3, SearchAfterFair
<1>4. CASE SecondLook
  BY <1>4, SecondLookFair
<1>5. CASE NoSecondLook \/ SecondLookFails \/ Standard \/ Enrich \/ NeedsNoVerification
           \/ Verify \/ Escalate \/ VerificationFails \/ Judge \/ EngineFails \/ Stop
           \/ UNCHANGED vars
  <2>1. UNCHANGED <<request, before, score>>
    BY <1>5 DEF NoSecondLook, SecondLookFails, Standard, Enrich, NeedsNoVerification, Verify, EscalateOrConclude,
       Escalate, VerificationFails, Judge, EngineFails, Stop, vars
  <2>2. phase' \in {"idle", "before", "after"} => phase' = phase
    BY <1>5 DEF NoSecondLook, SecondLookFails, Standard, Enrich, NeedsNoVerification, Verify, EscalateOrConclude,
       Escalate, VerificationFails, Judge, EngineFails, Stop, vars, Answer, Fail
  <2>. QED  BY <2>1, <2>2 DEF FairInv, EngineBestIsNotBlamed, IsGraded
<1>. QED  BY <1>1, <1>2, <1>3, <1>4, <1>5 DEF Next

\* The grade of the engine's own move, where no claim is preferred to it, is
\* "best" and costs nothing, whatever the searches before and after it and a
\* second look answer, unless they end in a mate for the other side.
THEOREM EngineIsNotBlamed == Spec => []EngineBestIsNotBlamed
<1>1. FairInv => EngineBestIsNotBlamed
  BY DEF FairInv
<1>. QED  BY <1>1, FairInit, FairNext, PTL DEF Spec

-----------------------------------------------------------------------------
(* The verification and the verdict.                                       *)

Unevidenced == {"idle", "before", "after", "second_look", "evidence"}
inputs == <<request, before, after, score, evidence>>

\* What is compared and judged changes only with what it is made of.
LEMMA ReadingsStay ==
  ASSUME UNCHANGED inputs
  PROVE  /\ Initial' = Initial /\ IsTactical' = IsTactical
         /\ UNCHANGED stability => Judged' = Judged
<1>1. P' = P /\ Q' = Q
  BY DEF inputs, P, Q, Move
<1>2. Initial' = Initial
  BY <1>1 DEF inputs, Initial, Reading
<1>3. IsTactical' = IsTactical
  BY DEF inputs, IsTactical
<1>4. SameOutcome' = SameOutcome
  BY <1>1 DEF inputs, SameOutcome, SameAction
<1>. QED  BY <1>1, <1>2, <1>3, <1>4 DEF inputs, Judged

StabilityFields == {"performed", "status", "depth", "escalated", "converged", "stable",
                    "classStable", "disagreements", "depths", "reading"}

\* Nothing is called stable before the verification is concluded, and the second
\* round starts with what the first one read.
VerifyInv ==
  /\ phase \in Unevidenced => stability = None /\ evidence = Blank
  /\ phase \in {"verify", "escalate"} =>
       DOMAIN stability = StabilityFields /\ stability.stable # TRUE
  /\ phase = "escalate" => deepened = {stability.reading}
  /\ StableMeansUnanimous

\* Readings without a disagreement have the same class, best move and mates.
LEMMA AgreeInEssence ==
  ASSUME NEW a, NEW b, NEW tactical, V!Agrees(a, b, tactical)
  PROVE  Essence(a) = Essence(b)
<1>1. /\ "classification_changed" \notin V!Disagreements(a, b, tactical)
      /\ "engine_best_move_changed" \notin V!Disagreements(a, b, tactical)
      /\ "mate_status_changed" \notin V!Disagreements(a, b, tactical)
  BY DEF V!Agrees
<1>2. a.class = b.class
  BY <1>1 DEF V!Disagreements
<1>3. a.best = b.best
  BY <1>1 DEF V!Disagreements
<1>4. V!SameMates(a, b)
  BY <1>1 DEF V!Disagreements
<1>. QED  BY <1>2, <1>3, <1>4 DEF Essence, V!SameMates

\* What is concluded to be stable agrees with the first reading, and the rounds
\* with each other.
LEMMA ConcludedIsUnanimous ==
  ASSUME NEW st, DOMAIN st = StabilityFields, UNCHANGED inputs, stability' = Conclude(st),
         deepened' # {},
         st.converged # FALSE =>
           \A r \in deepened' : Essence(r) = Essence(st.reading)
  PROVE  StableMeansUnanimous'
<1>1. stability'.stable = (V!Agrees(Initial, st.reading, IsTactical) /\ st.converged # FALSE)
  BY DEF Conclude, V!Concluded, StabilityFields
<1>2. ASSUME stability'.stable = TRUE, NEW r \in deepened'
      PROVE  Essence(r) = Essence(Initial)
  BY <1>1, <1>2, AgreeInEssence
<1>3. Initial' = Initial
  BY ReadingsStay
<1>. QED  BY <1>2, <1>3 DEF StableMeansUnanimous, Essence

LEMMA VerifyNext ==
  ASSUME None # TRUE, None # FALSE, VerifyInv, [Next]_vars
  PROVE  VerifyInv'
<1>1. CASE Enrich
  <2>1. /\ phase' \in {"verify", "judge"}
        /\ stability' = V!Unverified(AskedDepth, Initial, "not_needed")
    BY <1>1 DEF Enrich
  <2>2. DOMAIN stability' = StabilityFields /\ stability'.stable = None
    BY <2>1 DEF V!Unverified, StabilityFields
  <2>. QED  BY <2>1, <2>2 DEF VerifyInv, StableMeansUnanimous, Unevidenced
<1>2. CASE NeedsNoVerification \/ VerificationFails
  <2>1. phase \in {"verify", "escalate"} /\ phase' = "judge"
    BY <1>2 DEF NeedsNoVerification, VerificationFails
  <2>2. stability'.stable = stability.stable
    BY <1>2, <2>1 DEF VerifyInv, StabilityFields, NeedsNoVerification, VerificationFails,
                      V!VerificationFailed
  <2>. QED  BY <2>1, <2>2 DEF VerifyInv, StableMeansUnanimous, Unevidenced
<1>3. CASE Verify
  <2>1. PICK r \in DeeperReadings :
          LET st == V!Verified(stability, Initial, r, IsTactical)
          IN  /\ deepened' = {r}
              /\ IF V!MustEscalate(st) THEN stability' = st /\ phase' = "escalate"
                 ELSE stability' = Conclude(st) /\ phase' = "judge"
    BY <1>3 DEF Verify, EscalateOrConclude
  <2> DEFINE st == V!Verified(stability, Initial, r, IsTactical)
  <2>2. /\ DOMAIN st = StabilityFields /\ st.reading = r /\ st.stable # TRUE
    BY <1>3 DEF Verify, EscalateOrConclude, VerifyInv, V!Verified, StabilityFields
  <2>3. UNCHANGED inputs
    BY <1>3 DEF Verify, EscalateOrConclude, inputs
  <2>. HIDE DEF st
  <2>4. CASE stability' = st /\ phase' = "escalate"
    BY <2>1, <2>2, <2>4 DEF VerifyInv, StableMeansUnanimous, Unevidenced
  <2>5. CASE stability' = Conclude(st) /\ phase' = "judge"
    <3>1. StableMeansUnanimous'
      BY <2>1, <2>2, <2>3, <2>5, ConcludedIsUnanimous
    <3>. QED  BY <2>5, <3>1 DEF VerifyInv, Unevidenced
  <2>. QED  BY <2>1, <2>4, <2>5 DEF st
<1>4. CASE Escalate
  <2>1. PICK r \in DeeperReadings :
          /\ deepened' = deepened \cup {r}
          /\ stability' = Conclude(V!Escalated(stability, Initial, r, IsTactical))
    BY <1>4 DEF Escalate
  <2> DEFINE st == V!Escalated(stability, Initial, r, IsTactical)
  <2>2. /\ DOMAIN st = StabilityFields /\ st.reading = r
        /\ st.converged = V!Agrees(stability.reading, r, IsTactical)
    BY <1>4 DEF Escalate, VerifyInv, V!Escalated, StabilityFields
  <2>3. UNCHANGED inputs /\ phase' = "judge" /\ deepened' = {stability.reading, r}
    BY <1>4, <2>1 DEF Escalate, VerifyInv, inputs
  <2>4. st.converged # FALSE => V!Agrees(stability.reading, r, IsTactical)
    BY <2>2 DEF V!Agrees
  <2>. HIDE DEF st
  <2>5. st.converged # FALSE => \A x \in deepened' : Essence(x) = Essence(st.reading)
    BY <2>2, <2>3, <2>4, AgreeInEssence
  <2>6. StableMeansUnanimous'
    BY <2>1, <2>2, <2>3, <2>5, ConcludedIsUnanimous DEF st
  <2>. QED  BY <2>3, <2>6 DEF VerifyInv, Unevidenced
<1>5. CASE Ask \/ SearchBefore \/ SearchAfter \/ NoSecondLook \/ SecondLook \/ SecondLookFails
  <2>1. phase \in Unevidenced /\ UNCHANGED <<stability, evidence>>
    BY <1>5 DEF Ask, SearchBefore, SearchAfter, NoSecondLook, SecondLook, Regrade, SecondLookFails,
                Unevidenced
  <2>2. phase' \in Unevidenced \cup {"done"}
    BY <1>5 DEF Ask, SearchBefore, SearchAfter, NoSecondLook, SecondLook, Regrade, SecondLookFails,
                Unevidenced, Answer
  <2>. QED  BY <2>1, <2>2 DEF VerifyInv, StableMeansUnanimous, Unevidenced
<1>6. CASE Standard \/ Judge \/ EngineFails \/ Stop \/ UNCHANGED vars
  <2>1. /\ UNCHANGED inputs /\ UNCHANGED <<stability, deepened>>
        /\ phase' = "done" \/ phase' = phase
    BY <1>6 DEF Standard, Judge, EngineFails, Stop, vars, inputs, Answer, Fail
  <2>2. Initial' = Initial
    BY <2>1, ReadingsStay
  <2>3. StableMeansUnanimous'
    BY <2>1, <2>2 DEF VerifyInv, StableMeansUnanimous, Essence
  <2>. QED  BY <2>1, <2>3 DEF VerifyInv, Unevidenced, inputs
<1>. QED  BY <1>1, <1>2, <1>3, <1>4, <1>5, <1>6 DEF Next

\* A class that classify_move calls stable is the class of every search that was
\* made to verify it, and so are the best move and the mates: a search that said
\* something else is not made good by one that agrees again, and a round that
\* fails leaves nothing stable.
THEOREM StableClassesAgree ==
  ASSUME None # TRUE, None # FALSE
  PROVE  Spec => []StableMeansUnanimous
<1>1. Init => VerifyInv
  BY DEF Init, VerifyInv, StableMeansUnanimous, Unevidenced
<1>2. VerifyInv /\ [Next]_vars => VerifyInv'
  BY VerifyNext
<1>3. VerifyInv => StableMeansUnanimous
  BY DEF VerifyInv
<1>. QED  BY <1>1, <1>2, <1>3, PTL DEF Spec

\* The verdict of an answer is that on what the handler still holds.
JudgeInv ==
  /\ phase \in Unevidenced => evidence = Blank
  /\ IsJudged => reply.verdict = V!Equivalence(Judged)

LEMMA JudgeNext ==
  ASSUME JudgeInv, [Next]_vars
  PROVE  JudgeInv'
<1>1. CASE Judge
  <2>1. UNCHANGED inputs /\ UNCHANGED stability /\ phase' = "done"
        /\ reply'.verdict = V!Equivalence(Judged)
    BY <1>1 DEF Judge, Answer, inputs
  <2>. QED  BY <2>1, ReadingsStay DEF JudgeInv, Unevidenced
<1>2. CASE Ask \/ SearchBefore \/ SearchAfter \/ NoSecondLook \/ SecondLook \/ SecondLookFails
           \/ Standard
  <2>1. phase \in Unevidenced /\ UNCHANGED evidence
    BY <1>2 DEF Ask, SearchBefore, SearchAfter, NoSecondLook, SecondLook, Regrade, SecondLookFails,
                Standard, Unevidenced
  <2>. QED  BY <2>1 DEF JudgeInv, IsJudged
<1>3. CASE EngineFails
  <2>1. ~reply'.ok /\ UNCHANGED evidence /\ phase \in {"before", "after", "evidence"}
        /\ phase' = "done"
    BY <1>3 DEF EngineFails, Fail, Answer
  <2>. QED  BY <2>1 DEF JudgeInv, IsJudged, Unevidenced
<1>4. CASE Enrich \/ NeedsNoVerification \/ Verify \/ Escalate \/ VerificationFails
  <2>1. phase' \in {"verify", "escalate", "judge"}
    BY <1>4 DEF Enrich, NeedsNoVerification, Verify, EscalateOrConclude, Escalate, VerificationFails
  <2>. QED  BY <2>1 DEF JudgeInv, IsJudged, Unevidenced
<1>5. CASE Stop \/ UNCHANGED vars
  <2>1. UNCHANGED vars
    BY <1>5 DEF Stop
  <2>2. UNCHANGED inputs /\ UNCHANGED stability
    BY <2>1 DEF vars, inputs
  <2>. QED  BY <2>1, <2>2, ReadingsStay DEF vars, JudgeInv, IsJudged
<1>. QED  BY <1>1, <1>2, <1>3, <1>4, <1>5 DEF Next

\* A move leads to the outcome of a claim only if it draws.
LEMMA ClaimIsAnotherOutcome ==
  ASSUME request.action = "play_move", before.action \in G!Claims,
         E!OutcomeFor(P.turn, after) # "draw"
  PROVE  ~SameOutcome
<1>1. ~SameAction
  BY DEF SameAction, G!Claims
<1>2. E!ActionOutcome(before.action, P.turn, before) = "draw"
  BY DEF E!ActionOutcome, G!Claims
<1>3. E!ActionOutcome(request.action, P.turn, after) # "draw"
  BY DEF E!ActionOutcome
<1>. QED  BY <1>1, <1>2, <1>3 DEF SameOutcome

\* Where the draw was to be claimed, the verdict calls no move equal to the claim
\* that does not draw by itself, the engine's own included, whatever the second
\* look and the verification made of the searches in between.
THEOREM ClaimsAreNotMatched == Spec => []ClaimIsNotMatched
<1>1. Init => JudgeInv
  BY DEF Init, JudgeInv, IsJudged
<1>2. JudgeInv /\ [Next]_vars => JudgeInv'
  BY JudgeNext
<1>3. JudgeInv => ClaimIsNotMatched
  <2>. SUFFICES ASSUME JudgeInv, IsJudged, request.action = "play_move",
                       before.action \in G!Claims, E!OutcomeFor(P.turn, after) # "draw"
                PROVE  reply.verdict.status # "equivalent"
    BY DEF ClaimIsNotMatched
  <2>1. Judged.action = "play_move" /\ ~Judged.sameOutcome
    BY ClaimIsAnotherOutcome DEF Judged
  <2>2. V!Equivalence(Judged).status = "not_equivalent"
    BY <2>1 DEF V!Equivalence
  <2>. QED  BY <2>2 DEF JudgeInv
<1>. QED  BY <1>1, <1>2, <1>3, PTL DEF Spec

---------------------------------------------------------------------------
\* The losses that classify_move and analyze_game see.

Delayed == "DELAYED_MATERIALIZATION_AFTER_FORCING_REPLY"

\* On a line of one ply material is lost with that ply or not at all.
LEMMA OnePlyLosesAtOnce ==
  ASSUME NEW x
  PROVE  Ev!Lines!MaterialTrace(<<x>>).first \in {None, 1}
<1> DEFINE n == Ev!Lines!Replayed(<<x>>)
           line == Ev!Lines!Replay(<<x>>)
<1>1. Ev!Lines!Replayable(<<x>>) \subseteq {1}
  BY DEF Ev!Lines!Replayable
<1>2. n \in Nat /\ n <= 1
  <2>1. IsFiniteSet({1}) /\ Cardinality({1}) = 1
    BY FS_Singleton
  <2>. QED  BY <1>1, <2>1, FS_Subset, FS_CardinalityType DEF Ev!Lines!Replayed, Ev!Lines!Cardinality, Cardinality
<1>3. DOMAIN line \subseteq {1}
  BY <1>2 DEF Ev!Lines!Replay
<1> DEFINE lost == {k \in DOMAIN line : Ev!Lines!Balance(line, k) <= -100}
<1>4. lost = {} \/ lost = {1}
  BY <1>3
<1>5. Ev!Lines!FirstMaterialLoss(line) = Ev!Lines!Earliest(lost)
  BY DEF Ev!Lines!FirstMaterialLoss
<1>6. Ev!Lines!Earliest(lost) \in {None, 1}
  <2>1. CASE lost = {}
    BY <2>1 DEF Ev!Lines!Earliest
  <2>2. CASE lost = {1}
    <3>1. (CHOOSE k \in {1} : \A j \in {1} : k <= j) = 1
      OBVIOUS
    <3>. QED  BY <2>2, <3>1 DEF Ev!Lines!Earliest
  <2>. QED  BY <1>4, <2>1, <2>2
<1>. QED  BY <1>5, <1>6 DEF Ev!Lines!MaterialTrace

\* Whatever the returned line is, a loss that comes later comes on a line that
\* starts with the reply.
LEMMA LaterLossNeedsTheLine ==
  ASSUME NEW r, NEW line, Delayed \in Ev!Materialization(r, line)
  PROVE  line # <<>> /\ Head(line) = r.ply
<1>. SUFFICES ASSUME ~Ev!StartsWithReply(r, line) PROVE FALSE
  BY DEF Ev!StartsWithReply
<1>1. Ev!Lines!MaterialTrace(Ev!TracedLine(r, line)).first \in {None, 1}
  BY OnePlyLosesAtOnce DEF Ev!TracedLine
<1>. QED  BY <1>1 DEF Ev!Materialization, Ev!LossAt, Ev!When, Delayed

LEMMA SameMaterialization ==
  ASSUME NEW r, NEW line
  PROVE  AG!Ev!Materialization(r, line) = Ev!Materialization(r, line)
BY DEF AG!Ev!Materialization, Ev!Materialization, AG!Ev!LossAt, Ev!LossAt, AG!Ev!When, Ev!When,
   AG!Ev!IsForcing, Ev!IsForcing, AG!Ev!StartsWithReply, Ev!StartsWithReply, AG!Ev!TracedLine, Ev!TracedLine,
   AG!Ev!Lines!MaterialTrace, Ev!Lines!MaterialTrace, AG!Ev!Lines!FirstMaterialLoss, Ev!Lines!FirstMaterialLoss,
   AG!Ev!Lines!Replay, Ev!Lines!Replay, AG!Ev!Lines!Replayed, Ev!Lines!Replayed, AG!Ev!Lines!Replayable,
   Ev!Lines!Replayable, AG!Ev!Lines!Ends, Ev!Lines!Ends, AG!Ev!Lines!Earliest, Ev!Lines!Earliest,
   AG!Ev!Lines!Balance, Ev!Lines!Balance, AG!Ev!Lines!RunsIntoTheEnd, Ev!Lines!RunsIntoTheEnd,
   AG!Ev!Lines!StopsEarly, Ev!Lines!StopsEarly, AG!Ev!Lines!Cardinality, Ev!Lines!Cardinality

\* No other sign is called so.
LEMMA OtherSigns ==
  /\ \A class, r : Delayed \notin Ev!MechanismSigns(class, r)
  /\ \A r, principal : Delayed \notin Ev!ProfileSigns(r, principal)
  /\ \A r, line : Delayed \notin Ev!ExtensionSigns(r, line)
<1>1. \A class, r : Delayed \notin Ev!MechanismSigns(class, r)
  BY DEF Delayed, Ev!MechanismSigns, Ev!When
<1>2. \A r, principal : Delayed \notin Ev!ProfileSigns(r, principal)
  BY DEF Delayed, Ev!ProfileSigns, Ev!When
<1>3. \A r, line : Delayed \notin Ev!ExtensionSigns(r, line)
  BY DEF Delayed, Ev!ExtensionSigns, Ev!GeometrySigns, Ev!When
<1>. QED  BY <1>1, <1>2, <1>3

LEMMA TacticalSigns ==
  /\ \A g, u : Delayed \notin T!UpdateSigns(g, u)
  /\ \A u : Delayed \notin T!ThreatSigns(u)
  /\ \A a, b, c : Delayed \notin T!PinSigns(a, b, c)
  /\ \A g, r : Delayed \notin T!MateSigns(g, r)
BY DEF Delayed, T!UpdateSigns, T!ThreatSigns, T!PinSigns, T!MateSigns

LEMMA SignsOfMove ==
  ASSUME Delayed \in Signs
  PROVE  StrongestReply # None /\ Delayed \in Ev!Materialization(StrongestReply, ForcedLine.line)
<1>1. Delayed \notin FirstSigns
  BY OtherSigns, TacticalSigns DEF FirstSigns
<1>2. Delayed \in LaterSigns
  BY <1>1, TacticalSigns DEF Signs
<1>3. Delayed \in Ev!MaterializationSigns(StrongestReply, ForcedLine.line)
  BY <1>2, OtherSigns, TacticalSigns DEF LaterSigns, Delayed
<1>. QED  BY <1>3 DEF Ev!MaterializationSigns

MomentFields == {"ply", "class", "loss", "reasons", "comment", "reply", "verified", "gap", "signs",
                 "categories"}
CoachFields == {"moments", "segments", "events", "positive", "links", "depth", "escalated", "final", "corpus"}

\* A moment before it is described.
IsUndescribed(m, k) == DOMAIN m = MomentFields /\ m.ply = k /\ Delayed \notin m.signs

AllUndescribed(moments) == \A k \in DOMAIN moments : IsUndescribed(moments[k], k)

Working == {"verify", "escalate", "praise", "final", "describe"}

CoachInv ==
  /\ stage \in {"idle", "scan", "count", "coach"} => coaching = None
  /\ stage \in Working => DOMAIN coaching = CoachFields /\ AllUndescribed(coaching.moments)

LEMMA ReassessedMoment ==
  ASSUME NEW m, NEW k, NEW graded, NEW found, NEW depth, NEW gap, IsUndescribed(m, k)
  PROVE  IsUndescribed(AG!Reassessed(m, graded, found, depth, gap), k)
BY DEF IsUndescribed, MomentFields, AG!Reassessed, AG!Ev!When, Delayed

LEMMA VerifiedMoment ==
  ASSUME NEW m, NEW k, NEW e1, NEW e2, NEW depth, NEW gap, IsUndescribed(m, k)
  PROVE  IsUndescribed(AG!Verified(m, e1, e2, depth, gap), k)
BY ReassessedMoment DEF AG!Verified

LEMMA CoachedMoments ==
  DOMAIN AG!Coached = CoachFields /\ AllUndescribed(AG!Coached.moments)
BY DEF AG!Coached, AG!CoachedFrom, CoachFields, AllUndescribed, IsUndescribed, AG!Moment, MomentFields

LEMMA CoachTactics ==
  /\ \A g, r : Delayed \notin AG!T!MateSigns(g, r)
  /\ \A a, b, c : Delayed \notin AG!C!ThreatDelta(a, b, c)
<1>1. \A g, r : Delayed \notin AG!T!MateSigns(g, r)
  BY DEF Delayed, AG!T!MateSigns
<1>2. \A a, b, c : Delayed \notin AG!C!ThreatDelta(a, b, c)
  BY DEF Delayed, AG!C!ThreatDelta
<1>. QED  BY <1>1, <1>2

\* A described moment owes the sign to its own line and reply.
LEMMA DescribedMoment ==
  ASSUME NEW m, NEW k, IsUndescribed(m, k)
  PROVE  LET d == AG!Described(m)
         IN  /\ DOMAIN d = MomentFields
             /\ LossIsOf(d.signs, d.reply, AG!At(k).pv)
<1> DEFINE d == AG!Described(m)
<1>1. DOMAIN d = MomentFields /\ d.reply = AG!ReplyOf(m)
  BY DEF AG!Described, IsUndescribed, MomentFields
<1>2. ASSUME Delayed \in d.signs PROVE Delayed \in AG!LineSigns(m)
  <2>1. Delayed \notin AG!TraceSigns(m) /\ Delayed \notin AG!GameSigns(m)
    BY DEF AG!TraceSigns, AG!GameSigns, AG!Ev!When, Delayed
  <2>2. Delayed \notin m.signs
    BY DEF IsUndescribed
  <2>. QED  BY <1>2, <2>1, <2>2, CoachTactics DEF AG!Described, AG!Ev!When, Delayed, IsUndescribed, MomentFields
<1>3. ASSUME Delayed \in AG!LineSigns(m)
      PROVE  /\ AG!ReplyOf(m) # None
             /\ Delayed \in Ev!Materialization(AG!ReplyOf(m), AG!At(k).pv)
  BY <1>3, SameMaterialization DEF AG!LineSigns, IsUndescribed
<1>4. ASSUME Delayed \in d.signs
      PROVE  LET line == AG!At(k).pv IN d.reply # None /\ line # <<>> /\ Head(line) = d.reply.ply
  BY <1>1, <1>2, <1>3, <1>4, LaterLossNeedsTheLine
<1>. QED  BY <1>1, <1>4 DEF LossIsOf, Delayed

MovesLose == LossIsOf(evidence.signs, evidence.strongest, evidence.line)
MomentsLose ==
  coaching # None =>
    \A k \in DOMAIN coaching.moments :
      LossIsOf(coaching.moments[k].signs, coaching.moments[k].reply, AG!At(k).pv)

LEMMA EnrichLoses ==
  ASSUME MovesLose, [Next]_vars
  PROVE  MovesLose'
<1>1. CASE Enrich
  <2>1. /\ evidence'.signs = Signs
        /\ evidence'.strongest = StrongestReply
        /\ evidence'.line = ForcedLine.line
    BY <1>1 DEF Enrich
  <2>. QED  BY <2>1, SignsOfMove, LaterLossNeedsTheLine DEF MovesLose, LossIsOf, Delayed
<1>2. CASE ~Enrich
  <2>1. UNCHANGED evidence
    BY <1>2 DEF Next, Ask, SearchBefore, SearchAfter, NoSecondLook, SecondLook, SecondLookFails, Standard,
       NeedsNoVerification, Verify, Escalate, VerificationFails, Judge, EngineFails, Stop, vars
  <2>. QED  BY <2>1 DEF MovesLose
<1>. QED  BY <1>1, <1>2

\* Moments that are not described say nothing that could be wrong.
LEMMA UndescribedIsSafe ==
  ASSUME AllUndescribed(coaching.moments)'
  PROVE  MomentsLose'
BY DEF MomentsLose, AllUndescribed, IsUndescribed, LossIsOf, Delayed

LEMMA VerifyGameKeeps ==
  ASSUME CoachInv, AG!VerifyGame
  PROVE  CoachInv' /\ AllUndescribed(coaching.moments)'
<1>1. PICK verified :
        /\ AG!Adopt(verified, AG!Doubtful(verified)) /\ DOMAIN verified = DOMAIN coaching.moments
        /\ \A k \in DOMAIN verified : \E e1, e2, gap :
             verified[k] = AG!Verified(coaching.moments[k], e1, e2, coaching.depth, gap)
  BY Zenon DEF AG!VerifyGame
<1>2. DOMAIN coaching = CoachFields /\ AllUndescribed(coaching.moments)
  BY DEF CoachInv, AG!VerifyGame, Working
<1>3. ASSUME NEW k \in DOMAIN verified PROVE IsUndescribed(verified[k], k)
  <2>1. PICK e1, e2, gap : verified[k] = AG!Verified(coaching.moments[k], e1, e2, coaching.depth, gap)
    BY <1>1
  <2>2. IsUndescribed(coaching.moments[k], k)
    BY <1>1, <1>2 DEF AllUndescribed
  <2>. QED  BY <2>1, <2>2, VerifiedMoment
<1>4. coaching'.moments = verified /\ DOMAIN coaching' = CoachFields /\ stage' \in {"praise", "escalate"}
  BY <1>1, <1>2 DEF AG!Adopt, CoachFields
<1>. QED  BY <1>3, <1>4 DEF CoachInv, AllUndescribed

LEMMA EscalateMomentKeeps ==
  ASSUME CoachInv, AG!EscalateMoment
  PROVE  CoachInv' /\ AllUndescribed(coaching.moments)'
<1> DEFINE j == AG!C!Lowest(pending)
           m == coaching.moments[j]
           strongest == AG!S!StrongestReply(AG!Position(j), AG!At(j))
           bare == [m EXCEPT !.signs = {}, !.reply = strongest]
<1>1. PICK e1, e2, depth :
        coaching' = [coaching EXCEPT !.moments[j] = AG!Verified(bare, e1, e2, depth, m.gap),
                                     !.escalated = depth]
  BY DEF AG!EscalateMoment
<1>2. DOMAIN coaching = CoachFields /\ AllUndescribed(coaching.moments)
  BY DEF CoachInv, AG!EscalateMoment, Working
<1>3. ASSUME j \in DOMAIN coaching.moments
      PROVE  IsUndescribed(AG!Verified(bare, e1, e2, depth, m.gap), j)
  <2>1. IsUndescribed(m, j)
    BY <1>2, <1>3 DEF AllUndescribed
  <2>2. IsUndescribed(bare, j)
    BY <2>1 DEF IsUndescribed, MomentFields
  <2>. QED  BY <2>2, VerifiedMoment
<1> DEFINE new == AG!Verified(bare, e1, e2, depth, m.gap)
<1>4. coaching'.moments = [coaching.moments EXCEPT ![j] = new] /\ DOMAIN coaching' = CoachFields
  <2> HIDE DEF j, m, bare, new
  <2>. QED  BY <1>1, <1>2 DEF CoachFields, new
<1>5. AllUndescribed(coaching.moments)'
  <2> HIDE DEF j, new
  <2>. QED  BY <1>2, <1>3, <1>4 DEF AllUndescribed, new
<1>6. stage' \in {"praise", "escalate"}
  BY DEF AG!EscalateMoment
<1>. QED  BY <1>4, <1>5, <1>6 DEF CoachInv

LEMMA GameLoses ==
  ASSUME CoachInv, MomentsLose, [AG!Next]_gameVars
  PROVE  CoachInv' /\ MomentsLose'
<1>1. CASE AG!Coach
  <2>1. /\ coaching'.moments = AG!Coached.moments /\ DOMAIN coaching' = CoachFields
        /\ stage' \in {"final", "praise", "verify"}
    BY <1>1, CoachedMoments DEF AG!Coach, AG!GoOnWith, CoachFields
  <2>. QED  BY <2>1, CoachedMoments, UndescribedIsSafe DEF CoachInv
<1>2. CASE AG!VerifyGame
  BY <1>2, VerifyGameKeeps, UndescribedIsSafe
<1>3. CASE AG!EscalateMoment
  BY <1>3, EscalateMomentKeeps, UndescribedIsSafe
<1>4. CASE AG!Praise \/ AG!Final
  <2>1. stage \in Working /\ stage' \in {"final", "describe"} /\ DOMAIN coaching = CoachFields
    BY <1>4 DEF AG!Praise, AG!Final, Working, CoachInv
  <2>2. coaching'.moments = coaching.moments /\ DOMAIN coaching' = CoachFields
    BY <1>4, <2>1 DEF AG!Praise, AG!Final, CoachFields
  <2>. QED  BY <2>1, <2>2, UndescribedIsSafe DEF CoachInv, AllUndescribed
<1>5. CASE AG!Describe
  <2>1. stage' = "done" /\ UNCHANGED evals /\ DOMAIN coaching = CoachFields
    BY <1>5 DEF AG!Describe, AG!Deliver, AG!End, CoachInv, Working
  <2>2. coaching'.moments = [k \in DOMAIN coaching.moments |-> AG!Described(coaching.moments[k])]
    BY <1>5, <2>1 DEF AG!Describe, AG!Deliver, AG!DescribedBy, CoachFields
  <2>3. AllUndescribed(coaching.moments)
    BY <1>5 DEF AG!Describe, CoachInv, Working
  <2>4. ASSUME NEW k \in DOMAIN coaching'.moments
        PROVE  LossIsOf(coaching'.moments[k].signs, coaching'.moments[k].reply, AG!At(k).pv)
    BY <2>2, <2>3, DescribedMoment DEF AllUndescribed
  <2>5. \A k : (AG!At(k))' = AG!At(k)
    BY <2>1 DEF AG!At
  <2>. QED  BY <2>1, <2>4, <2>5 DEF CoachInv, MomentsLose, Working
<1>6. CASE AG!AskGame \/ AG!Scan \/ AG!Count
  <2>1. coaching' = None /\ stage' \notin Working
    BY <1>6 DEF AG!AskGame, AG!Scan, AG!Count, AG!Refuse, AG!End, Working, CoachInv
  <2>. QED  BY <2>1 DEF CoachInv, MomentsLose
<1>7. CASE AG!EngineFailsGame
  <2>1. stage' = "done" /\ UNCHANGED <<evals, coaching>>
    BY <1>7 DEF AG!EngineFailsGame, AG!Refuse, AG!End
  <2>. QED  BY <2>1 DEF CoachInv, MomentsLose, AG!At, Working
<1>8. CASE AG!StopGame \/ UNCHANGED gameVars
  BY <1>8 DEF AG!StopGame, AG!agVars, gameVars, CoachInv, MomentsLose, AG!At, AllUndescribed, IsUndescribed
<1>. QED  BY <1>1, <1>2, <1>3, <1>4, <1>5, <1>6, <1>7, <1>8 DEF AG!Next

\* A material loss that classify_move or analyze_game lays to the opponent's
\* reply, and that comes later than the reply itself, was seen on a line that
\* begins with this reply, whatever the searches answer and however deep they go.
THEOREM LossesAreTheReplys == ToolsSpec => []LossIsTheReplys
<1> DEFINE Inv == CoachInv /\ MomentsLose /\ MovesLose
<1>1. ToolsInit => Inv
  BY DEF ToolsInit, Init, AG!Init, Blank, CoachInv, MomentsLose, MovesLose, LossIsOf, Working
<1>2. ASSUME Inv, [ToolsNext]_toolsVars PROVE Inv'
  <2>1. [Next]_vars /\ [AG!Next]_gameVars
    BY <1>2 DEF ToolsNext, toolsVars, MoveStep, TopStep, GameStep
  <2>. QED  BY <1>2, <2>1, GameLoses, EnrichLoses
<1>3. Inv => LossIsTheReplys
  BY DEF MomentsLose, MovesLose, LossIsTheReplys
<1>. QED  BY <1>1, <1>2, <1>3, PTL DEF ToolsSpec

---------------------------------------------------------------------------
\* The order of the candidates of top_moves.

\* A set of numbers, each in front of some of the others: every place is taken.
InFront(r, j, k) == r[j] > r[k] \/ (r[j] = r[k] /\ j < k)
Ahead(r, k) == {j \in DOMAIN r : InFront(r, j, k)}

LEMMA AheadGrows ==
  ASSUME NEW Keys, Keys \subseteq Int, IsFiniteSet(Keys), NEW r \in [Keys -> Int],
         NEW j \in Keys, NEW k \in Keys, InFront(r, j, k)
  PROVE  Cardinality(Ahead(r, j)) < Cardinality(Ahead(r, k))
<1>1. Ahead(r, j) \subseteq Ahead(r, k) /\ j \in Ahead(r, k) \ Ahead(r, j)
  <2>1. ASSUME NEW i \in Ahead(r, j) PROVE i \in Ahead(r, k)
    <3>1. i \in Keys /\ InFront(r, i, j)
      BY DEF Ahead
    <3>2. r[i] \in Int /\ r[j] \in Int /\ r[k] \in Int /\ i \in Int /\ j \in Int /\ k \in Int
      BY <3>1
    <3>. QED  BY <3>1, <3>2 DEF Ahead, InFront
  <2>2. j \in Ahead(r, k)
    BY DEF Ahead
  <2>3. ~InFront(r, j, j)
    <3>1. r[j] \in Int /\ j \in Int
      OBVIOUS
    <3>. QED  BY <3>1 DEF InFront
  <2>. QED  BY <2>1, <2>2, <2>3 DEF Ahead
<1>2. Ahead(r, k) \subseteq Keys
  BY DEF Ahead
<1>3. IsFiniteSet(Ahead(r, k))
  BY <1>2, FS_Subset
<1>. QED  BY <1>1, <1>3, FS_Subset, FS_CardinalityType

LEMMA PlacesAreTaken ==
  ASSUME NEW n \in Nat, NEW r \in [1..n -> Int], NEW i \in 1..n
  PROVE  \E k \in 1..n : Cardinality(Ahead(r, k)) = i - 1
<1> DEFINE place == [k \in 1..n |-> Cardinality(Ahead(r, k))]
<1>1. IsFiniteSet(1..n) /\ Cardinality(1..n) = n
  BY FS_Interval
<1>2. ASSUME NEW k \in 1..n PROVE Cardinality(Ahead(r, k)) \in 0..(n - 1)
  <2>1. Ahead(r, k) \subseteq (1..n) \ {k}
    BY DEF Ahead, InFront
  <2>2. IsFiniteSet((1..n) \ {k}) /\ Cardinality((1..n) \ {k}) = n - 1
    BY <1>1, FS_RemoveElement
  <2>. QED  BY <2>1, <2>2, FS_Subset, FS_CardinalityType
<1>3. ASSUME NEW j \in 1..n, NEW k \in 1..n, j # k
      PROVE  Cardinality(Ahead(r, j)) # Cardinality(Ahead(r, k))
  <2>1. InFront(r, j, k) \/ InFront(r, k, j)
    BY <1>3 DEF InFront
  <2>2. InFront(r, j, k) => Cardinality(Ahead(r, j)) < Cardinality(Ahead(r, k))
    BY <1>1, AheadGrows
  <2>3. InFront(r, k, j) => Cardinality(Ahead(r, k)) < Cardinality(Ahead(r, j))
    BY <1>1, AheadGrows
  <2>. QED  BY <1>2, <2>1, <2>2, <2>3
<1>4. place \in Injection(1..n, 0..(n - 1))
  <2>1. place \in [1..n -> 0..(n - 1)]
    BY <1>2
  <2>2. \A j, k \in 1..n : place[j] = place[k] => j = k
    BY <1>3
  <2>. QED  BY <2>1, <2>2 DEF Injection, IsInjective
<1>5. IsFiniteSet(0..(n - 1)) /\ Cardinality(0..(n - 1)) = n
  BY FS_Interval
<1>6. place \in Surjection(1..n, 0..(n - 1))
  <2>. HIDE DEF place
  <2>. QED  BY <1>1, <1>4, <1>5, FS_Injection
<1>7. \E k \in 1..n : place[k] = i - 1
  <2>. HIDE DEF place
  <2>. QED  BY <1>6 DEF Surjection
<1>. QED  BY <1>7

---------------------------------------------------------------------------
ItemFields ==
  {"move", "cp", "mate", "post", "postMate", "postCp", "claimsAfter", "multipv", "sources", "madeUp"}

\* A candidate whose numbers are in scale, and none that mates where the game is
\* drawn; one that was made up has a gain.
ItemFits(item) ==
  /\ DOMAIN item = ItemFields
  /\ IsScore(item.cp) /\ IsScore(item.postCp)
  /\ IsDistance(item.mate) /\ IsDistance(item.postMate)
  /\ TM!Drawn(item.post) => item.mate = None /\ item.postMate = None
  /\ item.madeUp \in BOOLEAN
  /\ item.madeUp => item.postMate # None \/ item.postCp # None

Listed(list) == \E n \in Nat : DOMAIN list = 1..n
ItemsFit(list) == Listed(list) /\ \A k \in DOMAIN list : ItemFits(list[k])
Descending(turn, list) ==
  /\ ItemsFit(list)
  /\ \A j, k \in DOMAIN list : j < k => TM!Rank(turn, list[j]) >= TM!Rank(turn, list[k])

LEMMA ForEither ==
  ASSUME NEW color, NEW x \in Int, None \notin Int
  PROVE  /\ E!For(color, x) = TM!E!For(color, x) /\ E!For(color, x) \in Int
         /\ E!For(color, x) = x \/ E!For(color, x) = -x
<1>1. CASE color = "white"
  BY <1>1 DEF E!For, E!Sign, TM!E!For, TM!E!Sign
<1>2. CASE color # "white"
  BY <1>2 DEF E!For, E!Sign, TM!E!For, TM!E!Sign
<1>. QED  BY <1>1, <1>2

LEMMA ForFits ==
  ASSUME NEW color, NEW x, None \notin Int
  PROVE  /\ IsScore(x) /\ x # None => /\ IsScore(TM!E!For(color, x)) /\ TM!E!For(color, x) \in Int
                                      /\ E!For(color, x) = TM!E!For(color, x)
         /\ IsDistance(x) /\ x # None => /\ IsDistance(TM!E!For(color, x)) /\ TM!E!For(color, x) \in Int
                                         /\ E!For(color, x) = TM!E!For(color, x)
BY ForEither DEF IsScore, IsDistance

\* What clamping a score to the ceiling keeps of it.
LEMMA TheCeilingKeeps ==
  ASSUME NEW x \in Int
  PROVE  LET y == TM!Clamped(-TM!RankCeiling, TM!RankCeiling, x)
         IN  /\ y \in Int /\ (y > 9000 <=> x > 9000) /\ (y < -9000 <=> x < -9000)
             /\ (-9000 <= x /\ x <= 9000 => y = x)
BY DEF TM!Clamped, TM!RankCeiling

LEMMA EffectiveNumbers ==
  ASSUME NEW item, ItemFits(item)
  PROVE  /\ IsDistance(TM!EffMate(item)) /\ IsScore(TM!EffCp(item))
         /\ TM!Drawn(item.post) => TM!EffMate(item) = None
BY DEF ItemFits, TM!EffMate, TM!EffCp, IsDistance, IsScore

\* What a rank says of the mover's mate or else of his score.
RankSaysMate(item, mate, rank) ==
  mate # None =>
    /\ ~TM!Drawn(item.post) /\ mate \in Int /\ -1000 < mate /\ mate < 1000 /\ mate # 0
    /\ item.post # "checkmate" /\ mate > 0 => rank = 10000 - mate
    /\ item.post # "checkmate" /\ mate < 0 => rank = -10000 - mate

RankSaysScore(item, mate, x, rank) ==
  item.post # "checkmate" /\ mate = None =>
    /\ x \in Int /\ (rank > 9000 <=> x > 9000) /\ (rank < -9000 <=> x < -9000)
    /\ -9000 <= x /\ x <= 9000 => rank = x

RankSays(item, mate, x, rank) ==
  /\ rank \in Int
  /\ item.post = "checkmate" => rank = 10000
  /\ RankSaysMate(item, mate, rank)
  /\ RankSaysScore(item, mate, x, rank)

ScoreFor(turn, item) ==
  IF TM!Drawn(item.post) \/ E!For(turn, TM!EffCp(item)) = None THEN 0 ELSE E!For(turn, TM!EffCp(item))

LEMMA RankTells ==
  ASSUME NEW turn, NEW item, ItemFits(item), None \notin Int
  PROVE  RankSays(item, E!For(turn, TM!EffMate(item)), ScoreFor(turn, item), TM!Rank(turn, item))
<1> DEFINE m == TM!EffMate(item)
           cp == TM!EffCp(item)
           d == TM!E!For(turn, m)
           x == TM!E!For(turn, cp)
           y == TM!Clamped(-TM!RankCeiling, TM!RankCeiling, x)
           rank == TM!Rank(turn, item)
           worth == ScoreFor(turn, item)
<1>1. IsDistance(m) /\ IsScore(cp) /\ (TM!Drawn(item.post) => m = None)
  BY EffectiveNumbers
<1>2. m # None => IsDistance(d) /\ d \in Int /\ E!For(turn, m) = d
  BY <1>1, ForFits
<1>3. cp # None => x \in Int /\ E!For(turn, cp) = x
  BY <1>1, ForFits
<1>4. rank = IF item.post = "checkmate" THEN 10000
             ELSE IF TM!Drawn(item.post) THEN 0
             ELSE IF m # None THEN IF d > 0 THEN 10000 - d ELSE -10000 - d
             ELSE IF cp # None THEN y
             ELSE 0
  BY DEF TM!Rank, TM!RankMate
<1>5. E!For(turn, None) = None
  BY DEF E!For
<1>6. worth = IF TM!Drawn(item.post) \/ E!For(turn, cp) = None THEN 0 ELSE E!For(turn, cp)
  BY DEF ScoreFor
<1>7. x \in Int => /\ y \in Int /\ (y > 9000 <=> x > 9000) /\ (y < -9000 <=> x < -9000)
                   /\ (-9000 <= x /\ x <= 9000 => y = x)
  BY TheCeilingKeeps
<1>. SUFFICES RankSays(item, E!For(turn, m), worth, rank)
  OBVIOUS
<1>. HIDE DEF m, cp, d, x, y, rank, worth
<1>8. CASE m # None
  <2>1. IsDistance(d) /\ d \in Int /\ E!For(turn, m) = d /\ ~TM!Drawn(item.post)
    BY <1>1, <1>2, <1>8
  <2>2. -1000 < d /\ d < 1000 /\ d # 0 /\ d # None
    BY <2>1 DEF IsDistance
  <2>3. rank = IF item.post = "checkmate" THEN 10000 ELSE IF d > 0 THEN 10000 - d ELSE -10000 - d
    BY <1>4, <1>8, <2>1
  <2>. QED  BY <2>1, <2>2, <2>3 DEF RankSays, RankSaysMate, RankSaysScore
<1>9. CASE m = None
  <2>1. rank = IF item.post = "checkmate" THEN 10000
               ELSE IF TM!Drawn(item.post) THEN 0 ELSE IF cp # None THEN y ELSE 0
    BY <1>4, <1>9
  <2>2. cp # None => worth = IF TM!Drawn(item.post) THEN 0 ELSE x
    BY <1>3, <1>6
  <2>3. cp = None => worth = 0
    BY <1>5, <1>6
  <2>4. CASE item.post # "checkmate" /\ ~TM!Drawn(item.post) /\ cp # None
    BY <1>3, <1>5, <1>7, <1>9, <2>1, <2>2, <2>4 DEF RankSays, RankSaysMate, RankSaysScore
  <2>5. CASE item.post # "checkmate" /\ (TM!Drawn(item.post) \/ cp = None)
    <3>1. rank = 0 /\ worth = 0
      BY <1>6, <2>1, <2>3, <2>5
    <3>. QED  BY <1>5, <1>9, <2>5, <3>1 DEF RankSays, RankSaysMate, RankSaysScore
  <2>6. CASE item.post = "checkmate"
    BY <1>5, <1>9, <2>1, <2>6 DEF RankSays, RankSaysMate, RankSaysScore
  <2>. QED  BY <2>4, <2>5, <2>6
<1>. QED  BY <1>8, <1>9

\* A row that is read as it is meant promises what the ranking reads in it.
LEMMA MeantIsPromised ==
  ASSUME NEW item, ItemFits(item), ReadAsMeant(item), None \notin Int
  PROVE  /\ PromisedMate(item) = E!For(Root.turn, TM!EffMate(item))
         /\ PromisedMate(item) = None => PromisedCp(item) = E!For(Root.turn, TM!EffCp(item))
<1>1. CASE ~item.madeUp
  BY <1>1 DEF PromisedMate, PromisedCp, Turned, ItemFits
<1>2. CASE item.madeUp
  <2>1. Root.turn = "white" /\ (item.postMate # None \/ item.mate = None)
    BY <1>2 DEF ReadAsMeant
  <2>2. item.postMate # None \/ item.postCp # None
    BY <1>2 DEF ItemFits
  <2>3. \A x : (x = None \/ x \in Int) => E!For("white", x) = x
    BY DEF E!For, E!Sign
  <2>4. /\ item.postMate = None \/ item.postMate \in Int
        /\ item.postCp = None \/ item.postCp \in Int
    BY DEF ItemFits, IsDistance, IsScore
  <2>5. E!For(Root.turn, TM!EffMate(item)) = item.postMate
    BY <2>1, <2>3, <2>4 DEF TM!EffMate
  <2>6. item.postMate = None => E!For(Root.turn, TM!EffCp(item)) = item.postCp
    BY <2>1, <2>2, <2>3, <2>4 DEF TM!EffCp
  <2>. QED  BY <1>2, <2>5, <2>6 DEF PromisedMate, PromisedCp
<1>. QED  BY <1>1, <1>2 DEF ItemFits

LEMMA RankOfMeant ==
  ASSUME NEW item, ItemFits(item), ReadAsMeant(item), None \notin Int
  PROVE  RankSays(item, PromisedMate(item), Centipawns(item), TM!Rank(Root.turn, item))
<1> DEFINE m == E!For(Root.turn, TM!EffMate(item))
           rank == TM!Rank(Root.turn, item)
<1>1. RankSays(item, m, ScoreFor(Root.turn, item), rank)
  BY RankTells
<1>2. m = PromisedMate(item)
        /\ (m = None => Centipawns(item) = ScoreFor(Root.turn, item))
  BY MeantIsPromised DEF Centipawns, ScoreFor
<1>. HIDE DEF m, rank
<1>. QED  BY <1>1, <1>2 DEF RankSays, RankSaysScore, m, rank

\* Ranks order what two rows promise.
LEMMA RanksOrder ==
  ASSUME NEW a, NEW b, NEW ra, NEW rb, ra >= rb, None \notin Int,
         RankSays(a, PromisedMate(a), Centipawns(a), ra),
         RankSays(b, PromisedMate(b), Centipawns(b), rb)
  PROVE  InOrder(a, b)
<1>1. ASSUME NEW i, NEW r, RankSays(i, PromisedMate(i), Centipawns(i), r)
      PROVE  /\ r \in Int /\ (Winning(i) <=> r > 9000) /\ (Losing(i) <=> r < -9000)
             /\ Mating(i) /\ i.post # "checkmate" => PromisedMate(i) \in Int /\ r = 10000 - PromisedMate(i)
             /\ i.post = "checkmate" => r = 10000
             /\ Mating(i) /\ i.post # "checkmate" => PromisedMate(i) > 0
             /\ LosesToMate(i) => PromisedMate(i) \in Int /\ r = -10000 - PromisedMate(i)
             /\ ~Winning(i) /\ ~Losing(i) => Centipawns(i) = r
  <2> DEFINE m == PromisedMate(i)
             x == Centipawns(i)
  <2>1. /\ r \in Int /\ (i.post = "checkmate" => r = 10000)
        /\ RankSaysMate(i, m, r) /\ RankSaysScore(i, m, x, r)
    BY <1>1 DEF RankSays
  <2>2. m # None => x = 0
    BY DEF Centipawns, PromisedCp
  <2>3. /\ Mating(i) <=> (i.post = "checkmate" \/ (m # None /\ m > 0))
        /\ LosesToMate(i) <=> (i.post # "checkmate" /\ m # None /\ m < 0)
    BY DEF Mating, LosesToMate
  <2>4. /\ Winning(i) <=> (Mating(i) \/ (~LosesToMate(i) /\ x > 9000))
        /\ Losing(i) <=> (LosesToMate(i) \/ (~Mating(i) /\ x < -9000))
    BY DEF Winning, Losing
  <2>. HIDE DEF m, x
  <2>5. CASE i.post = "checkmate"
    BY <2>1, <2>3, <2>4, <2>5
  <2>6. CASE i.post # "checkmate" /\ m # None
    BY <2>1, <2>2, <2>3, <2>4, <2>6 DEF RankSaysMate, m, x
  <2>7. CASE i.post # "checkmate" /\ m = None
    BY <2>1, <2>3, <2>4, <2>7 DEF RankSaysScore, m, x
  <2>. QED  BY <2>5, <2>6, <2>7
<1>2. /\ ra \in Int /\ (Winning(a) <=> ra > 9000) /\ (Losing(a) <=> ra < -9000)
      /\ rb \in Int /\ (Winning(b) <=> rb > 9000) /\ (Losing(b) <=> rb < -9000)
  BY <1>1
<1>3. Mating(a) /\ Mating(b) /\ b.post # "checkmate" =>
        a.post = "checkmate" \/ PromisedMate(a) <= PromisedMate(b)
  BY <1>1
<1>4. LosesToMate(a) /\ LosesToMate(b) => PromisedMate(a) <= PromisedMate(b)
  BY <1>1
<1>5. ~(Winning(a) \/ Losing(a) \/ Winning(b) \/ Losing(b)) => Centipawns(b) <= Centipawns(a)
  BY <1>1
<1>. QED  BY <1>2, <1>3, <1>4, <1>5 DEF InOrder

LEMMA OrderRanksOutcomes ==
  ASSUME step = "respond" => Descending(Facts[call.place].turn, items), None \notin Int
  PROVE  RankedByOutcome
<1>. SUFFICES ASSUME step = "respond", NEW j \in DOMAIN items, NEW k \in DOMAIN items, j < k,
                     ReadAsMeant(items[j]), ReadAsMeant(items[k])
              PROVE  InOrder(items[j], items[k])
  BY DEF RankedByOutcome
<1> DEFINE a == items[j]
           b == items[k]
<1>1. ItemFits(a) /\ ItemFits(b) /\ TM!Rank(Root.turn, a) >= TM!Rank(Root.turn, b)
  BY DEF Descending, ItemsFit, Root
<1>2. /\ RankSays(a, PromisedMate(a), Centipawns(a), TM!Rank(Root.turn, a))
      /\ RankSays(b, PromisedMate(b), Centipawns(b), TM!Rank(Root.turn, b))
  BY <1>1, RankOfMeant
<1>. QED  BY <1>1, <1>2, RanksOrder

\* Sorting puts the candidates in order and leaves them as they are.
LEMMA RankedIsInOrder ==
  ASSUME NEW turn, NEW list, ItemsFit(list), None \notin Int
  PROVE  Descending(turn, TM!Ranked(turn, list))
<1>1. PICK n \in Nat : DOMAIN list = 1..n
  BY DEF ItemsFit, Listed
<1> DEFINE r == [k \in 1..n |-> TM!Rank(turn, list[k])]
           IsAt(k, i) == Cardinality(Ahead(r, k)) = i - 1
           At(i) == CHOOSE k \in DOMAIN list : Cardinality({j \in DOMAIN list : TM!Ahead(turn, list, j, k)}) = i - 1
           sorted == TM!Ranked(turn, list)
<1>2. r \in [1..n -> Int]
  BY <1>1, RankTells DEF RankSays, ItemsFit
<1>3. \A k \in 1..n : {j \in DOMAIN list : TM!Ahead(turn, list, j, k)} = Ahead(r, k)
  BY <1>1 DEF Ahead, InFront, TM!Ahead
<1>4. \A i \in 1..n : At(i) \in 1..n /\ IsAt(At(i), i)
  <2>. TAKE i \in 1..n
  <2>1. \E k \in 1..n : Cardinality(Ahead(r, k)) = i - 1
    <3>. HIDE DEF r
    <3>. QED  BY <1>2, PlacesAreTaken
  <2>2. \E k \in DOMAIN list : Cardinality({j \in DOMAIN list : TM!Ahead(turn, list, j, k)}) = i - 1
    BY <1>1, <1>3, <2>1
  <2>. QED  BY <1>1, <1>3, <2>2
<1>5. DOMAIN sorted = 1..n /\ \A i \in 1..n : sorted[i] = [list[At(i)] EXCEPT !.multipv = i]
  BY <1>1 DEF TM!Ranked, TM!Cardinality, Cardinality
<1>. HIDE DEF At, sorted
<1>6. \A i \in 1..n : ItemFits(sorted[i]) /\ TM!Rank(turn, sorted[i]) = r[At(i)]
  <2>. TAKE i \in 1..n
  <2>1. ItemFits(list[At(i)])
    BY <1>1, <1>4 DEF ItemsFit
  <2>2. sorted[i] = [list[At(i)] EXCEPT !.multipv = i] /\ r[At(i)] = TM!Rank(turn, list[At(i)])
    BY <1>4, <1>5
  <2>. HIDE DEF r
  <2>3. ItemFits(sorted[i])
    BY <2>1, <2>2 DEF ItemFits, ItemFields
  <2>4. TM!Rank(turn, sorted[i]) = TM!Rank(turn, list[At(i)])
    BY <2>1, <2>2 DEF TM!Rank, TM!EffMate, TM!EffCp, ItemFits, ItemFields
  <2>. QED  BY <2>2, <2>3, <2>4
<1>. HIDE DEF r
<1>7. ASSUME NEW i \in 1..n, NEW j \in 1..n, i < j PROVE r[At(i)] >= r[At(j)]
  <2>1. At(i) \in 1..n /\ At(j) \in 1..n /\ Cardinality(Ahead(r, At(i))) = i - 1
        /\ Cardinality(Ahead(r, At(j))) = j - 1
    BY <1>4
  <2>2. ~InFront(r, At(j), At(i))
    <3>1. IsFiniteSet(1..n) /\ 1..n \subseteq Int
      BY FS_Interval
    <3>2. InFront(r, At(j), At(i)) => Cardinality(Ahead(r, At(j))) < Cardinality(Ahead(r, At(i)))
      BY <1>2, <2>1, <3>1, AheadGrows
    <3>. QED  BY <1>7, <2>1, <3>2
  <2>. QED  BY <1>2, <2>1, <2>2 DEF InFront
<1>. QED  BY <1>5, <1>6, <1>7 DEF Descending, ItemsFit, Listed, sorted

LEMMA PrefixInOrder ==
  ASSUME NEW turn, NEW list, NEW n \in Nat, Descending(turn, list)
  PROVE  Descending(turn, TM!Prefix(list, n))
<1>1. PICK m \in Nat : DOMAIN list = 1..m
  BY DEF Descending, ItemsFit, Listed
<1>2. Len(list) = m
  BY <1>1
<1>3. PICK k \in Nat : k <= m /\ TM!Prefix(list, n) = SubSeq(list, 1, k)
  BY <1>2 DEF TM!Prefix
<1>4. DOMAIN TM!Prefix(list, n) = 1..k /\ \A i \in 1..k : TM!Prefix(list, n)[i] = list[i]
  BY <1>3
<1>. QED  BY <1>1, <1>3, <1>4 DEF Descending, ItemsFit, Listed

---------------------------------------------------------------------------
\* The score of an evaluation comes from the engine or from the end of the game.
LEMMA EvaluatedScore ==
  ASSUME NEW q, NEW said, InScale(said), None \notin Int
  PROVE  LET e == TM!E!FromEval(q, said, TM!E!Nothing)
         IN  /\ IsScore(e.cp) /\ IsDistance(e.mate)
             /\ TM!Drawn(q.terminal) => e.mate = None
<1> DEFINE e == TM!E!FromEval(q, said, TM!E!Nothing)
<1>1. /\ e.cp = IF q.terminal = "checkmate" THEN None ELSE IF q.terminal # None THEN 0 ELSE said.cp
      /\ e.mate = IF q.terminal = "checkmate" THEN (IF said.mate = None THEN 1 ELSE said.mate)
                  ELSE IF q.terminal # None THEN None ELSE said.mate
  BY DEF TM!E!FromEval, TM!E!IsOver
<1>. HIDE DEF e
<1>2. IsScore(e.cp) /\ IsDistance(e.mate)
  BY <1>1 DEF InScale, IsScore, IsDistance
<1>. QED  BY <1>1, <1>2 DEF TM!Drawn, e

LEMMA RowFits ==
  ASSUME NEW p, NEW said, NEW number, NEW wanted \in BOOLEAN, NEW posts, InScale(said), None \notin Int,
         wanted => \A k \in DOMAIN p.moves : posts[k] # None => InScale(posts[k])
  PROVE  /\ ItemFits(TM!Row(p, said, number, wanted, posts))
         /\ ~TM!Row(p, said, number, wanted, posts).madeUp
         /\ TM!Row(p, said, number, wanted, posts).post =
              IF said.best \in DOMAIN p.moves THEN Facts[p.moves[said.best].leads].terminal ELSE None
<1> DEFINE q == IF said.best \in DOMAIN p.moves THEN TM!After(p, said.best) ELSE p
           e == TM!E!FromEval(q, said, TM!E!Nothing)
           asked == said.best \in DOMAIN p.moves /\ TM!NeedsPost(p, said, wanted)
           post == IF asked THEN posts[said.best] ELSE TM!E!Nothing
           row == TM!Row(p, said, number, wanted, posts)
<1>1. IsScore(e.cp) /\ IsDistance(e.mate) /\ (TM!Drawn(q.terminal) => e.mate = None)
  BY EvaluatedScore
<1>2. /\ DOMAIN row = ItemFields /\ row.cp = e.cp /\ row.mate = e.mate /\ row.madeUp = FALSE
      /\ row.post = IF said.best \in DOMAIN p.moves THEN q.terminal ELSE None
      /\ row.postMate = IF post = None THEN None ELSE post.mate
      /\ row.postCp = IF post = None \/ post.mate # None THEN None ELSE post.cp
  BY DEF TM!Row, ItemFields
<1>3. asked => ~TM!Drawn(q.terminal) /\ (post # None => InScale(post))
  BY DEF TM!NeedsPost, TM!E!IsOver, TM!Drawn
<1>4. ~asked => post.mate = None /\ post.cp = None
  BY DEF TM!E!Nothing
<1>5. said.best \in DOMAIN p.moves => q.terminal = Facts[p.moves[said.best].leads].terminal
  BY DEF TM!After
<1>. HIDE DEF q, e, asked, post, row
<1>6. IsScore(row.postCp) /\ IsDistance(row.postMate)
  BY <1>2, <1>3, <1>4 DEF InScale, IsScore, IsDistance
<1>7. TM!Drawn(row.post) => row.mate = None /\ row.postMate = None
  BY <1>1, <1>2, <1>3, <1>4 DEF TM!Drawn
<1>. QED  BY <1>1, <1>2, <1>5, <1>6, <1>7 DEF ItemFits, row
---------------------------------------------------------------------------
\* What is taken for granted of the moves of a position and the answers after
\* them.
AnswersFit(p, posts) ==
  \A k \in DOMAIN p.moves :
    posts[k] # None => /\ InScale(posts[k])
                       /\ TM!Drawn(Facts[p.moves[k].leads].terminal) => posts[k].mate = None

MovesFit(p) ==
  /\ IsList(p.moves)
  /\ \A k \in DOMAIN p.moves :
       p.moves[k].zeroing /\ p.moves[k].mates => Facts[p.moves[k].leads].terminal = "checkmate"

LEMMA ListIsFinite ==
  ASSUME NEW f, IsList(f)
  PROVE  Listed(f) /\ IsFiniteSet(DOMAIN f) /\ DOMAIN f \subseteq Nat
<1>1. f \in Seq({f[k] : k \in DOMAIN f})
  BY DEF IsList
<1>2. PICK n \in Nat : DOMAIN f = 1..n
  BY <1>1
<1>3. IsFiniteSet(1..n)
  BY FS_Interval
<1>. QED  BY <1>2, <1>3 DEF Listed

\* A gain is one for the mover.
IsGain(g) ==
  /\ g.cp # None => g.cp \in Int /\ g.cp > 0
  /\ g.mate # None => g.mate \in Int /\ g.mate > 0

LEMMA GainsOf ==
  ASSUME NEW p, NEW posts, NEW k \in TM!E!ZeroingMoves(p), None \notin Int,
         posts[k] # None => IsWhole(posts[k])
  PROVE  LET g == TM!E!Gains(p, posts)[k]
         IN  /\ IsGain(g)
             /\ \/ g = TM!E!Nothing
                \/ p.moves[k].mates /\ g = [cp |-> None, mate |-> 1]
                \/ /\ ~p.moves[k].mates /\ posts[k] # None
                   /\ \/ posts[k].mate # None /\ g = [cp |-> None, mate |-> TM!E!For(p.turn, posts[k].mate)]
                      \/ posts[k].mate = None /\ posts[k].cp # None
                         /\ g = [cp |-> TM!E!For(p.turn, posts[k].cp), mate |-> None]
<1> DEFINE said == posts[k]
           g == TM!E!Gains(p, posts)[k]
           d == TM!E!For(p.turn, said.mate)
           x == TM!E!For(p.turn, said.cp)
<1>1. g = IF p.moves[k].mates THEN [cp |-> None, mate |-> 1]
          ELSE IF p.moves[k].over THEN TM!E!Nothing
          ELSE TM!E!Gain(p, said)
  BY DEF TM!E!Gains
<1>2. TM!E!Gain(p, said) =
        IF said = None THEN TM!E!Nothing
        ELSE IF said.mate # None THEN IF d > 0 THEN [cp |-> None, mate |-> d] ELSE TM!E!Nothing
        ELSE IF said.cp # None /\ x > 0 THEN [cp |-> x, mate |-> None] ELSE TM!E!Nothing
  BY DEF TM!E!Gain, TM!E!Failed
<1>3. /\ said # None /\ said.mate # None => d \in Int
      /\ said # None /\ said.cp # None => x \in Int
  BY ForEither DEF IsWhole
<1>4. IsGain(TM!E!Nothing) /\ IsGain([cp |-> None, mate |-> 1])
  BY DEF IsGain, TM!E!Nothing
<1>5. d \in Int /\ d > 0 => IsGain([cp |-> None, mate |-> d])
  BY DEF IsGain
<1>6. x \in Int /\ x > 0 => IsGain([cp |-> x, mate |-> None])
  BY DEF IsGain
<1>. HIDE DEF said, g, d, x
<1>. QED  BY <1>1, <1>2, <1>3, <1>4, <1>5, <1>6 DEF said, g, d, x

\* A gain in scale, and no mate where the game is drawn.
GainFits(p, k, g) ==
  /\ IsScore(g.cp) /\ IsDistance(g.mate)
  /\ TM!Drawn(Facts[p.moves[k].leads].terminal) => g.mate = None

LEMMA GainsFit ==
  ASSUME NEW p, NEW posts, MovesFit(p), AnswersFit(p, posts), None \notin Int,
         NEW k \in TM!E!ZeroingMoves(p)
  PROVE  GainFits(p, k, TM!E!Gains(p, posts)[k])
<1> DEFINE said == posts[k]
           g == TM!E!Gains(p, posts)[k]
           d == TM!E!For(p.turn, said.mate)
           x == TM!E!For(p.turn, said.cp)
           drawn == TM!Drawn(Facts[p.moves[k].leads].terminal)
<1>1. k \in DOMAIN p.moves /\ p.moves[k].zeroing
  BY DEF TM!E!ZeroingMoves
<1>2. said # None => InScale(said) /\ IsWhole(said) /\ (drawn => said.mate = None)
  BY <1>1 DEF AnswersFit, InScale, IsScore, IsDistance, IsWhole
<1>3. /\ said # None /\ said.mate # None => IsDistance(d)
      /\ said # None /\ said.cp # None => IsScore(x)
  BY <1>2, ForFits DEF InScale
<1>4. p.moves[k].mates => ~drawn
  BY <1>1 DEF MovesFit, TM!Drawn
<1>5. \/ g = TM!E!Nothing
      \/ p.moves[k].mates /\ g = [cp |-> None, mate |-> 1]
      \/ said # None /\ said.mate # None /\ g = [cp |-> None, mate |-> d]
      \/ said # None /\ said.cp # None /\ g = [cp |-> x, mate |-> None]
  BY <1>2, GainsOf
<1>6. IsScore(None) /\ IsDistance(None) /\ IsDistance(1)
  BY DEF IsScore, IsDistance
<1>. HIDE DEF said, g, d, x, drawn
<1>7. IsScore(g.cp) /\ IsDistance(g.mate) /\ (drawn => g.mate = None)
  BY <1>2, <1>3, <1>4, <1>5, <1>6 DEF TM!E!Nothing
<1>. QED  BY <1>7 DEF GainFits, g, drawn

\* There is a greatest of finitely many integers.
LEMMA GreatestOf ==
  ASSUME NEW Keys, Keys # {}, IsFiniteSet(Keys), NEW f, \A k \in Keys : f[k] \in Int
  PROVE  \E k \in Keys : \A j \in Keys : f[j] <= f[k]
<1> DEFINE n == Cardinality(Keys)
<1>1. n \in Nat /\ n # 0
  BY FS_CardinalityType, FS_EmptySet
<1>2. PICK g : g \in Bijection(1..n, Keys)
  BY FS_CardinalityType DEF ExistsBijection
<1> DEFINE r == [i \in 1..n |-> f[g[i]]]
<1>3. g \in [1..n -> Keys] /\ \A k \in Keys : \E i \in 1..n : g[i] = k
  BY <1>2 DEF Bijection, Injection, Surjection, IsInjective
<1>4. r \in [1..n -> Int] /\ 1 \in 1..n
  BY <1>1, <1>3
<1>5. \E i \in 1..n : Cardinality(Ahead(r, i)) = 0
  <2>. HIDE DEF r, n
  <2>1. \E i \in 1..n : Cardinality(Ahead(r, i)) = 1 - 1
    BY <1>1, <1>4, PlacesAreTaken
  <2>. QED  BY <2>1
<1>6. PICK i \in 1..n : Cardinality(Ahead(r, i)) = 0
  BY <1>5
<1>7. Ahead(r, i) = {}
  <2>1. IsFiniteSet(1..n) /\ Ahead(r, i) \subseteq 1..n
    BY <1>1, FS_Interval DEF Ahead
  <2>. HIDE DEF r, n
  <2>. QED  BY <1>6, <2>1, FS_Subset, FS_EmptySet
<1>8. ASSUME NEW j \in 1..n PROVE r[j] <= r[i]
  <2>1. ~InFront(r, j, i)
    BY <1>7 DEF Ahead
  <2>. HIDE DEF r, n
  <2>. QED  BY <1>4, <2>1 DEF InFront
<1>9. ASSUME NEW k \in Keys PROVE f[k] <= f[g[i]]
  <2>1. PICK j \in 1..n : g[j] = k
    BY <1>3
  <2>. QED  BY <1>8, <2>1
<1>. QED  BY <1>3, <1>9

\* The best gain is one of the gains, and none is better.
LEMMA BestGainIsBest ==
  ASSUME NEW p, NEW posts, IsList(p.moves), None \notin Int,
         \A k \in TM!E!ZeroingMoves(p) : posts[k] # None => IsWhole(posts[k])
  PROVE  LET gains == TM!E!Gains(p, posts)
             best == TM!E!BestGain(gains)
         IN  /\ best = TM!E!Nothing \/ \E k \in DOMAIN gains : best = gains[k]
             /\ IsGain(best)
             /\ \A k \in DOMAIN gains :
                  /\ gains[k].mate # None => best.mate # None
                  /\ gains[k].cp # None => \/ best.mate # None
                                           \/ best.cp # None /\ gains[k].cp <= best.cp
<1> DEFINE gains == TM!E!Gains(p, posts)
           best == TM!E!BestGain(gains)
           mating == {k \in DOMAIN gains : gains[k].mate # None}
           scored == {k \in DOMAIN gains : gains[k].cp # None}
<1>1. DOMAIN gains = TM!E!ZeroingMoves(p) /\ DOMAIN gains \subseteq DOMAIN p.moves
  BY DEF TM!E!Gains, TM!E!ZeroingMoves
<1>2. IsFiniteSet(DOMAIN gains)
  BY <1>1, ListIsFinite, FS_Subset
<1>3. \A k \in DOMAIN gains : IsGain(gains[k])
  BY <1>1, GainsOf
<1>4. best = IF mating # {} THEN gains[CHOOSE k \in mating : \A j \in mating : gains[k].mate <= gains[j].mate]
             ELSE IF scored # {} THEN gains[CHOOSE k \in scored : \A j \in scored : gains[j].cp <= gains[k].cp]
             ELSE TM!E!Nothing
  BY DEF TM!E!BestGain
<1>. HIDE DEF gains, best
<1>5. CASE mating # {}
  <2> DEFINE f == [k \in mating |-> gains[k].mate]
  <2>1. \A k \in mating : f[k] \in Nat
    BY <1>3 DEF IsGain
  <2>2. \E k \in mating : \A j \in mating : f[k] <= f[j]
    <3>. HIDE DEF f, mating
    <3>. QED  BY <1>5, <2>1, CP!LeastOf
  <2>3. \E k \in mating : \A j \in mating : gains[k].mate <= gains[j].mate
    BY <2>2
  <2>4. PICK k \in mating : best = gains[k]
    BY <1>4, <1>5, <2>3
  <2>. QED  BY <1>3, <2>4 DEF gains, best
<1>6. CASE mating = {} /\ scored # {}
  <2> DEFINE f == [k \in scored |-> gains[k].cp]
  <2>1. IsFiniteSet(scored) /\ \A k \in scored : f[k] \in Int
    BY <1>2, <1>3, FS_Subset DEF IsGain
  <2>2. \E k \in scored : \A j \in scored : f[j] <= f[k]
    <3>. HIDE DEF f, scored
    <3>. QED  BY <1>6, <2>1, GreatestOf
  <2>3. \E k \in scored : \A j \in scored : gains[j].cp <= gains[k].cp
    BY <2>2
  <2>4. PICK k \in scored : best = gains[k] /\ \A j \in scored : gains[j].cp <= gains[k].cp
    BY <1>4, <1>6, <2>3
  <2>. QED  BY <1>3, <1>6, <2>4 DEF gains, best
<1>7. CASE mating = {} /\ scored = {}
  <2>1. best = TM!E!Nothing
    BY <1>4, <1>7
  <2>2. IsGain(TM!E!Nothing)
    BY DEF IsGain, TM!E!Nothing
  <2>. QED  BY <1>7, <2>1, <2>2 DEF gains, best
<1>. QED  BY <1>5, <1>6, <1>7

LEMMA WinnerFits ==
  ASSUME NEW p, NEW posts, MovesFit(p), AnswersFit(p, posts), None \notin Int,
         TM!Wins(TM!WinningMove(p, posts).gain)
  PROVE  LET won == TM!WinningMove(p, posts)
         IN  won.move \in DOMAIN p.moves /\ GainFits(p, won.move, won.gain)
<1> DEFINE won == TM!WinningMove(p, posts)
           gains == TM!E!Gains(p, posts)
           best == TM!E!BestGain(gains)
           moves == {k \in DOMAIN gains : gains[k] = best}
<1>1. won.gain = best /\ best # TM!E!Nothing
  BY DEF TM!WinningMove, TM!Wins, TM!E!WinsByZeroing, TM!E!Nothing
<1>2. /\ DOMAIN gains \subseteq DOMAIN p.moves /\ DOMAIN gains \subseteq Nat
      /\ \A k \in DOMAIN gains : GainFits(p, k, gains[k])
  <2>1. DOMAIN gains = TM!E!ZeroingMoves(p) /\ DOMAIN gains \subseteq DOMAIN p.moves
    BY DEF TM!E!Gains, TM!E!ZeroingMoves
  <2>. QED  BY <2>1, GainsFit, ListIsFinite DEF MovesFit
<1>3. moves # {}
  <2>1. \A k \in TM!E!ZeroingMoves(p) : posts[k] # None => IsWhole(posts[k])
    BY DEF AnswersFit, InScale, IsScore, IsDistance, IsWhole, TM!E!ZeroingMoves
  <2>. QED  BY <1>1, <2>1, BestGainIsBest DEF MovesFit
<1>4. \E k \in moves : \A j \in moves : k <= j
  <2> DEFINE f == [k \in moves |-> k]
  <2>1. \A k \in moves : f[k] \in Nat
    BY <1>2
  <2>2. \E k \in moves : \A j \in moves : f[k] <= f[j]
    <3>. HIDE DEF f, moves
    <3>. QED  BY <1>3, <2>1, CP!LeastOf
  <2>. QED  BY <2>2
<1>5. won.move = CHOOSE k \in moves : \A j \in moves : k <= j
  BY <1>1 DEF TM!WinningMove
<1>. HIDE DEF won, gains, best
<1>6. won.move \in moves
  BY <1>4, <1>5
<1>. QED  BY <1>1, <1>2, <1>6 DEF won

LEMMA WithWinnerFits ==
  ASSUME NEW p, NEW list, NEW posts, MovesFit(p), AnswersFit(p, posts), ItemsFit(list), None \notin Int
  PROVE  ItemsFit(TM!WithWinner(p, list, posts))
<1> DEFINE won == TM!WinningMove(p, posts)
           new == TM!Synthetic(p, list, won)
<1>1. CASE ~TM!Wins(won.gain)
  BY <1>1 DEF TM!WithWinner
<1>2. CASE TM!Wins(won.gain)
  <2>1. won.move \in DOMAIN p.moves /\ GainFits(p, won.move, won.gain)
    BY <1>2, WinnerFits
  <2>2. PICK n \in Nat : DOMAIN list = 1..n
    BY DEF ItemsFit, Listed
  <2> DEFINE said == IF list = <<>> THEN TM!AsSaid(won.move, won.gain.cp, won.gain.mate)
                     ELSE TM!AsSaid(won.move, list[1].cp, list[1].mate)
             row == TM!Row(p, said, 1, FALSE, None)
  <2>3. InScale(said) /\ said.best = won.move
    <3>1. list # <<>> => ItemFits(list[1])
      BY <2>2 DEF ItemsFit
    <3>. QED  BY <2>1, <3>1 DEF InScale, ItemFits, GainFits, TM!AsSaid
  <2>4. ItemFits(row) /\ row.post = Facts[p.moves[won.move].leads].terminal
    <3>. HIDE DEF said, won
    <3>. QED  BY <2>1, <2>3, RowFits
  <2>5. new = [row EXCEPT !.postCp = won.gain.cp, !.postMate = won.gain.mate, !.madeUp = TRUE]
    BY DEF TM!Synthetic
  <2>6. ItemFits(new)
    <3>1. won.gain.mate # None \/ won.gain.cp # None
      BY <1>2 DEF TM!Wins, TM!E!WinsByZeroing
    <3>. HIDE DEF row, new, won
    <3>. QED  BY <2>1, <2>4, <2>5, <3>1 DEF ItemFits, ItemFields, GainFits
  <2>7. TM!WithWinner(p, list, posts) = IF list = <<>> THEN <<new>> ELSE [list EXCEPT ![1] = new]
    BY <1>2 DEF TM!WithWinner
  <2>. HIDE DEF new
  <2>. QED  BY <2>2, <2>6, <2>7 DEF ItemsFit, Listed
<1>. QED  BY <1>1, <1>2
---------------------------------------------------------------------------
\* What is ranked is in scale, what was ranked, stored or not, is in order.
TopInv ==
  /\ step \in {"search", "zeroing", "rank", "respond"} => call \in Calls
  /\ step \in {"zeroing", "rank"} => ItemsFit(items)
  /\ \A x \in DOMAIN cache : Descending(Facts[x[1]].turn, cache[x])
  /\ step = "respond" => Descending(Facts[call.place].turn, items)

LEMMA FitsFacts ==
  ASSUME NEW c, FitsRanking(c)
  PROVE  /\ TM!Wanted(c) \in Nat
         /\ MovesFit(Facts[c.place])
         /\ \A posts \in Posts[c.place] : AnswersFit(Facts[c.place], posts)
         /\ \A list \in Lists[c.place] : Listed(list) /\ \A k \in DOMAIN list : InScale(list[k])
<1> DEFINE p == Facts[c.place]
<1>1. TM!Wanted(c) \in Nat
  BY DEF FitsRanking, TM!Clamped, TM!Wanted, TM!MaxTop
<1>2. MovesFit(p)
  BY DEF FitsRanking, MovesFit, E!ZeroingMoves
<1>3. \A posts \in Posts[c.place] : AnswersFit(p, posts)
  BY DEF FitsRanking, AnswersFit
<1>4. ASSUME NEW list \in Lists[c.place] PROVE Listed(list) /\ \A k \in DOMAIN list : InScale(list[k])
  <2>1. list \in Seq({list[k] : k \in DOMAIN list}) /\ \A k \in DOMAIN list : InScale(list[k])
    BY DEF FitsRanking, IsList
  <2>. QED  BY <2>1 DEF Listed
<1>. QED  BY <1>1, <1>2, <1>3, <1>4

LEMMA SearchTopFits ==
  ASSUME TopInv, TM!SearchTop, \A c \in Calls : FitsRanking(c), None \notin Int
  PROVE  ItemsFit(items')
<1> DEFINE p == Facts[call.place]
           wanted == TM!Claimable(p)
<1>1. PICK list \in Lists[call.place], posts \in Posts[call.place] :
        items' = [k \in DOMAIN list |-> TM!Row(p, list[k], k, wanted, posts)]
  BY DEF TM!SearchTop, TM!Here
<1>2. FitsRanking(call)
  BY DEF TopInv, TM!SearchTop
<1>3. AnswersFit(p, posts) /\ Listed(list) /\ \A k \in DOMAIN list : InScale(list[k])
  BY <1>2, FitsFacts
<1>4. ASSUME NEW k \in DOMAIN list PROVE ItemFits(TM!Row(p, list[k], k, wanted, posts))
  <2>1. wanted \in BOOLEAN
    BY DEF TM!Claimable
  <2>2. InScale(list[k]) /\ \A j \in DOMAIN p.moves : posts[j] # None => InScale(posts[j])
    BY <1>3 DEF AnswersFit
  <2>. HIDE DEF p, wanted
  <2>. QED  BY <2>1, <2>2, RowFits
<1>. HIDE DEF p, wanted
<1>. QED  BY <1>1, <1>3, <1>4 DEF ItemsFit, Listed

LEMMA TopKeeps ==
  ASSUME TopInv, [TM!TopNext]_topVars, \A c \in Calls : FitsRanking(c), None \notin Int
  PROVE  TopInv'
<1>1. CASE TM!AskTop
  <2>1. PICK c \in Calls :
          /\ call' = c /\ UNCHANGED cache
          /\ \/ step' \in {"done", "search"}
             \/ /\ step' = "respond" /\ TM!Key(c) \in DOMAIN cache
                /\ items' = TM!Prefix(cache[TM!Key(c)], TM!Wanted(c))
    BY <1>1 DEF TM!AskTop, TM!Refuse, TM!End, TM!IsStored
  <2>2. ASSUME step' = "respond" PROVE Descending(Facts[c.place].turn, items')
    <3>1. Descending(Facts[c.place].turn, cache[TM!Key(c)])
      BY <2>1, <2>2 DEF TopInv, TM!Key
    <3>2. TM!Wanted(c) \in Nat
      BY FitsFacts
    <3>. QED  BY <2>1, <2>2, <3>1, <3>2, PrefixInOrder
  <2>. QED  BY <2>1, <2>2 DEF TopInv
<1>2. CASE TM!SearchTop
  BY <1>2, SearchTopFits DEF TopInv, TM!SearchTop
<1>3. CASE TM!SearchZeroing
  <2>1. PICK posts \in Posts[call.place] : items' = TM!WithWinner(Facts[call.place], items, posts)
    BY <1>3 DEF TM!SearchZeroing, TM!Here
  <2>2. FitsRanking(call) /\ ItemsFit(items)
    BY <1>3 DEF TM!SearchZeroing, TopInv
  <2>3. ItemsFit(items')
    BY <2>1, <2>2, FitsFacts, WithWinnerFits
  <2>. QED  BY <1>3, <2>3 DEF TopInv, TM!SearchZeroing
<1>4. CASE TM!RankTop
  <2> DEFINE turn == Facts[call.place].turn
             list == TM!Ranked(turn, items)
  <2>1. FitsRanking(call) /\ ItemsFit(items) /\ call \in Calls
    BY <1>4 DEF TM!RankTop, TopInv
  <2>2. Descending(turn, list)
    BY <2>1, RankedIsInOrder
  <2>3. /\ cache' = [x \in DOMAIN cache \cup {TM!Key(call)} |-> IF x = TM!Key(call) THEN list ELSE cache[x]]
        /\ items' = TM!Prefix(list, TM!Wanted(call))
        /\ step' = "respond" /\ UNCHANGED call
    BY <1>4 DEF TM!RankTop, TM!Here
  <2>4. Descending(turn, items')
    <3>1. TM!Wanted(call) \in Nat
      BY <2>1, FitsFacts
    <3>. HIDE DEF list, turn
    <3>. QED  BY <2>2, <2>3, <3>1, PrefixInOrder
  <2>5. ASSUME NEW x \in DOMAIN cache' PROVE Descending(Facts[x[1]].turn, cache'[x])
    <3>1. CASE x = TM!Key(call)
      <4>1. Facts[x[1]].turn = turn /\ cache'[x] = list
        BY <2>3, <3>1 DEF TM!Key
      <4>. HIDE DEF list, turn
      <4>. QED  BY <2>2, <4>1
    <3>2. CASE x # TM!Key(call)
      BY <2>3, <3>2 DEF TopInv
    <3>. QED  BY <3>1, <3>2
  <2>. HIDE DEF list
  <2>. QED  BY <2>1, <2>3, <2>4, <2>5 DEF TopInv
<1>5. CASE TM!Respond \/ TM!CompareTop \/ TM!Prove \/ TM!EngineFailsTop
  <2>1. step' \in {"compare", "prove", "done"} /\ UNCHANGED cache
    BY <1>5 DEF TM!Respond, TM!CompareTop, TM!Prove, TM!EngineFailsTop, TM!Refuse, TM!End
  <2>. QED  BY <2>1 DEF TopInv
<1>6. CASE TM!StopTop \/ UNCHANGED topVars
  BY <1>6 DEF TM!StopTop, TM!tmVars, topVars, TopInv
<1>. QED  BY <1>1, <1>2, <1>3, <1>4, <1>5, <1>6 DEF TM!TopNext

\* The candidates top_moves returns, ranked just now or stored by an earlier call,
\* come in the order of what they promise the mover, whatever scores and mates the
\* searches answer.  Of two of which one was made up and is not read as it is meant
\* this says nothing.
THEOREM CandidatesAreRanked ==
  ASSUME \A c \in Calls : FitsRanking(c), None \notin Int
  PROVE  ToolsSpec => []RankedByOutcome
<1>1. ToolsInit => TopInv
  BY DEF ToolsInit, TM!TopInit, TopInv
<1>2. TopInv /\ [ToolsNext]_toolsVars => TopInv'
  <2>1. [ToolsNext]_toolsVars => [TM!TopNext]_topVars
    BY DEF ToolsNext, toolsVars, MoveStep, TopStep, GameStep
  <2>. QED  BY <2>1, TopKeeps
<1>3. TopInv => RankedByOutcome
  BY OrderRanksOutcomes DEF TopInv
<1>. QED  BY <1>1, <1>2, <1>3, PTL DEF ToolsSpec

---------------------------------------------------------------------------
\* Both tools read the gains alike.
LEMMA SameGains ==
  ASSUME NEW p, NEW posts
  PROVE  E!Gains(p, posts) = TM!E!Gains(p, posts) /\ E!ZeroingMoves(p) = TM!E!ZeroingMoves(p)
<1>1. E!ZeroingMoves(p) = TM!E!ZeroingMoves(p)
  BY DEF E!ZeroingMoves, TM!E!ZeroingMoves
<1>2. \A x : E!Gain(p, x) = TM!E!Gain(p, x)
  BY DEF E!Gain, TM!E!Gain, E!For, TM!E!For, E!Sign, TM!E!Sign, E!Nothing, TM!E!Nothing, E!Failed, TM!E!Failed
<1>. QED  BY <1>1, <1>2 DEF E!Gains, TM!E!Gains, E!Nothing, TM!E!Nothing

LEMMA SameBest ==
  ASSUME NEW gains
  PROVE  E!BestGain(gains) = TM!E!BestGain(gains)
BY DEF E!BestGain, TM!E!BestGain, E!Nothing, TM!E!Nothing

\* A gain of the engine's own move.
LEMMA OwnGain ==
  ASSUME NEW p, NEW best, NEW own, None \notin Int, own # None => IsWhole(own)
  PROVE  IsGain(E!ZeroingOfBest(p, best, own))
<1> DEFINE d == E!For(p.turn, own.mate)
           x == E!For(p.turn, own.cp)
           mine == E!ZeroingOfBest(p, best, own)
<1>1. mine = E!Nothing \/ mine = E!Gain(p, own)
  BY DEF E!ZeroingOfBest
<1>2. \/ E!Gain(p, own) = E!Nothing
      \/ own # None /\ own.mate # None /\ d > 0 /\ E!Gain(p, own) = [cp |-> None, mate |-> d]
      \/ own # None /\ own.cp # None /\ x > 0 /\ E!Gain(p, own) = [cp |-> x, mate |-> None]
  BY DEF E!Gain, E!Failed
<1>3. /\ own # None /\ own.mate # None => d \in Int
      /\ own # None /\ own.cp # None => x \in Int
  BY ForEither DEF IsWhole
<1>4. IsGain(E!Nothing)
  BY DEF IsGain, E!Nothing
<1>. HIDE DEF d, x, mine
<1>. QED  BY <1>1, <1>2, <1>3, <1>4 DEF IsGain, mine

\* An evaluation that recommends a claim at a clock of a hundred has found no
\* capture or pawn move that wins.
LEMMA EvaluatedClaims ==
  ASSUME NEW p, NEW said, None \notin Int, IsList(p.moves), p.clock \in Nat, p.clock >= 100,
         said.own # None => IsWhole(said.own),
         \A k \in E!ZeroingMoves(p) : said.posts[k] # None => IsWhole(said.posts[k]),
         E!Evaluate(p, said).action \in G!Claims
  PROVE  \A k \in E!ZeroingMoves(p) : ~WinsAt(p, said.posts, k)
<1> DEFINE gains == TM!E!Gains(p, said.posts)
           all == TM!E!BestGain(gains)
           mine == E!ZeroingOfBest(p, said.root.best, said.own)
           zero == E!Zeroing(p, said.root.best, said.own, said.posts)
<1>1. ~E!IsOver(p) /\ \E x, y : E!Evaluate(p, said).action = E!ChooseAction(p, x, y, zero)
  BY DEF E!Evaluate, E!Terminal, E!FromEval, G!Claims
<1>2. ~E!WinsByZeroing(zero)
  BY <1>1 DEF E!ChooseAction, G!Claims
<1>3. zero = IF E!WinsByZeroing(mine) THEN mine
             ELSE IF all.mate # None THEN all
             ELSE IF all.cp # None /\ all.cp > (IF mine.cp = None THEN 0 ELSE mine.cp) THEN all
             ELSE mine
  <2>1. E!BestGain(E!Gains(p, said.posts)) = all
    BY SameGains, SameBest
  <2>. QED  BY <1>1, <2>1 DEF E!Zeroing
<1>4. IsGain(mine)
  BY OwnGain
<1>5. /\ IsGain(all)
      /\ \A k \in DOMAIN gains :
           /\ gains[k].mate # None => all.mate # None
           /\ gains[k].cp # None => all.mate # None \/ (all.cp # None /\ gains[k].cp <= all.cp)
  BY SameGains, BestGainIsBest
<1>6. \A k \in E!ZeroingMoves(p) : k \in DOMAIN gains /\ IsGain(gains[k])
  BY SameGains, GainsOf DEF TM!E!Gains
<1>. SUFFICES ASSUME NEW k \in E!ZeroingMoves(p), WinsAt(p, said.posts, k) PROVE FALSE
  OBVIOUS
<1>7. E!WinsByZeroing(gains[k])
  BY SameGains DEF WinsAt
<1>. HIDE DEF gains, all, mine, zero
<1>8. IsGain(gains[k]) /\ k \in DOMAIN gains
  BY <1>6
<1>9. all.mate = None
  BY <1>2, <1>3, <1>5 DEF E!WinsByZeroing, IsGain
<1>10. gains[k].cp \in Int /\ gains[k].cp >= 2000 /\ all.cp \in Int /\ all.cp >= 2000
  BY <1>5, <1>7, <1>8, <1>9 DEF E!WinsByZeroing, IsGain
<1>. QED  BY <1>2, <1>3, <1>4, <1>9, <1>10 DEF E!WinsByZeroing, IsGain

\* The largest of the numbers of a list.
LEMMA GreatestValue ==
  ASSUME NEW Keys, IsFiniteSet(Keys), NEW f, \A k \in Keys : f[k] \in Int,
         NEW Vals, Vals # {}, \A k \in Keys : f[k] \in Vals, \A y \in Vals : \E k \in Keys : y = f[k]
  PROVE  \E x \in Vals : \A y \in Vals : y <= x
<1>1. PICK k \in Keys : \A j \in Keys : f[j] <= f[k]
  <2>. QED  BY GreatestOf
<1>. QED  BY <1>1

\* A claim that top_moves recommends leaves no candidate that promises to win and
\* is read as it is meant.
LEMMA RootClaims ==
  ASSUME NEW p, p = Root, NEW list, ItemsFit(list), list # <<>>, None \notin Int,
         TM!RootAction(p, list) \in G!Claims
  PROVE  \A k \in DOMAIN list :
           TM!Zeroes(p, list[k]) /\ ReadAsMeant(list[k]) => ~PromisesToWin(list[k])
<1> DEFINE M(k) == TM!E!For(p.turn, TM!EffMate(list[k]))
           X(k) == TM!E!For(p.turn, TM!EffCp(list[k]))
           own == {k \in DOMAIN list : TM!Zeroes(p, list[k])}
           mating == {k \in own : TM!EffMate(list[k]) # None}
           scored == {k \in own : TM!EffMate(list[k]) = None /\ TM!EffCp(list[k]) # None}
           mates == {M(k) : k \in mating}
           won == {m \in mates : m > 0}
           scores == {X(k) : k \in scored}
           Most(xs) == IF xs = {} THEN None ELSE CHOOSE x \in xs : \A y \in xs : y <= x
           chance == TM!ZeroingChance(p, list)
<1>1. chance = [cp |-> Most(scores), mate |-> Most(won)]
  BY DEF TM!ZeroingChance
<1>2. ~TM!E!WinsByZeroing(chance)
  <2>1. \E x, y : TM!RootAction(p, list) = TM!E!ChooseAction(p, x, y, chance)
    BY DEF TM!RootAction
  <2>. QED  BY <2>1 DEF TM!E!ChooseAction, G!Claims
<1>3. IsFiniteSet(DOMAIN list)
  BY FS_Interval DEF ItemsFit, Listed
<1>4. \A k \in DOMAIN list : ItemFits(list[k])
  BY DEF ItemsFit
<1>5. \A k \in DOMAIN list : /\ TM!EffMate(list[k]) # None => M(k) \in Int /\ E!For(p.turn, TM!EffMate(list[k])) = M(k)
                             /\ TM!EffCp(list[k]) # None => X(k) \in Int /\ E!For(p.turn, TM!EffCp(list[k])) = X(k)
  <2>. TAKE k \in DOMAIN list
  <2>1. IsDistance(TM!EffMate(list[k])) /\ IsScore(TM!EffCp(list[k]))
    BY <1>4, EffectiveNumbers
  <2>. QED  BY <2>1, ForEither DEF IsDistance, IsScore
<1>. SUFFICES ASSUME NEW k \in DOMAIN list, TM!Zeroes(p, list[k]), ReadAsMeant(list[k]),
                     PromisesToWin(list[k])
              PROVE  FALSE
  OBVIOUS
<1>6. /\ PromisedMate(list[k]) = E!For(p.turn, TM!EffMate(list[k]))
      /\ PromisedMate(list[k]) = None => PromisedCp(list[k]) = E!For(p.turn, TM!EffCp(list[k]))
  BY <1>4, MeantIsPromised
<1>7. E!For(p.turn, None) = None
  BY DEF E!For
<1>8. CASE TM!EffMate(list[k]) # None
  <2> DEFINE keys == {j \in mating : M(j) > 0}
             f == [j \in keys |-> M(j)]
  <2>1. M(k) \in Int /\ M(k) > 0
    BY <1>5, <1>8, <1>6 DEF PromisesToWin, PromisedCp, E!WinsByZeroing
  <2>2. IsFiniteSet(keys) /\ \A j \in keys : f[j] \in Int
    <3>1. keys \subseteq DOMAIN list
      OBVIOUS
    <3>. QED  BY <1>3, <1>5, <3>1, FS_Subset
  <2>3. won = {f[j] : j \in keys} /\ won # {}
    BY <1>8, <2>1
  <2>4. \E x \in won : \A y \in won : y <= x
    <3>1. won # {} /\ (\A j \in keys : f[j] \in won) /\ \A y \in won : \E j \in keys : y = f[j]
      BY <2>3
    <3>. HIDE DEF keys, f, won
    <3>. QED  BY <2>2, <3>1, GreatestValue
  <2>5. Most(won) \in won
    BY <2>3, <2>4
  <2>6. Most(won) # None /\ Most(won) > 0
    BY <1>5, <2>5
  <2>. HIDE DEF Most, won, scores
  <2>. QED  BY <1>1, <1>2, <2>6 DEF TM!E!WinsByZeroing
<1>9. CASE TM!EffMate(list[k]) = None
  <2> DEFINE f == [j \in scored |-> X(j)]
  <2>1. TM!EffCp(list[k]) # None /\ X(k) \in Int /\ X(k) >= 2000
    <3>1. E!For(p.turn, TM!EffCp(list[k])) # None /\ E!For(p.turn, TM!EffCp(list[k])) >= 2000
      BY <1>9, <1>6, <1>7 DEF PromisesToWin, E!WinsByZeroing
    <3>. QED  BY <1>5, <1>7, <3>1
  <2>2. IsFiniteSet(scored) /\ \A j \in scored : f[j] \in Int
    <3>1. scored \subseteq DOMAIN list
      OBVIOUS
    <3>. QED  BY <1>3, <1>5, <3>1, FS_Subset
  <2>3. scores = {f[j] : j \in scored} /\ X(k) \in scores
    BY <1>9, <2>1
  <2>4. \E x \in scores : \A y \in scores : y <= x
    <3>1. scores # {} /\ (\A j \in scored : f[j] \in scores) /\ \A y \in scores : \E j \in scored : y = f[j]
      BY <2>3
    <3>. HIDE DEF scored, f, scores
    <3>. QED  BY <2>2, <3>1, GreatestValue
  <2>5. Most(scores) \in scores /\ X(k) <= Most(scores)
    BY <2>3, <2>4
  <2>6. Most(scores) # None /\ Most(scores) >= 2000
    <3>1. Most(scores) \in Int
      BY <1>5, <2>5
    <3>. HIDE DEF Most, scores, X
    <3>. QED  BY <2>1, <2>5, <3>1
  <2>. HIDE DEF Most, won, scores
  <2>. QED  BY <1>1, <1>2, <2>6 DEF TM!E!WinsByZeroing
<1>. QED  BY <1>8, <1>9

---------------------------------------------------------------------------
\* classify_move holds an evaluation of the position it was asked about.
MoveInv ==
  /\ phase \in {"before", "after"} => request \in Requests
  /\ phase = "after" => \E said \in Searches[request.place] : before = E!Evaluate(P, said)

LEMMA MoveKeeps ==
  ASSUME MoveInv, [Next]_vars
  PROVE  MoveInv'
<1>1. CASE Ask
  <2>1. request' \in Requests /\ phase' # "after"
    BY <1>1 DEF Ask, Answer
  <2>. QED  BY <2>1 DEF MoveInv
<1>2. CASE SearchBefore
  BY <1>2 DEF SearchBefore, MoveInv, P
<1>3. CASE SearchAfter \/ NoSecondLook \/ SecondLook \/ SecondLookFails \/ Standard \/ Enrich
           \/ NeedsNoVerification \/ Verify \/ Escalate \/ VerificationFails \/ Judge \/ EngineFails
  <2>1. phase' \notin {"before", "after"}
    BY <1>3 DEF SearchAfter, NoSecondLook, SecondLook, SecondLookFails, Standard, Enrich,
                NeedsNoVerification, Verify, Escalate, VerificationFails, Judge, EngineFails,
                Fail, Answer, EscalateOrConclude
  <2>. QED  BY <2>1 DEF MoveInv
<1>4. CASE Stop \/ UNCHANGED vars
  BY <1>4 DEF Stop, vars, MoveInv, P
<1>. QED  BY <1>1, <1>2, <1>3, <1>4 DEF Next

ResponseFields == {"ok", "status", "items", "action", "legal", "compared", "proof"}

\* The action of an answer of top_moves was chosen from the candidates it returns,
\* unless the caller added to them.
ActionInv ==
  /\ step \in {"compare", "prove"} => DOMAIN answer = ResponseFields
  /\ step \in {"compare", "prove", "done"} /\ answer.ok /\ call.include = <<>> /\ items # <<>> =>
       ItemsFit(items) /\ answer.action = TM!RootAction(Facts[call.place], items)

LEMMA ActionKeeps ==
  ASSUME TopInv, ActionInv, [TM!TopNext]_topVars
  PROVE  ActionInv'
<1>1. CASE TM!AskTop
  <2>1. step' = "done" => ~answer'.ok \/ items' = <<>>
    BY <1>1 DEF TM!AskTop, TM!Refuse, TM!End
  <2>2. step' \in {"done", "search", "respond"}
    BY <1>1 DEF TM!AskTop, TM!Refuse, TM!End
  <2>. QED  BY <2>1, <2>2 DEF ActionInv
<1>2. CASE TM!SearchTop \/ TM!SearchZeroing \/ TM!RankTop
  <2>1. step' \in {"zeroing", "rank", "respond"}
    BY <1>2 DEF TM!SearchTop, TM!SearchZeroing, TM!RankTop
  <2>. QED  BY <2>1 DEF ActionInv
<1>3. CASE TM!Respond
  <2>1. /\ answer' = TM!Response(items) /\ step' \in {"compare", "done"}
        /\ UNCHANGED <<call, items>> /\ ItemsFit(items)
    BY <1>3 DEF TM!Respond, TM!End, TopInv, Descending
  <2>2. DOMAIN TM!Response(items) = ResponseFields
        /\ TM!Response(items).action = TM!RootAction(Facts[call.place], items)
    BY DEF TM!Response, TM!Here, ResponseFields
  <2>. QED  BY <2>1, <2>2 DEF ActionInv
<1>4. CASE TM!CompareTop
  <2>1. CASE ~answer'.ok /\ step' = "done"
    BY <2>1 DEF ActionInv
  <2>2. CASE \E a, b, c : /\ answer' = [answer EXCEPT !.compared = a, !.items = b, !.legal = c]
                          /\ step' \in {"prove", "done"} /\ UNCHANGED call
                          /\ call.include = <<>> => items' = items
    <3>1. DOMAIN answer = ResponseFields /\ step = "compare"
      BY <1>4 DEF TM!CompareTop, ActionInv
    <3>2. DOMAIN answer' = ResponseFields /\ answer'.ok = answer.ok /\ answer'.action = answer.action
      BY <2>2, <3>1 DEF ResponseFields
    <3>. QED  BY <2>2, <3>1, <3>2 DEF ActionInv
  <2>3. CASE TM!Ev!Illegal(call.include)
    BY <1>4, <2>1, <2>3 DEF TM!CompareTop, TM!Refuse, TM!End
  <2>4. CASE ~TM!Ev!Illegal(call.include)
    <3> DEFINE moves == TM!Compared(TM!Effective(call), TM!Own(TM!Here, items), call.include)
               legal == {a \in answer.legal : a[1] # "play_move"}
                          \cup {<<"play_move", items'[k].move>> : k \in DOMAIN items'}
    <3>1. /\ answer' = [answer EXCEPT !.compared = moves, !.items = items', !.legal = legal]
          /\ step' \in {"prove", "done"} /\ UNCHANGED call
          /\ call.include = <<>> => items' = items
      BY <1>4, <2>4 DEF TM!CompareTop
    <3>. HIDE DEF moves, legal
    <3>. QED  BY <2>2, <3>1
  <2>. QED  BY <2>3, <2>4
<1>5. CASE TM!Prove
  <2>1. PICK a : answer' = [answer EXCEPT !.proof = a]
    BY <1>5 DEF TM!Prove, TM!End
  <2>2. DOMAIN answer = ResponseFields /\ step = "prove" /\ step' = "done" /\ UNCHANGED <<call, items>>
    BY <1>5 DEF TM!Prove, TM!End, ActionInv
  <2>3. answer'.ok = answer.ok /\ answer'.action = answer.action
    BY <2>1, <2>2 DEF ResponseFields
  <2>. QED  BY <2>2, <2>3 DEF ActionInv
<1>6. CASE TM!EngineFailsTop
  <2>1. ~answer'.ok /\ step' = "done"
    BY <1>6 DEF TM!EngineFailsTop, TM!Refuse, TM!End
  <2>. QED  BY <2>1 DEF ActionInv
<1>7. CASE TM!StopTop \/ UNCHANGED topVars
  BY <1>7 DEF TM!StopTop, TM!tmVars, topVars, ActionInv
<1>. QED  BY <1>1, <1>2, <1>3, <1>4, <1>5, <1>6, <1>7 DEF TM!TopNext

\* A draw is recommended only where no capture or pawn move wins: not one of those
\* that an evaluation searches at a clock of a hundred, whichever the engine
\* prefers, and not one of the candidates of top_moves that are read as they are
\* meant.
THEOREM NoWinIsLeftBehind ==
  ASSUME \A r \in Requests : FitsChoice(r.place), \A c \in Calls : FitsRanking(c), None \notin Int
  PROVE  ToolsSpec => []ClaimsLeaveNoWinBehind
<1> DEFINE Inv == MoveInv /\ TopInv /\ ActionInv
<1>1. ToolsInit => Inv
  BY DEF ToolsInit, Init, TM!TopInit, MoveInv, TopInv, ActionInv
<1>2. Inv /\ [ToolsNext]_toolsVars => Inv'
  <2>1. [ToolsNext]_toolsVars => [TM!TopNext]_topVars /\ [Next]_vars
    BY DEF ToolsNext, toolsVars, MoveStep, TopStep, GameStep
  <2>. QED  BY <2>1, MoveKeeps, TopKeeps, ActionKeeps
<1>3. Inv => ClaimsLeaveNoWinBehind
  <2>1. ASSUME MoveInv, phase = "after", P.clock >= 100
        PROVE  \E said \in Searches[request.place] :
                 /\ before = E!Evaluate(P, said)
                 /\ before.action \in G!Claims => \A k \in E!ZeroingMoves(P) : ~WinsAt(P, said.posts, k)
    <3>1. FitsChoice(request.place)
      BY <2>1 DEF MoveInv
    <3>2. PICK said \in Searches[request.place] : before = E!Evaluate(P, said)
      BY <2>1 DEF MoveInv
    <3>3. /\ IsList(P.moves) /\ P.clock \in Nat /\ (said.own # None => IsWhole(said.own))
          /\ \A k \in E!ZeroingMoves(P) : said.posts[k] # None => IsWhole(said.posts[k])
      BY <3>1 DEF FitsChoice, P
    <3>. QED  BY <2>1, <3>2, <3>3, EvaluatedClaims
  <2>2. ASSUME ActionInv, OfTheEngine, answer.action \in G!Claims
        PROVE  \A k \in DOMAIN items :
                 TM!Zeroes(Root, items[k]) /\ ReadAsMeant(items[k]) => ~PromisesToWin(items[k])
    <3>1. ItemsFit(items) /\ items # <<>> /\ answer.action = TM!RootAction(Root, items)
      BY <2>2 DEF ActionInv, OfTheEngine, Root
    <3>. QED  BY <2>2, <3>1, RootClaims
  <2>. QED  BY <2>1, <2>2 DEF ClaimsLeaveNoWinBehind
<1>. QED  BY <1>1, <1>2, <1>3, PTL DEF ToolsSpec

---------------------------------------------------------------------------
\* A grade that says mistake or blunder has a loss of a hundred or more.
Weighs(g) ==
  /\ DOMAIN g = Fields /\ g.eff \in Int
  /\ g.class \in {"mistake", "blunder"} => g.eff >= 100

\* What is graded has numbers for scores.
Measurable(s) == IsWhole(s.before) /\ IsWhole(s.after) /\ s.deficit \in Int

LEMMA ValuesAreWhole ==
  ASSUME NEW e, IsWhole(e)
  PROVE  AG!S!G!Value(e) \in Int
BY DEF IsWhole, AG!S!G!Value, AG!S!G!HasMate

LEMMA BoundsHold ==
  ASSUME NEW x \in Int
  PROVE  /\ AG!S!G!Bound(300, 1000, x) \in Int /\ AG!S!G!Bound(300, 1000, x) >= 300
         /\ AG!S!G!Bound(500, 1000, x) \in Int /\ AG!S!G!Bound(500, 1000, x) >= 500
BY DEF AG!S!G!Bound, AG!S!G!Larger, AG!S!G!Lesser

LEMMA FlawlessWeighs ==
  ASSUME NEW s
  PROVE  Weighs(AG!S!G!Flawless(s))
BY DEF Weighs, Fields, AG!S!G!Flawless

LEMMA GradedWeighs ==
  ASSUME NEW s, NEW class, NEW eff \in Int, NEW kind, NEW lost,
         class \in {"mistake", "blunder"} => eff >= 100
  PROVE  Weighs(AG!S!G!Graded(s, class, eff, kind, lost))
BY DEF Weighs, Fields, AG!S!G!Flawless, AG!S!G!Graded

\* What the strategies set beside the class and the loss.
LEMMA OtherFieldsWeigh ==
  ASSUME NEW s, NEW g, Weighs(g), NEW loss
  PROVE  /\ Weighs(AG!S!G!Measured(s, g)) /\ Weighs(AG!S!G!Unmeasured(g))
         /\ Weighs(AG!S!G!NotTheEngines(g)) /\ Weighs(AG!S!G!Distance(s, g, loss))
         /\ Weighs(AG!S!G!WithClaims(s, g)) /\ Weighs(AG!S!G!Finalized(s, g))
<1>1. Weighs(AG!S!G!Measured(s, g)) /\ Weighs(AG!S!G!Unmeasured(g))
      /\ Weighs(AG!S!G!NotTheEngines(g)) /\ Weighs(AG!S!G!Distance(s, g, loss))
  BY DEF Weighs, Fields, AG!S!G!Measured, AG!S!G!Unmeasured, AG!S!G!NotTheEngines, AG!S!G!Distance
<1>2. ASSUME NEW x, Weighs(x) PROVE Weighs(AG!S!G!WithClaims(s, x))
  BY <1>2 DEF Weighs, Fields, AG!S!G!WithClaims
<1>3. Weighs([g EXCEPT !.equivalent = TRUE, !.isBest = TRUE])
  BY DEF Weighs, Fields
<1>. QED  BY <1>1, <1>2, <1>3 DEF AG!S!G!Finalized

LEMMA MatesWeigh ==
  ASSUME NEW s
  PROVE  Weighs(AG!S!G!MateToMate(s))
<1>1. Weighs(AG!S!G!Resists(s))
  <2> DEFINE loss == AG!S!G!Larger(0, AG!S!G!Size(s.before.mate) - AG!S!G!Size(s.after.mate))
             g == IF AG!S!G!EngineBest(s) \/ loss = 0 THEN AG!S!G!Flawless(s)
                  ELSE IF loss = 1 THEN AG!S!G!Graded(s, "inaccuracy", 150, "", 20)
                  ELSE IF loss = 2 THEN AG!S!G!Graded(s, "mistake", 300, "", 100)
                  ELSE AG!S!G!Graded(s, "blunder", 500, "", AG!S!G!Lesser(200, 50 * loss))
             h == AG!S!G!Distance(s, g, loss)
  <2>1. AG!S!G!Resists(s) = [h EXCEPT !.isBest = AG!S!G!EngineBest(s) /\ s.canonical = "play_move"]
    BY DEF AG!S!G!Resists
  <2>. HIDE DEF loss
  <2>2. Weighs(g)
    BY FlawlessWeighs DEF Weighs, Fields, AG!S!G!Graded
  <2>. HIDE DEF g
  <2>3. Weighs(h)
    BY <2>2, OtherFieldsWeigh
  <2>. HIDE DEF h
  <2>. QED  BY <2>1, <2>3 DEF Weighs, Fields
<1>2. Weighs(AG!S!G!StillMates(s))
  <2> DEFINE loss == AG!S!G!DistanceLoss(s)
             g == IF AG!S!G!EngineBest(s) \/ loss = 0 THEN AG!S!G!Flawless(s)
                  ELSE IF loss = 1 THEN AG!S!G!Graded(s, "good", 50, "", 5)
                  ELSE IF loss = 2 THEN AG!S!G!Graded(s, "inaccuracy", 150, "", 20)
                  ELSE AG!S!G!Graded(s, "mistake", 300, "", AG!S!G!Lesser(200, 20 * loss))
             h == AG!S!G!Distance(s, g, loss)
  <2>1. AG!S!G!StillMates(s) =
          [h EXCEPT !.isBest = AG!S!G!EngineBest(s) \/ (s.canonical = "play_move" /\ loss = 0)]
    BY DEF AG!S!G!StillMates
  <2>. HIDE DEF loss
  <2>2. Weighs(g)
    BY FlawlessWeighs DEF Weighs, Fields, AG!S!G!Graded
  <2>. HIDE DEF g
  <2>3. Weighs(h)
    BY <2>2, OtherFieldsWeigh
  <2>. HIDE DEF h
  <2>. QED  BY <2>1, <2>3 DEF Weighs, Fields
<1>3. Weighs(AG!S!G!MateThrown(s))
  <2>1. \A b : Weighs([AG!S!G!Flawless(s) EXCEPT !.equivalent = b])
    BY FlawlessWeighs DEF Weighs, Fields
  <2>. QED  BY <2>1, GradedWeighs, OtherFieldsWeigh DEF AG!S!G!MateThrown
<1>4. Weighs([AG!S!G!Flawless(s) EXCEPT !.mateLoss = 0])
  BY FlawlessWeighs DEF Weighs, Fields
<1>. QED  BY <1>1, <1>2, <1>3, <1>4 DEF AG!S!G!MateToMate

LEMMA ScoresWeigh ==
  ASSUME NEW s, Measurable(s)
  PROVE  /\ Weighs(AG!S!G!MateToCp(s)) /\ Weighs(AG!S!G!CpToMate(s))
         /\ Weighs(AG!S!G!StandardCp(s))
<1>1. Weighs(AG!S!G!MateToCp(s))
  <2>1. \A b : Weighs([AG!S!G!Measured(s, AG!S!G!Flawless(s)) EXCEPT !.equivalent = b])
    BY FlawlessWeighs, OtherFieldsWeigh DEF Weighs, Fields
  <2>. QED  BY <2>1, FlawlessWeighs, GradedWeighs, OtherFieldsWeigh DEF AG!S!G!MateToCp
<1>2. Weighs(AG!S!G!CpToMate(s))
  <2>3. CASE AG!S!G!IsMated(s.after)
    <3> DEFINE g == AG!S!G!NotTheEngines(AG!S!G!Unmeasured(
                      AG!S!G!Graded(s, "blunder", 1000, "mate_transition", AG!S!G!Win(AG!S!G!Baseline(s)))))
    <3>1. Weighs(g)
      BY GradedWeighs, OtherFieldsWeigh
    <3>2. AG!S!G!CpToMate(s) = [g EXCEPT !.missed = AG!S!G!ClaimRecommended(s)]
      BY <2>3 DEF AG!S!G!CpToMate
    <3>. HIDE DEF g
    <3>. QED  BY <3>1, <3>2 DEF Weighs, Fields
  <2>4. CASE ~AG!S!G!IsMated(s.after)
    BY <2>4, FlawlessWeighs DEF AG!S!G!CpToMate, Weighs, Fields
  <2>. QED  BY <2>3, <2>4
<1>3. Weighs(AG!S!G!StandardCp(s))
  <2>1. CASE AG!S!G!EngineBest(s)
    BY <2>1, FlawlessWeighs DEF AG!S!G!StandardCp, Weighs, Fields
  <2>2. CASE ~AG!S!G!EngineBest(s)
    <3> DEFINE loss == AG!S!G!Larger(0, AG!S!G!Baseline(s) - AG!S!G!Value(s.after))
               lost == AG!S!G!Larger(0, AG!S!G!Win(AG!S!G!Baseline(s)) - AG!S!G!Win(AG!S!G!Value(s.after)))
               cap == AG!S!G!SmallLossCap(s)
               mild == cap # None /\ lost < 80
               class == IF mild \/ AG!S!G!ClassOfLoss(loss) = "best" THEN "good" ELSE AG!S!G!ClassOfLoss(loss)
               eff == IF ~mild THEN AG!S!G!Lesser(loss, 1000)
                      ELSE AG!S!G!Lesser(loss, IF lost < 40 THEN cap[1] ELSE cap[2])
    <3>1. loss \in Int
      BY ValuesAreWhole DEF Measurable, AG!S!G!Larger, AG!S!G!Baseline
    <3>2. cap \in {None, <<15, 45>>, <<20, 50>>}
      BY DEF AG!S!G!SmallLossCap
    <3>3. AG!S!G!StandardCp(s) =
            AG!S!G!Measured(s, AG!S!G!Graded(s, class, eff, IF eff > 0 THEN "engine_cp" ELSE "none", lost))
      BY <2>2 DEF AG!S!G!StandardCp, AG!S!G!PlainGrade, AG!S!G!Weighed
    <3>. HIDE DEF loss, lost, cap
    <3>4. eff \in Int /\ (class \in {"mistake", "blunder"} => eff >= 100)
      <4>1. CASE mild
        <5>1. cap[1] \in Int /\ cap[2] \in Int
          BY <3>2, <4>1
        <5>. QED  BY <3>1, <4>1, <5>1 DEF AG!S!G!Lesser
      <4>2. CASE ~mild
        <5>1. loss < 100 => AG!S!G!ClassOfLoss(loss) \in {"best", "good", "inaccuracy"}
          BY DEF AG!S!G!ClassOfLoss
        <5>. QED  BY <3>1, <4>2, <5>1 DEF AG!S!G!Lesser
      <4>. QED  BY <4>1, <4>2
    <3>. HIDE DEF class, eff
    <3>. QED  BY <3>3, <3>4, GradedWeighs, OtherFieldsWeigh
  <2>. QED  BY <2>1, <2>2
<1>. QED  BY <1>1, <1>2, <1>3

LEMMA DrawsWeigh ==
  ASSUME NEW s, Measurable(s)
  PROVE  /\ Weighs(AG!S!G!DrawnGrade(s)) /\ Weighs(AG!S!G!ConcededGrade(s))
         /\ Weighs(AG!S!G!PreservedGrade(s)) /\ Weighs(AG!S!G!ForfeitGrade(s))
         /\ Weighs(AG!S!G!ClaimGrade(s))
<1> DEFINE stake == AG!S!G!Bound(300, 1000, AG!S!G!Stake(s))
           stake5 == AG!S!G!Bound(500, 1000, AG!S!G!Stake(s))
           forfeit == AG!S!G!ForfeitLoss(s)
<1>1. AG!S!G!Value(s.before) \in Int /\ AG!S!G!Value(s.after) \in Int /\ s.deficit \in Int
  BY ValuesAreWhole DEF Measurable
<1>2. AG!S!G!Stake(s) \in Int
  BY <1>1 DEF AG!S!G!Stake
<1>3. stake \in Int /\ stake >= 100 /\ stake5 \in Int /\ stake5 >= 100
  <2>1. stake \in Int /\ stake >= 300 /\ stake5 \in Int /\ stake5 >= 500
    BY <1>2, BoundsHold
  <2>. HIDE DEF stake, stake5
  <2>. QED  BY <2>1
<1>4. forfeit \in Int /\ forfeit >= 100
  <2> DEFINE swing == AG!S!G!Larger(AG!S!G!Size(AG!S!G!Value(s.before)), AG!S!G!Size(AG!S!G!Value(s.after)))
             lost == IF swing > 0 THEN swing ELSE IF AG!S!G!Down(s) THEN s.deficit ELSE 500
  <2>1. swing \in Int
    BY <1>1 DEF AG!S!G!Larger, AG!S!G!Size
  <2>2. lost \in Int
    BY <1>1, <2>1
  <2>3. forfeit = AG!S!G!Bound(300, 1000, lost)
    BY DEF AG!S!G!ForfeitLoss
  <2>. HIDE DEF swing, lost, forfeit
  <2>. QED  BY <2>2, <2>3, BoundsHold
<1>. HIDE DEF stake, stake5, forfeit
<1>6. Weighs(AG!S!G!DrawnGrade(s))
  <2>1. CASE AG!S!G!WinningBefore(s)
    <3> DEFINE g == AG!S!G!Measured(s, AG!S!G!NotTheEngines(AG!S!G!Graded(s, "blunder", stake, "blundered_draw", 500)))
               h == [g EXCEPT !.equivalent = FALSE]
    <3>1. Weighs(g)
      BY <1>3, GradedWeighs, OtherFieldsWeigh
    <3>2. AG!S!G!DrawnGrade(s) = IF AG!S!G!HasMate(s.before) THEN [h EXCEPT !.cpl = None, !.raw = None] ELSE h
      BY <2>1 DEF AG!S!G!DrawnGrade, stake
    <3>3. Weighs(h)
      <4>. HIDE DEF g
      <4>. QED  BY <3>1 DEF Weighs, Fields
    <3>. HIDE DEF h
    <3>. QED  BY <3>2, <3>3 DEF Weighs, Fields
  <2>2. CASE ~AG!S!G!WinningBefore(s)
    BY <2>2, FlawlessWeighs DEF AG!S!G!DrawnGrade, Weighs, Fields
  <2>. QED  BY <2>1, <2>2
<1>7. Weighs(AG!S!G!ConcededGrade(s))
  <2> DEFINE g == AG!S!G!Measured(s, AG!S!G!NotTheEngines(AG!S!G!Graded(s, "blunder", stake5, "conceded_draw", 500)))
  <2>1. Weighs(g)
    BY <1>3, GradedWeighs, OtherFieldsWeigh
  <2>2. AG!S!G!ConcededGrade(s) = [g EXCEPT !.conceded = TRUE]
    BY DEF AG!S!G!ConcededGrade, stake5
  <2>. HIDE DEF g
  <2>. QED  BY <2>1, <2>2 DEF Weighs, Fields
<1>8. Weighs(AG!S!G!PreservedGrade(s))
  BY FlawlessWeighs DEF AG!S!G!PreservedGrade, Weighs, Fields
<1>9. Weighs(AG!S!G!ForfeitGrade(s))
  <2> DEFINE g == AG!S!G!Measured(s, AG!S!G!Graded(s, "blunder", forfeit, "draw_claim_forfeit", 500))
  <2>1. Weighs(g)
    BY <1>4, GradedWeighs, OtherFieldsWeigh
  <2>2. AG!S!G!ForfeitGrade(s) = [g EXCEPT !.missed = TRUE]
    BY DEF AG!S!G!ForfeitGrade, forfeit
  <2>. HIDE DEF g
  <2>. QED  BY <2>1, <2>2 DEF Weighs, Fields
<1>10. Weighs(AG!S!G!ClaimGrade(s))
  <2>1. /\ Weighs(AG!S!G!Graded(s, "blunder", 1000, "outcome_penalty", 500))
        /\ Weighs(AG!S!G!Graded(s, "blunder", 500, "technical_win_forfeited", 500))
    BY GradedWeighs
  <2>. QED  BY <2>1, FlawlessWeighs DEF AG!S!G!ClaimGrade, Weighs, Fields
<1>. QED  BY <1>6, <1>7, <1>8, <1>9, <1>10

LEMMA GradesWeigh ==
  ASSUME NEW s, Measurable(s)
  PROVE  Weighs(AG!S!G!Grade(s))
<1>1. Weighs(AG!S!G!DeliveredMate(s))
  BY FlawlessWeighs DEF AG!S!G!DeliveredMate, Weighs, Fields
<1>2. Weighs(AG!S!G!ReceivedMate(s))
  <2>1. Weighs(AG!S!G!NotTheEngines(AG!S!G!Graded(s, "blunder", 1000, "mate_transition", 1000)))
    BY GradedWeighs, OtherFieldsWeigh
  <2>. QED  BY <2>1 DEF AG!S!G!ReceivedMate, Weighs, Fields
<1>3. Weighs(AG!S!G!Strategy(s))
  BY <1>1, <1>2, MatesWeigh, ScoresWeigh, DrawsWeigh DEF AG!S!G!Strategy
<1> DEFINE f == AG!S!G!Finalized(s, AG!S!G!Strategy(s))
<1>4. Weighs(f)
  BY <1>3, OtherFieldsWeigh
<1>. HIDE DEF f
<1> DEFINE p == IF ~AG!S!G!MustNotBlame(s, f) THEN f
                ELSE [f EXCEPT !.class = "best", !.eff = 0, !.cpl = 0, !.raw = 0,
                        !.delta = 0, !.isBest = TRUE, !.equivalent = TRUE, !.winLoss = 0,
                        !.mateLoss = IF @ = None THEN None ELSE 0,
                        !.engineBest = AG!S!G!EngineBest(s) \/ @]
           own == IF AG!S!G!EngineBest(s) /\ s.canonical = s.action
                  THEN [p EXCEPT !.engineBest = TRUE, !.isBest = TRUE, !.equivalent = TRUE]
                  ELSE p
<1>5. AG!S!G!Grade(s) = f \/ AG!S!G!Grade(s) = AG!S!G!WithClaims(s, own)
  BY DEF AG!S!G!Grade, AG!S!G!Enforced, f
<1>6. Weighs(p)
  BY <1>4 DEF Weighs, Fields
<1>. HIDE DEF p
<1>7. Weighs(own)
  BY <1>6 DEF Weighs, Fields
<1>. HIDE DEF own
<1>. QED  BY <1>4, <1>5, <1>7, OtherFieldsWeigh

---------------------------------------------------------------------------
\* Fewer than there is room for: none was left out.
LEMMA HeaviestAll ==
  ASSUME NEW records, NEW plies, plies \subseteq Int, IsFiniteSet(plies),
         \A k \in plies : AG!C!Importance(records[k]) \in Int,
         NEW most \in Int, Cardinality(AG!C!Heaviest(records, plies, most)) < most
  PROVE  AG!C!Heaviest(records, plies, most) = plies
<1> DEFINE r == [k \in plies |-> AG!C!Importance(records[k])]
           size == [k \in plies |-> Cardinality(Ahead(r, k))]
           kept == AG!C!Heaviest(records, plies, most)
<1>1. r \in [plies -> Int]
  OBVIOUS
<1>2. \A k \in plies : {j \in plies : AG!C!Heavier(records, j, k)} = Ahead(r, k)
  BY DEF Ahead, InFront, AG!C!Heavier
<1>3. kept = {k \in plies : size[k] < most}
  BY <1>2 DEF AG!C!Heaviest, AG!C!Cardinality, Cardinality
<1>. HIDE DEF kept
<1>4. \A k \in plies : IsFiniteSet(Ahead(r, k)) /\ size[k] = Cardinality(Ahead(r, k)) /\ size[k] \in Nat
  <2>. TAKE k \in plies
  <2>1. Ahead(r, k) \subseteq plies
    BY DEF Ahead
  <2>. HIDE DEF r
  <2>. QED  BY <2>1, FS_Subset, FS_CardinalityType
<1>5. \A j, k \in plies : InFront(r, j, k) => size[j] < size[k]
  <2>. TAKE j \in plies, k \in plies
  <2>. HAVE InFront(r, j, k)
  <2>1. Cardinality(Ahead(r, j)) < Cardinality(Ahead(r, k))
    <3>. HIDE DEF r, size
    <3>. QED  BY <1>1, AheadGrows
  <2>. QED  BY <1>4, <2>1
<1>6. \A j, k \in plies : j \in Ahead(r, k) <=> InFront(r, j, k)
  BY DEF Ahead
<1>7. \A k \in plies : Ahead(r, k) \subseteq plies
  BY DEF Ahead
<1>. HIDE DEF r, size
<1>. SUFFICES ASSUME plies \ kept # {} PROVE FALSE
  BY <1>3 DEF kept
<1>8. PICK k \in plies \ kept : \A j \in plies \ kept : size[k] <= size[j]
  <2>1. \A k \in plies \ kept : size[k] \in Nat
    BY <1>4
  <2>. QED  BY <2>1, CP!LeastOf
<1>9. Ahead(r, k) \subseteq kept
  <2>. SUFFICES ASSUME NEW j \in Ahead(r, k), j \notin kept PROVE FALSE
    OBVIOUS
  <2>1. k \in plies /\ j \in plies \ kept /\ InFront(r, j, k)
    BY <1>6, <1>7, <1>8
  <2>2. size[k] <= size[j] /\ size[j] < size[k] /\ size[j] \in Nat /\ size[k] \in Nat
    BY <1>4, <1>5, <1>8, <2>1
  <2>. QED  BY <2>2
<1>10. IsFiniteSet(kept) /\ Cardinality(kept) \in Nat
  BY <1>3, FS_Subset, FS_CardinalityType
<1>11. size[k] <= Cardinality(kept)
  BY <1>4, <1>9, <1>10, FS_Subset
<1>. QED  BY <1>3, <1>4, <1>8, <1>10, <1>11 DEF kept

\* Where there is room left, the critical moments have every fault of their side.
LEMMA CriticalHasFaults ==
  ASSUME NEW side, NEW records, NEW n \in Nat, DOMAIN records = 1..n, None \notin Int,
         \A k \in 1..n : Weighs(records[k].score),
         NEW events, NEW most \in Int,
         Cardinality(AG!C!CriticalPlies(side, records, events, most)) < most,
         NEW k \in AG!C!OwnPlies(side, records), records[k].score.class \in {"mistake", "blunder"}
  PROVE  k \in AG!C!CriticalPlies(side, records, events, most)
<1> DEFINE own == AG!C!OwnPlies(side, records)
           named == {j \in own : AG!C!ReasonsOf(side, records, events, j) # {}}
           rest == {j \in own : AG!C!Loss(records[j]) >= 100} \ named
           room == most - Cardinality(named)
           fill == AG!C!Filling(side, records, named, most)
           all == named \cup fill
<1>1. AG!C!CriticalPlies(side, records, events, most) = AG!C!Heaviest(records, all, most)
  BY DEF AG!C!CriticalPlies
<1>2. fill = IF room <= 0 THEN {} ELSE AG!C!Heaviest(records, rest, room)
  BY DEF AG!C!Filling, AG!C!Cardinality, Cardinality
<1>3. own \subseteq 1..n /\ k \in own
  BY DEF AG!C!OwnPlies
<1>4. \A j \in own : /\ AG!C!Loss(records[j]) = records[j].score.eff
                     /\ AG!C!Importance(records[j]) \in Int
  <2>. TAKE j \in own
  <2>1. records[j].score.eff \in Int
    BY <1>3 DEF Weighs
  <2>2. AG!C!Loss(records[j]) = records[j].score.eff
    BY <2>1 DEF AG!C!Loss
  <2>. QED  BY <2>1, <2>2 DEF AG!C!Importance
<1>5. AG!C!Loss(records[k]) >= 100
  BY <1>3, <1>4 DEF Weighs
<1>6. fill \subseteq rest
  BY <1>2 DEF AG!C!Heaviest
<1>. HIDE DEF own, fill, all
<1>7. named \subseteq own /\ rest \subseteq own /\ named \cap rest = {}
  OBVIOUS
<1>8. k \in named \/ k \in rest
  BY <1>3, <1>5
<1>. HIDE DEF named, rest
<1>9. /\ IsFiniteSet(named) /\ IsFiniteSet(rest) /\ IsFiniteSet(fill) /\ IsFiniteSet(all)
      /\ own \subseteq Int /\ all \subseteq own
  <2>1. IsFiniteSet(1..n)
    BY FS_Interval
  <2>2. own \subseteq Int /\ all \subseteq own /\ fill \subseteq own
    BY <1>3, <1>6, <1>7 DEF all
  <2>3. IsFiniteSet(own)
    BY <1>3, <2>1, FS_Subset
  <2>. QED  BY <1>7, <2>2, <2>3, FS_Subset
<1>10. Cardinality(named) \in Nat /\ Cardinality(fill) \in Nat /\ Cardinality(all) \in Nat
  BY <1>9, FS_CardinalityType
<1>11. AG!C!Heaviest(records, all, most) = all
  BY <1>1, <1>4, <1>9, HeaviestAll
<1>12. Cardinality(all) = Cardinality(named) + Cardinality(fill)
  <2>1. named \cap fill = {}
    BY <1>6, <1>7
  <2>2. Cardinality(named \cap fill) = 0
    BY <2>1, FS_EmptySet
  <2>3. Cardinality(named \cup fill) = Cardinality(named) + Cardinality(fill) - Cardinality(named \cap fill)
    BY <1>9, FS_Union
  <2>. QED  BY <1>10, <2>2, <2>3 DEF all
<1>13. Cardinality(fill) < room /\ room > 0
  BY <1>1, <1>10, <1>11, <1>12
<1>14. fill = rest
  <2>1. fill = AG!C!Heaviest(records, rest, room) /\ room \in Int
    BY <1>2, <1>10, <1>13
  <2>. HIDE DEF room
  <2>. QED  BY <1>4, <1>7, <1>9, <1>13, <2>1, HeaviestAll
<1>. QED  BY <1>1, <1>8, <1>11, <1>14 DEF all

---------------------------------------------------------------------------
\* An evaluation is made of numbers, whatever overrides it.
LEMMA EvaluationIsWhole ==
  ASSUME NEW p, NEW said, {"cp", "mate"} \subseteq DOMAIN said.root, IsWhole(said.root),
         said.restricted # None => IsWhole(said.restricted)
  PROVE  IsWhole(AG!E!Evaluate(p, said))
<1>1. IsWhole(AG!E!Terminal(p))
  BY DEF IsWhole, AG!E!Terminal, AG!E!FromEval, AG!E!Unsearched, AG!E!IsOver
<1> DEFINE ev == AG!E!Overridden(p, said.root, said.restricted)
<1>2. IsWhole(ev)
  BY DEF IsWhole, AG!E!Overridden, AG!E!Failed
<1>. HIDE DEF ev
<1>3. \A zero : IsWhole(AG!E!FromEval(p, ev, zero))
  BY <1>2 DEF IsWhole, AG!E!FromEval
<1>. QED  BY <1>1, <1>3 DEF AG!E!Evaluate, ev

LEMMA AnswersAreWhole ==
  ASSUME FitsGame(gameCall), NEW k \in Int, k + 1 \in DOMAIN gameCall.places, NEW e \in AG!Answers(k)
  PROVE  IsWhole(e)
<1>1. CASE AG!IsClaimedDraw(k)
  <2>1. e = AG!FiftyMoves(AG!Position(k))
    BY <1>1 DEF AG!Answers
  <2>2. \A q : IsWhole(AG!FiftyMoves(q))
    BY DEF IsWhole, AG!FiftyMoves, AG!E!FromEval
  <2>. QED  BY <2>1, <2>2
<1>2. CASE ~AG!IsClaimedDraw(k)
  <2>1. PICK said \in Searches[gameCall.places[k + 1]] : e = AG!E!Evaluate(AG!Position(k), said)
    BY <1>2 DEF AG!Answers
  <2>. QED  BY <2>1, EvaluationIsWhole DEF FitsGame
<1>. QED  BY <1>1, <1>2

LEMMA SituationsAreMeasurable ==
  ASSUME NEW p, NEW q, NEW action, NEW move, NEW e1, NEW e2, IsWhole(e1), IsWhole(e2), p.deficit \in Int
  PROVE  Measurable(AG!S!Situation(p, q, q, action, move, e1, e2))
<1>1. ASSUME NEW color, NEW e, IsWhole(e) PROVE IsWhole(AG!S!Scores(color, e))
  BY <1>1 DEF IsWhole, AG!S!Scores, AG!S!E!For, AG!S!E!Sign
<1>2. /\ AG!S!Situation(p, q, q, action, move, e1, e2).before = AG!S!Scores(p.turn, e1)
      /\ AG!S!Situation(p, q, q, action, move, e1, e2).after = AG!S!Scores(p.turn, e2)
      /\ AG!S!Situation(p, q, q, action, move, e1, e2).deficit = p.deficit
  BY DEF AG!S!Situation
<1>. QED  BY <1>1, <1>2 DEF Measurable

\* The first evaluations of a game.
WholeUpTo(n) == evals = [k \in 1..n |-> evals[k]] /\ \A k \in 1..n : IsWhole(evals[k])

LEMMA RecordsWeigh ==
  ASSUME FitsGame(gameCall), WholeUpTo(Len(gameCall.places))
  PROVE  /\ Len(gameCall.moves) \in Nat /\ DOMAIN AG!Records = 1..Len(gameCall.moves)
         /\ \A k \in 1..Len(gameCall.moves) : Weighs(AG!Records[k].score)
<1>1. /\ Len(gameCall.moves) \in Nat /\ Len(gameCall.places) = Len(gameCall.moves) + 1
      /\ DOMAIN gameCall.places = 1..Len(gameCall.places)
  BY DEF FitsGame, IsList
<1>2. DOMAIN AG!Records = 1..Len(gameCall.moves)
  BY DEF AG!Records, AG!Plies
<1>3. ASSUME NEW k \in 1..Len(gameCall.moves) PROVE Weighs(AG!Records[k].score)
  <2> DEFINE s == AG!S!Situation(AG!Position(k - 1), AG!Position(k), AG!Position(k), "play_move", gameCall.moves[k],
                                 AG!At(k - 1), AG!At(k))
  <2>1. AG!Records[k].score = AG!S!G!Grade(s)
    BY DEF AG!Records, AG!Plies, AG!Graded, AG!S!Score
  <2>2. k \in 1..Len(gameCall.places) /\ k + 1 \in 1..Len(gameCall.places) /\ (k - 1) + 1 = k
    BY <1>1
  <2>3. IsWhole(AG!At(k - 1)) /\ IsWhole(AG!At(k)) /\ AG!Position(k - 1).deficit \in Int
    BY <1>1, <2>2 DEF AG!At, AG!Position, WholeUpTo, FitsGame
  <2>4. Measurable(s)
    <3>. HIDE DEF s
    <3>. QED  BY <2>3, SituationsAreMeasurable DEF s
  <2>. HIDE DEF s
  <2>. QED  BY <2>1, <2>4, GradesWeigh
<1>. QED  BY <1>1, <1>2, <1>3

---------------------------------------------------------------------------
Critical == AG!C!CriticalPlies(gameCall.side, AG!Records, AG!EventsOf(AG!Records), AG!Most)

LEMMA CriticalStays ==
  ASSUME UNCHANGED <<gameCall, evals>>
  PROVE  Critical' = Critical
BY DEF Critical, AG!Records, AG!EventsOf, AG!Most, AG!Plies, AG!Position, AG!At, AG!Graded

Reviewed == coaching # None \/ stage \in Working

\* The evaluations come one by one; the moments chosen from them stay the same.
ScanInv ==
  /\ stage = "idle" => evals = <<>>
  /\ stage # "idle" => gameCall \in GameRequests
  /\ stage = "scan" => \E n \in Nat : n < Len(gameCall.places) /\ WholeUpTo(n)
  /\ stage \in {"count", "coach"} \/ Reviewed => WholeUpTo(Len(gameCall.places))
  /\ Reviewed => DOMAIN coaching.moments = Critical

---------------------------------------------------------------------------
\* The moments are rewritten, never chosen anew.
LEMMA ReviewKeeps ==
  ASSUME ScanInv, stage \in Working, UNCHANGED <<gameCall, evals>>, stage' # "idle",
         stage' \notin {"scan"}, DOMAIN coaching'.moments = DOMAIN coaching.moments
  PROVE  ScanInv'
<1>1. Critical' = Critical
  BY CriticalStays
<1>2. Reviewed /\ stage \notin {"idle", "scan"}
  BY DEF Reviewed, Working
<1>. QED  BY <1>1, <1>2 DEF ScanInv, WholeUpTo

LEMMA GameScans ==
  ASSUME \A r \in GameRequests : FitsGame(r), CoachInv, CoachInv', ScanInv, [AG!Next]_gameVars
  PROVE  ScanInv'
<1>1. CASE AG!AskGame
  <2>1. coaching' = None /\ stage' \in {"done", "scan"} /\ gameCall' \in GameRequests
        /\ evals' = <<>> /\ stage' \notin Working
    BY <1>1 DEF AG!AskGame, AG!Refuse, AG!End, CoachInv, ScanInv, Working
  <2>2. FitsGame(gameCall')
    BY <2>1
  <2>3. 0 < Len(gameCall'.places) /\ WholeUpTo(0)'
    <3>1. Len(gameCall'.moves) \in Nat
      BY <2>2 DEF FitsGame, IsList
    <3>. QED  BY <2>1, <2>2, <3>1 DEF FitsGame, WholeUpTo
  <2>. QED  BY <2>1, <2>3 DEF ScanInv, Reviewed
<1>2. CASE AG!Scan
  <2>1. PICK e \in AG!Answers(Len(evals)) : evals' = Append(evals, e)
    BY <1>2 DEF AG!Scan
  <2>2. PICK n \in Nat : n < Len(gameCall.places) /\ WholeUpTo(n)
    BY <1>2 DEF AG!Scan, ScanInv
  <2>3. gameCall \in GameRequests /\ FitsGame(gameCall) /\ coaching = None
    BY <1>2 DEF AG!Scan, ScanInv, CoachInv
  <2>4. Len(evals) = n /\ n + 1 \in DOMAIN gameCall.places /\ n \in Int
    BY <2>2, <2>3 DEF WholeUpTo, FitsGame, IsList
  <2>5. IsWhole(e)
    BY <2>1, <2>3, <2>4, AnswersAreWhole
  <2>6. /\ DOMAIN evals' = 1..(n + 1) /\ evals'[n + 1] = e
        /\ \A j \in 1..n : evals'[j] = evals[j]
        /\ evals' = [j \in 1..(n + 1) |-> evals'[j]] /\ Len(evals') = n + 1
    <3> DEFINE Said == {evals[j] : j \in 1..n} \cup {e}
               longer == Append(evals, e)
    <3>1. evals \in [1..n -> Said] /\ e \in Said
      BY <2>2 DEF WholeUpTo
    <3>. HIDE DEF Said
    <3>2. evals \in Seq(Said)
      BY <3>1
    <3>3. /\ longer \in Seq(Said) /\ Len(longer) = n + 1 /\ longer[n + 1] = e
          /\ \A j \in 1..n : longer[j] = evals[j]
      BY <2>4, <3>1, <3>2
    <3>4. longer \in [1..(n + 1) -> Said]
      <4>. HIDE DEF longer
      <4>. QED  BY <3>3
    <3>. HIDE DEF longer
    <3>. QED  BY <2>1, <3>3, <3>4 DEF longer
  <2>7. WholeUpTo(n + 1)'
    BY <2>2, <2>5, <2>6 DEF WholeUpTo
  <2>8. UNCHANGED gameCall /\ coaching' = None /\ stage' \in {"scan", "count"} /\ stage # "idle"
        /\ (stage' = "count" <=> n + 1 = Len(gameCall.places))
    BY <1>2, <2>3, <2>6 DEF AG!Scan
  <2>9. stage' = "scan" => n + 1 < Len(gameCall.places)
    BY <2>2, <2>3, <2>8 DEF FitsGame, IsList
  <2>. QED  BY <2>3, <2>7, <2>8, <2>9 DEF ScanInv, Reviewed, Working
<1>3. CASE AG!Count
  <2>1. coaching' = None /\ stage' \in {"done", "coach"} /\ UNCHANGED <<gameCall, evals>> /\ stage = "count"
        /\ stage' \notin Working
    BY <1>3 DEF AG!Count, AG!Refuse, AG!End, CoachInv, Working
  <2>. QED  BY <2>1 DEF ScanInv, Reviewed, WholeUpTo
<1>4. CASE AG!Coach
  <2>1. /\ coaching'.moments = AG!Coached.moments
        /\ stage' \in {"final", "praise", "verify"} /\ stage = "coach" /\ UNCHANGED <<gameCall, evals>>
    BY <1>4, CoachedMoments DEF AG!Coach, AG!GoOnWith, CoachFields
  <2>2. DOMAIN AG!Coached.moments = Critical
    BY DEF AG!Coached, AG!CoachedFrom, Critical
  <2>3. Critical' = Critical
    BY <2>1, CriticalStays
  <2>. QED  BY <2>1, <2>2, <2>3 DEF ScanInv, WholeUpTo
<1>5. CASE AG!VerifyGame
  <2>1. PICK verified : AG!Adopt(verified, AG!Doubtful(verified)) /\ DOMAIN verified = DOMAIN coaching.moments
    BY <1>5, Zenon DEF AG!VerifyGame
  <2>2. DOMAIN coaching = CoachFields /\ stage \in Working /\ UNCHANGED <<gameCall, evals>>
    BY <1>5 DEF AG!VerifyGame, Working, CoachInv
  <2>3. coaching'.moments = verified /\ stage' \in {"praise", "escalate"}
    BY <2>1, <2>2 DEF AG!Adopt, CoachFields
  <2>. QED  BY <2>1, <2>2, <2>3, ReviewKeeps
<1>6. CASE AG!EscalateMoment
  <2>1. DOMAIN coaching = CoachFields /\ stage \in Working /\ UNCHANGED <<gameCall, evals>>
        /\ stage' \in {"praise", "escalate"}
    BY <1>6 DEF AG!EscalateMoment, Working, CoachInv
  <2>2. PICK j, new, depth : coaching' = [coaching EXCEPT !.moments[j] = new, !.escalated = depth]
    BY <1>6 DEF AG!EscalateMoment
  <2>3. DOMAIN coaching'.moments = DOMAIN coaching.moments
    BY <2>1, <2>2 DEF CoachFields
  <2>. QED  BY <2>1, <2>3, ReviewKeeps
<1>7. CASE AG!Praise \/ AG!Final
  <2>1. stage \in Working /\ stage' \in {"final", "describe"} /\ DOMAIN coaching = CoachFields
        /\ UNCHANGED <<gameCall, evals>>
    BY <1>7 DEF AG!Praise, AG!Final, Working, CoachInv
  <2>2. coaching'.moments = coaching.moments
    BY <1>7, <2>1 DEF AG!Praise, AG!Final, CoachFields
  <2>. QED  BY <2>1, <2>2, ReviewKeeps
<1>8. CASE AG!Describe
  <2>1. stage' = "done" /\ stage \in Working /\ UNCHANGED <<gameCall, evals>> /\ DOMAIN coaching = CoachFields
    BY <1>8 DEF AG!Describe, AG!Deliver, AG!End, CoachInv, Working
  <2>2. coaching'.moments = [k \in DOMAIN coaching.moments |-> AG!Described(coaching.moments[k])]
    BY <1>8, <2>1 DEF AG!Describe, AG!Deliver, AG!DescribedBy, CoachFields
  <2>. QED  BY <2>1, <2>2, ReviewKeeps
<1>9. CASE AG!EngineFailsGame
  <2>1. stage' = "done" /\ stage # "idle" /\ UNCHANGED <<gameCall, evals, coaching>>
    BY <1>9 DEF AG!EngineFailsGame, AG!Refuse, AG!End
  <2>2. Critical' = Critical
    BY <2>1, CriticalStays
  <2>3. Reviewed' => Reviewed
    BY <2>1 DEF Reviewed, Working
  <2>. QED  BY <2>1, <2>2, <2>3 DEF ScanInv, WholeUpTo
<1>10. CASE AG!StopGame \/ UNCHANGED gameVars
  <2>1. UNCHANGED <<stage, gameCall, evals, coaching>>
    BY <1>10 DEF AG!StopGame, AG!agVars, gameVars
  <2>2. Critical' = Critical
    BY <2>1, CriticalStays
  <2>. QED  BY <2>1, <2>2 DEF ScanInv, WholeUpTo, Reviewed
<1>. QED  BY <1>1, <1>2, <1>3, <1>4, <1>5, <1>6, <1>7, <1>8, <1>9, <1>10 DEF AG!Next

\* While there is room for more, the critical moments of the coached side have every
\* one of its moves that is counted as a mistake or a blunder.
THEOREM MistakesAreKept ==
  ASSUME \A r \in GameRequests : FitsGame(r), None \notin Int
  PROVE  ToolsSpec => []NoMistakeIsLost
<1> DEFINE Inv == CoachInv /\ MomentsLose /\ ScanInv
<1>1. ToolsInit => Inv
  BY DEF ToolsInit, AG!Init, CoachInv, MomentsLose, ScanInv, Reviewed, Working
<1>2. Inv /\ [ToolsNext]_toolsVars => Inv'
  <2>1. [ToolsNext]_toolsVars => [AG!Next]_gameVars
    BY DEF ToolsNext, toolsVars, MoveStep, TopStep, GameStep
  <2>. QED  BY <2>1, GameLoses, GameScans
<1>3. Inv => NoMistakeIsLost
  <2>. SUFFICES ASSUME ScanInv, CoachInv, coaching # None, Cardinality(DOMAIN coaching.moments) < AG!Most,
                       NEW k \in AG!Plies, AG!Counted[k].side = gameCall.side,
                       AG!CountedAction(k) = "play_move", AG!Counted[k].score.class \in {"mistake", "blunder"}
                PROVE  k \in DOMAIN coaching.moments
    BY DEF NoMistakeIsLost
  <2>1. gameCall \in GameRequests /\ FitsGame(gameCall) /\ WholeUpTo(Len(gameCall.places))
        /\ DOMAIN coaching.moments = Critical
    BY DEF ScanInv, CoachInv, Reviewed
  <2>2. AG!Most \in Int
    BY <2>1 DEF FitsGame, AG!Most, AG!C!Capped
  <2>3. /\ Len(gameCall.moves) \in Nat /\ DOMAIN AG!Records = 1..Len(gameCall.moves)
        /\ \A j \in 1..Len(gameCall.moves) : Weighs(AG!Records[j].score)
    BY <2>1, RecordsWeigh
  <2>4. AG!Records[k].side = AG!Counted[k].side /\ AG!Records[k].score = AG!Counted[k].score
    BY DEF AG!Records, AG!Counted
  <2>5. k \in AG!C!OwnPlies(gameCall.side, AG!Records)
    BY <2>3, <2>4 DEF AG!C!OwnPlies, AG!Plies
  <2>. QED  BY <2>1, <2>2, <2>3, <2>4, <2>5, CriticalHasFaults DEF Critical
<1>. QED  BY <1>1, <1>2, <1>3, PTL DEF ToolsSpec

---------------------------------------------------------------------------
\* The segments of analyze_game are those of Coaching.
LEMMA SameSegments ==
  ASSUME NEW values
  PROVE  /\ AG!C!Segments(values) = CP!Segments(values)
         /\ \A v : AG!C!PositionState(v) = CP!PositionState(v)
<1>1. \A v : AG!C!PositionState(v) = CP!PositionState(v)
  BY DEF AG!C!PositionState, CP!PositionState
<1>2. \A first : AG!C!Started(first) = CP!Started(first)
  BY DEF AG!C!Started, CP!Started
<1>3. \A run, seen : AG!C!Observe(run, seen) = CP!Observe(run, seen)
  BY DEF AG!C!Observe, CP!Observe, AG!C!Current, CP!Current, AG!C!Last, CP!Last,
         AG!C!IsImmediate, CP!IsImmediate, AG!C!Distance, CP!Distance, AG!C!Caused, CP!Caused,
         AG!C!Rewritten, CP!Rewritten
<1>4. \A raw : AG!C!Confirmed(raw) = CP!Confirmed(raw)
  BY <1>2, <1>3 DEF AG!C!Confirmed, CP!Confirmed
<1>5. \A X, n : AG!C!Nth(X, n) = CP!Nth(X, n)
  BY DEF AG!C!Nth, CP!Nth, AG!C!Cardinality, CP!Cardinality
<1>6. \A states : /\ AG!C!Starts(states) = CP!Starts(states)
                  /\ AG!C!Cardinality(CP!Starts(states)) = CP!Cardinality(CP!Starts(states))
  BY DEF AG!C!Starts, CP!Starts, AG!C!Cardinality, CP!Cardinality
<1>7. \A v, raw, run, first, last :
        AG!C!Segment(v, raw, run, first, last) = CP!Segment(v, raw, run, first, last)
  <2>1. \A X : AG!C!Highest(X) = CP!Highest(X) /\ AG!C!Lowest(X) = CP!Lowest(X)
    BY DEF AG!C!Highest, CP!Highest, AG!C!Lowest, CP!Lowest
  <2>2. \A raw, state : AG!C!Stability(raw, state) = CP!Stability(raw, state)
    BY DEF AG!C!Stability, CP!Stability, AG!C!Cardinality, CP!Cardinality
  <2>. QED  BY <2>1, <2>2 DEF AG!C!Segment, CP!Segment
<1>8. \A v, raw, run : AG!C!Divided(v, raw, run) = CP!Divided(v, raw, run)
  BY <1>5, <1>6, <1>7 DEF AG!C!Divided, CP!Divided
<1>. QED  BY <1>1, <1>4, <1>8 DEF AG!C!Segments, CP!Segments

Worths == [k \in AG!Plies |-> AG!C!ValueFor(gameCall.side, AG!At(k))]

\* The segments are those of the values of the game from the first review on.
SegInv ==
  /\ stage # "idle" => gameCall \in GameRequests
  /\ stage \notin {"idle", "done"} => gameCall.moves # <<>>
  /\ Reviewed => gameCall.moves # <<>> /\ coaching.segments = AG!C!Segments(Worths)

LEMMA WorthsStay ==
  ASSUME UNCHANGED <<gameCall, evals>>
  PROVE  Worths' = Worths
BY DEF Worths, AG!Plies, AG!At

LEMMA SegmentsStay ==
  ASSUME SegInv, CoachInv, [AG!Next]_gameVars
  PROVE  SegInv'
<1>1. CASE AG!AskGame
  <2>1. coaching' = None /\ stage' \in {"done", "scan"} /\ gameCall' \in GameRequests
        /\ stage' \notin Working /\ (stage' = "scan" => gameCall'.moves # <<>>)
    BY <1>1 DEF AG!AskGame, AG!Refuse, AG!End, CoachInv, Working
  <2>. QED  BY <2>1 DEF SegInv, Reviewed
<1>2. CASE AG!Scan \/ AG!Count
  <2>1. coaching' = None /\ stage \in {"scan", "count"} /\ stage' \notin Working /\ UNCHANGED gameCall
    BY <1>2 DEF AG!Scan, AG!Count, AG!Refuse, AG!End, CoachInv, Working
  <2>. QED  BY <2>1 DEF SegInv, Reviewed
<1>3. CASE AG!Coach
  <2>1. /\ coaching'.segments = AG!Coached.segments
        /\ stage = "coach" /\ UNCHANGED <<gameCall, evals>>
    BY <1>3, CoachedMoments DEF AG!Coach, AG!GoOnWith, CoachFields
  <2>2. AG!Coached.segments = AG!C!Segments(Worths)
    BY DEF AG!Coached, AG!CoachedFrom, Worths
  <2>3. Worths' = Worths
    BY <2>1, WorthsStay
  <2>. QED  BY <2>1, <2>2, <2>3 DEF SegInv
<1>4. CASE AG!VerifyGame \/ AG!EscalateMoment \/ AG!Praise \/ AG!Final \/ AG!Describe
  <2>1. stage \in Working /\ UNCHANGED <<gameCall, evals>> /\ DOMAIN coaching = CoachFields
    BY <1>4 DEF AG!VerifyGame, AG!EscalateMoment, AG!Praise, AG!Final, AG!Describe, Working, CoachInv
  <2>2. coaching'.segments = coaching.segments
    <3>1. CASE AG!VerifyGame
      <4>1. PICK verified : AG!Adopt(verified, AG!Doubtful(verified)) /\ DOMAIN verified = DOMAIN coaching.moments
        BY <3>1, Zenon DEF AG!VerifyGame
      <4>. QED  BY <2>1, <4>1 DEF AG!Adopt, CoachFields
    <3>2. CASE AG!EscalateMoment
      <4>1. PICK j, new, depth : coaching' = [coaching EXCEPT !.moments[j] = new, !.escalated = depth]
        BY <3>2 DEF AG!EscalateMoment
      <4>. QED  BY <2>1, <4>1 DEF CoachFields
    <3>3. CASE AG!Praise \/ AG!Final \/ AG!Describe
      BY <2>1, <3>3 DEF AG!Praise, AG!Final, AG!Describe, AG!Deliver, AG!DescribedBy, CoachFields
    <3>. QED  BY <1>4, <3>1, <3>2, <3>3
  <2>3. Worths' = Worths
    BY <2>1, WorthsStay
  <2>. QED  BY <2>1, <2>2, <2>3 DEF SegInv, Reviewed, Working
<1>5. CASE AG!EngineFailsGame
  <2>1. stage' = "done" /\ stage # "idle" /\ UNCHANGED <<gameCall, evals, coaching>>
    BY <1>5 DEF AG!EngineFailsGame, AG!Refuse, AG!End
  <2>2. Reviewed' => Reviewed
    BY <2>1 DEF Reviewed, Working
  <2>3. Worths' = Worths
    BY <2>1, WorthsStay
  <2>. QED  BY <2>1, <2>2, <2>3 DEF SegInv
<1>6. CASE AG!StopGame \/ UNCHANGED gameVars
  <2>1. UNCHANGED <<stage, gameCall, evals, coaching>>
    BY <1>6 DEF AG!StopGame, AG!agVars, gameVars
  <2>2. Worths' = Worths
    BY <2>1, WorthsStay
  <2>. QED  BY <2>1, <2>2 DEF SegInv, Reviewed
<1>. QED  BY <1>1, <1>2, <1>3, <1>4, <1>5, <1>6 DEF AG!Next

\* Whatever the engine says of the positions of a game, the segments of its
\* evaluation cover it without a gap, differ from their neighbours, and start at a
\* position that reads like them.
THEOREM SegmentsTile ==
  ASSUME \A r \in GameRequests : FitsGame(r), None \notin Int
  PROVE  ToolsSpec => []SegmentsTileTheGame
<1> DEFINE Inv == CoachInv /\ MomentsLose /\ SegInv
<1>1. ToolsInit => Inv
  BY DEF ToolsInit, AG!Init, CoachInv, MomentsLose, SegInv, Reviewed, Working
<1>2. Inv /\ [ToolsNext]_toolsVars => Inv'
  <2>1. [ToolsNext]_toolsVars => [AG!Next]_gameVars
    BY DEF ToolsNext, toolsVars, MoveStep, TopStep, GameStep
  <2>. QED  BY <2>1, GameLoses, SegmentsStay
<1>3. Inv => SegmentsTileTheGame
  <2>. SUFFICES ASSUME SegInv, CoachInv, coaching # None PROVE SegmentsTileTheGame
    BY DEF SegmentsTileTheGame
  <2> DEFINE n == Len(gameCall.moves)
             all == coaching.segments
             raw == [k \in 1..n |-> CP!PositionState(Worths[k])]
  <2>1. /\ gameCall \in GameRequests /\ FitsGame(gameCall) /\ gameCall.moves # <<>>
        /\ all = AG!C!Segments(Worths)
    BY DEF SegInv, CoachInv, Reviewed
  <2>2. n \in Nat \ {0}
    BY <2>1 DEF FitsGame, IsList
  <2>3. Len(Worths) = n /\ DOMAIN Worths = 1..Len(Worths)
    BY <2>2 DEF Worths, AG!Plies
  <2>4. CP!TilesFor(all, raw) /\ Len(raw) = n
    <3>. HIDE DEF n
    <3>1. CP!TilesFor(CP!Segments(Worths), [k \in 1..Len(Worths) |-> CP!PositionState(Worths[k])])
      BY <2>2, <2>3, CP!SegmentsTileValues
    <3>. QED  BY <2>1, <2>2, <2>3, <3>1, SameSegments
  <2>5. \A k \in 1..n : raw[k] = AG!C!PositionState(AG!C!ValueFor(gameCall.side, AG!At(k)))
    BY SameSegments DEF Worths, AG!Plies
  <2>. HIDE DEF raw
  <2>6. ASSUME NEW k \in 2..Len(all)
        PROVE  /\ all[k].start = all[k - 1].end + 1 /\ all[k].state # all[k - 1].state
               /\ all[k].confirmed \in all[k].start..all[k].end
               /\ AG!C!PositionState(AG!C!ValueFor(gameCall.side, AG!At(all[k].start))) = all[k].state
    BY <2>4, <2>5, <2>6 DEF CP!TilesFor
  <2>7. all # <<>> /\ all[1].start = 1 /\ all[Len(all)].end = n
    BY <2>4 DEF CP!TilesFor
  <2>. QED  BY <2>6, <2>7 DEF SegmentsTileTheGame
<1>. QED  BY <1>1, <1>2, <1>3, PTL DEF ToolsSpec
=============================================================================
