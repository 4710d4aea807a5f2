----------------------------- MODULE ChessRules -----------------------------
(***************************************************************************)
(* mcp_server/rules over an abstract game: positions are the nodes of a    *)
(* graph whose edges are the legal moves, and what python-chess finds by   *)
(* looking at the squares (check, material, a locked pawn chain) is a fact *)
(* about a node.  A board is the path played since its stack begins and    *)
(* the halfmove clock, so repetitions and move counts are computed as the  *)
(* code does.  A board built from a FEN has a path of one position.        *)
(***************************************************************************)
EXTENDS Integers, Sequences, FiniteSets

CONSTANT Pos   \* position -> its facts, see PositionFacts

NONE == "none"
Colors == {"white", "black"}
Other(c) == IF c = "white" THEN "black" ELSE "white"

\* The pieces beside the king; bishops are counted by the colour of their square.
Army == [strong: BOOLEAN, knights: Nat, light: Nat, dark: Nat]
Bare == [strong |-> FALSE, knights |-> 0, light |-> 0, dark |-> 0]

\* locked is what the search over pawns, bishops and kings in dead_position.py
\* finds; balance is the material of White less that of Black.
PositionFacts ==
  [turn: Colors, check: BOOLEAN, insufficient: BOOLEAN, locked: BOOLEAN,
   army: [Colors -> Army], balance: Int,
   moves: SUBSET [to: DOMAIN Pos, zeroing: BOOLEAN]]

ASSUME PosAssumption == Pos \in [DOMAIN Pos -> PositionFacts]

\* Chess: these armies, and no others, have ever mated.
MatingArmy(a, other) ==
  \/ a.strong \/ a.knights >= 2
  \/ a.light > 0 /\ a.dark > 0
  \/ a.knights > 0 /\ a.light + a.dark > 0
  \/ a # Bare /\ other # Bare

ASSUME MateNeedsMaterial ==
  \A p \in DOMAIN Pos : Pos[p].check /\ Pos[p].moves = {} =>
    LET mated == Pos[p].turn
    IN  MatingArmy(Pos[p].army[Other(mated)], Pos[p].army[mated])

Boards == [path: Seq(DOMAIN Pos) \ {<<>>}, clock: Nat]
Here(b) == Pos[b.path[Len(b.path)]]
Push(b, m) == [path  |-> Append(b.path, m.to),
               clock |-> IF m.zeroing THEN 0 ELSE b.clock + 1]
\* The board of the same position given as a FEN.
FromFen(b) == [b EXCEPT !.path = <<b.path[Len(b.path)]>>]

---------------------------------------------------------------------------
\* python-chess.  A zeroing move never leads back, so counting over the whole
\* path is counting since the last irreversible move.
IsCheckmate(b) == Here(b).check /\ Here(b).moves = {}
IsStalemate(b) == ~Here(b).check /\ Here(b).moves = {}
IsInsufficient(b) == Here(b).insufficient
IsFifty(b) == b.clock >= 100 /\ Here(b).moves # {}
IsSeventyFive(b) == b.clock >= 150 /\ Here(b).moves # {}
IsRepetition(b, n) ==
  Cardinality({i \in DOMAIN b.path : b.path[i] = b.path[Len(b.path)]}) >= n
IsGameOver(b) == \/ Here(b).moves = {}
                 \/ IsInsufficient(b) \/ IsSeventyFive(b) \/ IsRepetition(b, 5)

---------------------------------------------------------------------------
IsLockedDead(b) == IsInsufficient(b) \/ Here(b).locked

IsTerminal(b) ==
  \/ IsCheckmate(b) \/ IsStalemate(b) \/ IsInsufficient(b)
  \/ IsSeventyFive(b) \/ IsRepetition(b, 5) \/ IsLockedDead(b)

HistoryStates == {"complete", "partial", "incomplete"}
HasHistory(h) == h \in {"complete", "partial"}

\* Faulty variant: without python-chess's own verdict at the end.
RuleTerminalByFlagsOnly(b, h) ==
  IF IsCheckmate(b) THEN "checkmate"
  ELSE IF IsStalemate(b) THEN "stalemate"
  ELSE IF IsInsufficient(b) THEN "insufficient_material"
  ELSE IF IsSeventyFive(b) THEN "seventyfive_moves"
  ELSE IF HasHistory(h) /\ IsRepetition(b, 5) THEN "fivefold_repetition"
  ELSE IF IsLockedDead(b) THEN "dead_position"
  ELSE NONE

\* The first terminal rule that holds.
RuleTerminal(b, h) ==
  IF IsCheckmate(b) THEN "checkmate"
  ELSE IF IsStalemate(b) THEN "stalemate"
  ELSE IF IsInsufficient(b) THEN "insufficient_material"
  ELSE IF IsSeventyFive(b) THEN "seventyfive_moves"
  ELSE IF HasHistory(h) /\ IsRepetition(b, 5) THEN "fivefold_repetition"
  ELSE IF IsLockedDead(b) THEN "dead_position"
  ELSE IF IsGameOver(b) THEN "game_over"
  ELSE NONE

CanCheckmate(b, c) ==
  LET a == Here(b).army[c]
      bishops == a.light + a.dark
  IN  \/ a.strong
      \/ a.knights + bishops > 0 /\ Here(b).army[Other(c)] # Bare
      \/ a.knights >= 2
      \/ a.knights = 1 /\ bishops > 0
      \/ a.light > 0 /\ a.dark > 0

---------------------------------------------------------------------------
\* Claims.  A reason that already holds is not looked for again in the moves.
ReasonsNow(b, h) ==
  (IF IsFifty(b) THEN {"fifty_moves"} ELSE {}) \cup
  (IF HasHistory(h) /\ IsRepetition(b, 3) THEN {"threefold_repetition"} ELSE {})

\* Faulty variant: captures and pawn moves count as quiet moves.
IntendedReasonsOfAnyMove(b, h, m) ==
  (IF b.clock + 1 >= 100 THEN {"fifty_moves"} ELSE {}) \cup
  (IF HasHistory(h) /\ IsRepetition(Push(b, m), 3)
   THEN {"threefold_repetition"} ELSE {})

IntendedReasons(b, h, m) ==
  (IF ~m.zeroing /\ b.clock + 1 >= 100 THEN {"fifty_moves"} ELSE {}) \cup
  (IF HasHistory(h) /\ IsRepetition(Push(b, m), 3)
   THEN {"threefold_repetition"} ELSE {})

Intended(b, h) ==
  {m \in Here(b).moves : IntendedReasons(b, h, m) \ ReasonsNow(b, h) # {}}

\* What the evaluations say, as far as the choice of an action looks at it: the
\* mover mates, a zeroing move mates or wins, the mover's score.
Views == [mates: BOOLEAN, zeroingWins: BOOLEAN,
          score: {"unknown", "better", "equal_or_worse"}]

IsMoverDown(b) ==
  (IF Here(b).turn = "white" THEN -Here(b).balance ELSE Here(b).balance) >= 200

IsMoverInTrouble(b, v) == v.score = "equal_or_worse" \/ IsMoverDown(b)

ChooseAction(b, now, intended, v) ==
  IF (now \/ intended) /\ ~v.mates /\ ~v.zeroingWins /\ IsMoverInTrouble(b, v)
  THEN IF now THEN "claim_draw" ELSE "claim_draw_with_intended_move"
  ELSE "play_move"

RuleStatus(b, h, v) ==
  LET now == ReasonsNow(b, h)
      intended == Intended(b, h)
      terminal == RuleTerminal(b, h)
  IN  IF terminal # NONE
      THEN [terminal |-> terminal, now |-> {}, intended |-> {},
            winner |-> IF terminal = "checkmate" THEN Other(Here(b).turn) ELSE NONE,
            recommended |-> "game_over"]
      ELSE [terminal |-> NONE, now |-> now, intended |-> intended,
            winner |-> NONE,
            recommended |-> ChooseAction(b, now # {}, intended # {}, v)]
=============================================================================
