---------------------------- MODULE MCGameRecord ----------------------------
(* A rook ending, a pawn ending that locks, and a knight against a pawn. *)
EXTENDS GameRecord

Strong == [Bare EXCEPT !.strong = TRUE]
Knight == [Bare EXCEPT !.knights = 1]
Ending(turn, white, black, balance, moves) ==
  [turn |-> turn, check |-> FALSE, insufficient |-> FALSE, locked |-> FALSE,
   army |-> [c \in Colors |-> IF c = "white" THEN white ELSE black],
   balance |-> balance, moves |-> moves]
Quiet(p) == [to |-> p, zeroing |-> FALSE]
Zeroing(p) == [to |-> p, zeroing |-> TRUE]

Rook(turn, moves) == Ending(turn, Strong, Bare, 500, moves)
Kings(turn, moves) == [Ending(turn, Bare, Bare, 0, moves) EXCEPT !.insufficient = TRUE]
Pawns(turn, moves) == Ending(turn, Strong, Strong, -100, moves)
Locked(turn, moves) == [Pawns(turn, moves) EXCEPT !.locked = TRUE]
Minor(turn, moves) == Ending(turn, Knight, Strong, 200, moves)

Graph ==
  [r1 |-> Rook("white", {Quiet("r2")}),
   r2 |-> Rook("black", {Quiet("r3"), Zeroing("k1")}),
   r3 |-> Rook("white", {Quiet("r4"), Quiet("mated"), Quiet("stuck")}),
   r4 |-> Rook("black", {Quiet("r1")}),
   mated |-> [Rook("black", {}) EXCEPT !.check = TRUE],
   stuck |-> Rook("black", {}),
   k1 |-> Kings("white", {Quiet("k2")}),
   k2 |-> Kings("black", {Quiet("k3")}),
   k3 |-> Kings("white", {Quiet("k4")}),
   k4 |-> Kings("black", {Quiet("k1")}),
   p1 |-> Pawns("white", {Zeroing("l1"), Quiet("p2")}),
   p2 |-> Pawns("black", {Zeroing("l2")}),
   l1 |-> Locked("black", {Quiet("l2")}),
   l2 |-> Locked("white", {Quiet("l3")}),
   l3 |-> Locked("black", {Quiet("l4")}),
   l4 |-> Locked("white", {Quiet("l1")}),
   n1 |-> Minor("white", {Quiet("n2"), Quiet("smothered")}),
   n2 |-> Minor("black", {Zeroing("b1")}),
   smothered |-> [Minor("black", {}) EXCEPT !.check = TRUE],
   b1 |-> Ending("white", Bare, Strong, -900, {Quiet("b2")}),
   b2 |-> Ending("black", Bare, Strong, -900, {Quiet("lost")}),
   lost |-> [Ending("white", Bare, Strong, -900, {}) EXCEPT !.check = TRUE]]

At(p, n) == [path |-> <<p>>, clock |-> n]
Openings == {At("r1", 88), At("r1", 147), At("p1", 99), At("n1", 0),
             At("k1", 0)}

Says(norm) == [Absent EXCEPT !.present = TRUE, !.norm = norm, !.known = TRUE]
Headers ==
  {Absent,
   Says("normal"),
   Says("checkmate"),
   Says("fifty_moves"),
   Says("threefold_repetition"),
   Says("insufficient_material"),
   Says("unterminated"),
   \* "Stalemate": no rule of normalize_termination finds it.
   Says(NONE),
   \* "Adjourned"
   [Says(NONE) EXCEPT !.known = FALSE],
   \* "White resigned"
   [Says("resignation") EXCEPT !.forfeit = "resignation"],
   \* "White won on time" and "Black wins on time"
   [Says("time_forfeit") EXCEPT !.forfeit = "time", !.infers = "1-0"],
   [Says("time_forfeit") EXCEPT !.forfeit = "time", !.infers = "0-1"],
   \* "Draw by agreement"
   [Says("draw_agreement") EXCEPT !.agreement = TRUE]}

\* TLC evaluates a definition of constant level once, but not one that a constant is
\* given in the configuration: hence these names.
MCPos == Graph
MCStarts == Openings
MCWordings == Headers
=============================================================================
