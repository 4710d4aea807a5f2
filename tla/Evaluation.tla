----------------------------- MODULE Evaluation -----------------------------
(***************************************************************************)
(* From what the engine and the rules say of a position to the evaluation  *)
(* the tools work with (engine/cached_evaluator.py, zeroing_post_state*.py, *)
(* eval_pipeline.py, rules/action_choice.py, models/mcpeval_factory.py,    *)
(* domain/action.py).  Scores are White's, as in the code.                 *)
(***************************************************************************)
EXTENDS Integers, Sequences

CONSTANT None      \* Python's None

Colors == {"white", "black"}
Other(color) == IF color = "white" THEN "black" ELSE "white"
Sign(color) == IF color = "white" THEN 1 ELSE -1

\* A score for a colour: the sign turns it, None stays None.
For(color, x) == IF x = None THEN None ELSE Sign(color) * x

\* A move of the position: whether it zeroes the clock and whether the game is
\* over, by mate or by a rule, or a draw can be claimed by fifty moves after it;
\* ply is what a line shows of it.
Moves == [zeroing: BOOLEAN, mates: BOOLEAN, over: BOOLEAN, rule75: BOOLEAN, rule50: BOOLEAN,
          ply: Nat]

\* A position: who moves, the halfmove clock, how the game ended if it did, the
\* claims the rules allow, the opponent's material less the mover's, its legal
\* moves in generation order and the indexes of those that announce a claim.
IsOver(p) == p.terminal # None
MoveOf(p, best) == p.moves[best]
IsLegal(p, best) == best \in DOMAIN p.moves

---------------------------------------------------------------------------
\* rules/action_choice.py.  The scores are the mover's.
InTrouble(p, score) ==
  p.deficit >= 200 \/ (score # None /\ score <= 50)

WinsByZeroing(zero) ==
  (zero.mate # None /\ zero.mate > 0) \/ (zero.cp # None /\ zero.cp >= 2000)

ChooseAction(p, score, mate, zero) ==
  IF ~(p.now \/ p.intended) THEN "play_move"
  ELSE IF (mate # None /\ mate > 0) \/ WinsByZeroing(zero) THEN "play_move"
  ELSE IF ~InTrouble(p, score) THEN "play_move"
  ELSE IF p.now THEN "claim_draw"
  ELSE "claim_draw_with_intended_move"

---------------------------------------------------------------------------
\* What a capture or pawn move is worth to the mover once it is played; only a
\* gain counts.  Failed is an engine call that raised.
Nothing == [cp |-> None, mate |-> None]
Failed == None

Gain(p, answer) ==
  IF answer = Failed THEN Nothing
  ELSE IF answer.mate # None
  THEN IF For(p.turn, answer.mate) > 0
       THEN [cp |-> None, mate |-> For(p.turn, answer.mate)] ELSE Nothing
  ELSE IF answer.cp # None /\ For(p.turn, answer.cp) > 0
       THEN [cp |-> For(p.turn, answer.cp), mate |-> None] ELSE Nothing

\* The engine's own move, searched to the full depth.
ZeroingOfBest(p, best, answer) ==
  IF p.clock < 100 \/ ~IsLegal(p, best) THEN Nothing
  ELSE IF MoveOf(p, best).zeroing /\ ~MoveOf(p, best).over /\ ~MoveOf(p, best).mates
  THEN Gain(p, answer) ELSE Nothing

\* Every such move, searched to depth 6 at most: the nearest mate, else the
\* largest gain; answers[k] is what the engine says after move k.
ZeroingMoves(p) == {k \in DOMAIN p.moves : p.moves[k].zeroing}

Gains(p, answers) ==
  [k \in ZeroingMoves(p) |->
     IF p.moves[k].mates THEN [cp |-> None, mate |-> 1]
     ELSE IF p.moves[k].over THEN Nothing
     ELSE Gain(p, answers[k])]

BestGain(gains) ==
  LET scored == {k \in DOMAIN gains : gains[k].cp # None}
      mating == {k \in DOMAIN gains : gains[k].mate # None}
  IN  IF mating # {} THEN gains[CHOOSE k \in mating : \A j \in mating : gains[k].mate <= gains[j].mate]
      ELSE IF scored # {} THEN gains[CHOOSE k \in scored : \A j \in scored : gains[j].cp <= gains[k].cp]
      ELSE Nothing

\* Faulty variant: the engine's own move decides alone.
ZeroingOfBestOnly(p, best, own, answers) == ZeroingOfBest(p, best, own)

\* _compute_pos: all zeroing moves are looked at unless the engine's wins.
Zeroing(p, best, own, answers) ==
  LET mine == ZeroingOfBest(p, best, own)
      all == BestGain(Gains(p, answers))
  IN  IF p.clock < 100 \/ IsOver(p) \/ WinsByZeroing(mine) THEN mine
      ELSE IF all.mate # None THEN all
      ELSE IF all.cp # None /\ all.cp > (IF mine.cp = None THEN 0 ELSE mine.cp) THEN all
      ELSE mine

---------------------------------------------------------------------------
\* A best move that runs into the 75-move rule, or lets the opponent claim, is
\* replaced by the first legal move that mates or zeroes the clock.
Misplays(p, best) ==
  /\ p.clock >= 100 /\ IsLegal(p, best)
  /\ MoveOf(p, best).rule75 \/ MoveOf(p, best).rule50

Replacements(p) ==
  {k \in DOMAIN p.moves : p.moves[k].mates \/ (p.moves[k].zeroing /\ ~p.moves[k].rule75)}

Replacement(p) ==
  IF Replacements(p) = {} THEN None
  ELSE CHOOSE k \in Replacements(p) : \A j \in Replacements(p) : k <= j

\* A mate is written down as mate 1 whoever gives it; another move takes over
\* what the engine says of it, if it says anything.  The expectation stays that
\* of the move that was replaced.
Overridden(p, ev, restricted) ==
  IF ~Misplays(p, ev.best) \/ Replacement(p) = None THEN ev
  ELSE LET k == Replacement(p)
       IN  IF p.moves[k].mates THEN [ev EXCEPT !.best = k, !.mate = 1, !.cp = None,
                                                   !.pv = <<p.moves[k].ply>>]
           ELSE IF restricted = Failed THEN ev
           ELSE [ev EXCEPT !.best = k, !.cp = restricted.cp, !.mate = restricted.mate,
                                 !.pv = restricted.pv]

---------------------------------------------------------------------------
\* What the mover's score counts as for the choice of an action.
RuleScore(p, ev) == IF ev.cp # None THEN For(p.turn, ev.cp)
                    ELSE IF ev.mate # None THEN For(p.turn, ev.mate) * 1000
                    ELSE None

Decision(p, ev, action) ==
  IF p.terminal = "checkmate" THEN [outcome |-> IF p.turn = "white" THEN "loss" ELSE "win", cp |-> None]
  ELSE IF IsOver(p) THEN [outcome |-> "draw", cp |-> 0]
  ELSE IF ev.mate # None THEN [outcome |-> IF ev.mate > 0 THEN "win" ELSE "loss", cp |-> None]
  ELSE IF \/ p.now /\ action = "claim_draw"
          \/ p.intended /\ action = "claim_draw_with_intended_move"
  THEN [outcome |-> "draw", cp |-> 0]
  ELSE [outcome |-> "active", cp |-> ev.cp]

\* MCPEval.from_eval: the best move stays that of the engine, the one to play
\* does not exist where a claim is recommended.
FromEval(p, ev, zero) ==
  LET action == IF IsOver(p) THEN "game_over"
                ELSE ChooseAction(p, RuleScore(p, ev), For(p.turn, ev.mate), zero)
  IN  [status |-> IF IsOver(p) THEN p.terminal ELSE "active",
       winner |-> IF p.terminal = "checkmate" THEN Other(p.turn) ELSE None,
       cp |-> IF p.terminal = "checkmate" THEN None ELSE IF IsOver(p) THEN 0 ELSE ev.cp,
       mate |-> IF p.terminal = "checkmate" THEN (IF ev.mate = None THEN 1 ELSE ev.mate)
                ELSE IF IsOver(p) THEN None ELSE ev.mate,
       best |-> ev.best, pv |-> ev.pv, wdl |-> ev.wdl,
       execute |-> IF action = "play_move" THEN ev.best ELSE None,
       action |-> action, decision |-> Decision(p, ev, action)]

Unsearched == [cp |-> None, mate |-> None, best |-> None, pv |-> <<>>, wdl |-> None]

\* build_terminal_mcpeval: a finished game is not searched.
Terminal(p) ==
  [FromEval(p, Unsearched, Nothing) EXCEPT
     !.mate = IF p.terminal = "checkmate" THEN 0 ELSE None, !.execute = None]

\* force_draw_outcome: the evaluation of a game that a claim has ended.
ClaimProjected(e) ==
  [e EXCEPT !.status = "draw", !.cp = 0, !.mate = None, !.best = None, !.execute = None,
            !.pv = <<>>, !.wdl = None, !.action = "game_over",
            !.decision = [outcome |-> "draw", cp |-> 0]]

\* evaluate_game_position_cached past its caches: what the engine says of the
\* root, of its own move, of each zeroing move, of the replacement alone.
Evaluate(p, said) ==
  IF IsOver(p) THEN Terminal(p)
  ELSE FromEval(p, Overridden(p, said.root, said.restricted),
                Zeroing(p, said.root.best, said.own, said.posts))

\* build_legal_actions: the claims the rules allow, the moves the engine gave.
LegalActions(p, engineMoves) ==
  (IF p.now THEN {<<"claim_draw", None>>} ELSE {})
    \cup (IF p.intended THEN {<<"claim_draw_with_intended_move", k>> : k \in p.announced} ELSE {})
    \cup {<<"play_move", k>> : k \in engineMoves}
    \cup (IF IsOver(p) THEN {<<"game_over", None>>} ELSE {})

---------------------------------------------------------------------------
\* contracts/mate_state.py: the mate of an evaluation is read as that of the
\* side to move.
MateState(turn, e) ==
  IF e.status = "checkmate" /\ e.winner # None THEN e.winner
  ELSE IF e.mate \in {None, 0} THEN None
  ELSE IF e.mate > 0 THEN turn ELSE Other(turn)

\* analysis/classify_helpers.py: the outcome of an evaluation for a colour.
OutcomeFor(color, e) ==
  IF e.status = "checkmate"
  THEN IF e.winner = None THEN "active" ELSE IF e.winner = color THEN "win" ELSE "loss"
  ELSE IF e.status # "active" THEN "draw"
  ELSE IF e.mate # None /\ e.mate # 0 THEN IF For(color, e.mate) > 0 THEN "win" ELSE "loss"
  ELSE IF e.cp = None THEN "active"
  ELSE IF For(color, e.cp) >= 2000 THEN "win"
  ELSE IF For(color, e.cp) <= -2000 THEN "loss"
  ELSE "active"

ActionOutcome(action, color, e) ==
  IF action \in {"claim_draw", "claim_draw_with_intended_move"} THEN "draw"
  ELSE OutcomeFor(color, e)
=============================================================================
