-------------------------------- MODULE Tools --------------------------------
(***************************************************************************)
(* The server with its three judging tools, classify_move, top_moves and   *)
(* analyze_game, each answering a call of its own.  They share the rules    *)
(* of evaluation and nothing else: a step of one leaves the others alone.  *)
(***************************************************************************)
EXTENDS ClassifyMove

CONSTANTS
  Lists, Posts, Calls, Times,     \* what top_moves is asked and answered
  Tops, GameRequests              \* analyze_game likewise

VARIABLES
  call, step, cache, items, answer, made,                               \* TopMoves
  gameCall, stage, evals, metrics, coaching, pending, gameReport        \* AnalyzeGame

TM == INSTANCE TopMoves
AG == INSTANCE AnalyzeGame
        WITH Requests <- GameRequests, game <- gameCall, report <- gameReport

topVars == <<call, step, cache, items, answer, made>>
gameVars == <<gameCall, stage, evals, metrics, coaching, pending, gameReport>>
toolsVars == <<vars, topVars, gameVars>>

ToolsInit == Init /\ TM!TopInit /\ AG!Init

MoveStep == Next /\ UNCHANGED topVars /\ UNCHANGED gameVars
TopStep == TM!TopNext /\ UNCHANGED vars /\ UNCHANGED gameVars
GameStep == AG!Next /\ UNCHANGED vars /\ UNCHANGED topVars

ToolsNext == MoveStep \/ TopStep \/ GameStep

ToolsSpec == ToolsInit /\ [][ToolsNext]_toolsVars

---------------------------------------------------------------------------
\* What classify_move and analyze_game call a loss to the strongest reply is
\* seen on a line that begins with that reply, whichever search found it.
LossIsOf(signs, r, line) ==
  "DELAYED_MATERIALIZATION_AFTER_FORCING_REPLY" \in signs =>
    r # None /\ line # <<>> /\ Head(line) = r.ply

LossIsTheReplys ==
  /\ LossIsOf(evidence.signs, evidence.strongest, evidence.line)
  /\ coaching # None =>
       \A k \in DOMAIN coaching.moments :
         LossIsOf(coaching.moments[k].signs, coaching.moments[k].reply, AG!At(k).pv)

\* What a row of top_moves promises the mover.  A row that was made up for a
\* winning capture holds the mover's own numbers, the others White's.
Root == Facts[call.place]
Turned(x) == E!For(Root.turn, x)
PromisedMate(item) == IF item.madeUp THEN item.postMate ELSE Turned(TM!EffMate(item))
PromisedCp(item) ==
  IF PromisedMate(item) # None THEN None
  ELSE IF item.madeUp THEN item.postCp ELSE Turned(TM!EffCp(item))

\* The code reads every row as White's, and beside the centipawns that a made-up
\* row won it still reads the mate of the row it replaced.  Where neither changes
\* anything a made-up row is read as it is meant.
ReadAsMeant(item) ==
  item.madeUp => Root.turn = "white" /\ (item.postMate # None \/ item.mate = None)

\* A draw is recommended only where no capture or pawn move wins: at a clock of
\* a hundred none that the evaluation searched, and none among the candidates of
\* top_moves, by what their rows promise, that are read as they are meant.  What a
\* caller adds to them is looked at after the action was chosen.
WinsAt(p, posts, k) ==
  LET gain == E!Gains(p, posts)[k] IN E!WinsByZeroing(gain)

PromisesToWin(item) ==
  E!WinsByZeroing([mate |-> PromisedMate(item), cp |-> PromisedCp(item)])

OfTheEngine == step = "done" /\ answer.ok /\ call.include = <<>> /\ items # <<>>

ClaimsLeaveNoWinBehind ==
  /\ phase = "after" /\ P.clock >= 100 =>
       \E said \in Searches[request.place] :
         /\ before = E!Evaluate(P, said)
         /\ before.action \in G!Claims => \A k \in E!ZeroingMoves(P) : ~WinsAt(P, said.posts, k)
  /\ OfTheEngine /\ answer.action \in G!Claims =>
       \A k \in DOMAIN items :
         TM!Zeroes(Root, items[k]) /\ ReadAsMeant(items[k]) => ~PromisesToWin(items[k])

\* What the ranking takes for granted: scores are numbers, no mate is a thousand
\* moves away, the engine announces none in a position that is drawn, a move that
\* mates leads to a mate.
IsList(f) == f \in Seq({f[k] : k \in DOMAIN f})
IsWhole(e) == (e.cp # None => e.cp \in Int) /\ (e.mate # None => e.mate \in Int)
IsScore(x) == x # None => x \in Int
IsDistance(x) == x # None => x \in Int /\ -1000 < x /\ x < 1000 /\ x # 0
InScale(e) == IsScore(e.cp) /\ IsDistance(e.mate)

FitsRanking(c) ==
  LET p == Facts[c.place]
      Ending(k) == Facts[p.moves[k].leads].terminal
  IN  /\ c.n \in Int /\ IsList(p.moves)
      /\ \A list \in Lists[c.place] : IsList(list) /\ \A k \in DOMAIN list : InScale(list[k])
      /\ \A k \in E!ZeroingMoves(p) : p.moves[k].mates => Ending(k) = "checkmate"
      /\ \A posts \in Posts[c.place], k \in DOMAIN p.moves :
           posts[k] # None => /\ InScale(posts[k])
                              /\ TM!Drawn(Ending(k)) => posts[k].mate = None

\* What the choice of an action takes for granted: scores are numbers.
FitsChoice(x) ==
  /\ Facts[x].clock \in Nat /\ IsList(Facts[x].moves)
  /\ \A said \in Searches[x] :
       /\ said.own # None => IsWhole(said.own)
       /\ \A k \in E!ZeroingMoves(Facts[x]) : said.posts[k] # None => IsWhole(said.posts[k])

\* What the analysis of a game takes for granted: one position more than there are
\* moves, scores and balances of material that are numbers.
FitsGame(r) ==
  /\ r.most \in Int
  /\ IsList(r.moves) /\ IsList(r.places) /\ Len(r.places) = Len(r.moves) + 1
  /\ \A k \in DOMAIN r.places :
       /\ Facts[r.places[k]].deficit \in Int
       /\ \A said \in Searches[r.places[k]] :
            /\ {"cp", "mate"} \subseteq DOMAIN said.root /\ IsWhole(said.root)
            /\ said.restricted # None => IsWhole(said.restricted)

\* The candidates of top_moves come in the order of what they promise the mover,
\* made-up rows that are not read as they are meant excepted: what wins, what is
\* open, what loses; the nearer mate first if it is the mover's and last if not,
\* the higher score first.  A score past 9000 counts as a win or a loss, as it ranks
\* among the mates.
Mating(item) == item.post = "checkmate" \/ (PromisedMate(item) # None /\ PromisedMate(item) > 0)
LosesToMate(item) == item.post # "checkmate" /\ PromisedMate(item) # None /\ PromisedMate(item) < 0
Centipawns(item) ==
  IF TM!Drawn(item.post) \/ PromisedCp(item) = None THEN 0 ELSE PromisedCp(item)
Winning(item) == Mating(item) \/ (~LosesToMate(item) /\ Centipawns(item) > 9000)
Losing(item) == LosesToMate(item) \/ (~Mating(item) /\ Centipawns(item) < -9000)

InOrder(a, b) ==
  /\ Winning(b) => Winning(a)
  /\ Losing(a) => Losing(b)
  /\ Mating(a) /\ Mating(b) /\ b.post # "checkmate" =>
       a.post = "checkmate" \/ PromisedMate(a) <= PromisedMate(b)
  /\ LosesToMate(a) /\ LosesToMate(b) => PromisedMate(a) <= PromisedMate(b)
  /\ ~(Winning(a) \/ Losing(a) \/ Winning(b) \/ Losing(b)) => Centipawns(b) <= Centipawns(a)

RankedByOutcome ==
  step = "respond" =>
    \A j, k \in DOMAIN items :
      j < k /\ ReadAsMeant(items[j]) /\ ReadAsMeant(items[k]) => InOrder(items[j], items[k])

\* "Surface the winning post-state on the top-ranked candidate", top_moves_finder.py
\* says, and the docstring of select_root_recommended_action "so the policy can
\* prefer play_move over claim_draw when a winning zeroing capture exists": where a
\* capture or pawn move wins whatever the searches say, one of these leads the list
\* or at least no draw is claimed in its stead.
WinningZeroingMoveCounts ==
  LET p == Facts[call.place]
      winning == {k \in E!ZeroingMoves(p) : \A posts \in Posts[call.place] : WinsAt(p, posts, k)}
  IN  OfTheEngine /\ p.clock >= 100 /\ winning # {} =>
        items[1].move \in winning \/ answer.action \notin G!Claims

\* "Any sentinel like cp=20000 can never outrank a forced mate": see the comment of
\* multi_pv.py over MATE_RANK_CEILING.  Made-up rows are left aside.  It does not
\* hold: the README says more under "Where code and documentation disagree".
MateOutranksScores ==
  step = "respond" =>
    \A j, k \in DOMAIN items :
      /\ j < k /\ Mating(items[k])
      /\ ~items[j].madeUp /\ ~items[k].madeUp
      => Mating(items[j])

\* The segments cover the game without a gap, neighbours differ, and every segment
\* starts at a position that reads like it and was confirmed before it ends.
SegmentsTileTheGame ==
  coaching # None =>
    LET all == coaching.segments
    IN  /\ all # <<>> /\ all[1].start = 1 /\ all[Len(all)].end = Len(gameCall.moves)
        /\ \A k \in 2 .. Len(all) :
             /\ all[k].start = all[k - 1].end + 1 /\ all[k].state # all[k - 1].state
             /\ all[k].confirmed \in all[k].start .. all[k].end
             /\ AG!C!PositionState(AG!C!ValueFor(gameCall.side, AG!At(all[k].start))) = all[k].state

\* While there is room, every move that is counted as a mistake of the coached
\* side is among its critical moments; a claim that ends the game is no move.
NoMistakeIsLost ==
  coaching # None /\ Cardinality(DOMAIN coaching.moments) < AG!Most =>
    {k \in AG!Plies : /\ AG!Counted[k].side = gameCall.side /\ AG!CountedAction(k) = "play_move"
                      /\ AG!Counted[k].score.class \in {"mistake", "blunder"}}
      \subseteq DOMAIN coaching.moments
=============================================================================
