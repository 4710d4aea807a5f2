------------------------------- MODULE TopMoves -------------------------------
(***************************************************************************)
(* One call of the tool top_moves (tools/top_moves.py) with what it calls: *)
(* the candidates of a multi-PV search (analysis/top_moves_finder.py,      *)
(* candidate_evaluator.py), their ranking and the action they recommend    *)
(* (multi_pv.py), and the comparisons and the proof that may be asked for  *)
(* (top_moves_forensics.py).  Scores are White's.  The flight of equal     *)
(* calls is SingleFlight and left out here.                                *)
(***************************************************************************)
EXTENDS Integers, Sequences, FiniteSets, SequencesExt

CONSTANTS
  None,
  Facts,       \* what the rules and the boards say of each position
  Lists,       \* the candidates a multi-PV search of a position may give
  Posts,       \* what the engine may say after each of its moves
  Calls,       \* the calls of the instance
  Times        \* how many are made, one after the other

E == INSTANCE Evaluation
Ev == INSTANCE Evidence

VARIABLES
  call,        \* the call being answered
  step,        \* where its handler awaits
  cache,       \* position and n -> the candidates stored for them
  items,       \* the candidates, in the order they would be returned
  answer,      \* what the call ended with
  made         \* how many calls were made

tmVars == <<call, step, cache, items, answer, made>>

Here == Facts[call.place]
Claimable(p) == p.now \/ p.intended
Clamped(low, high, x) == IF x < low THEN low ELSE IF x > high THEN high ELSE x

---------------------------------------------------------------------------
\* rank_candidate: the mover's number for a candidate.
RankMate == 10000
RankCeiling == 9999
Drawn(status) == status \notin {None, "checkmate"}
EffMate(item) == IF item.postMate # None THEN item.postMate ELSE item.mate
EffCp(item) == IF item.postCp # None THEN item.postCp ELSE item.cp

\* Faulty variant: a mate is White's, whoever moves.
RankOfWhite(turn, item) ==
  IF item.post = "checkmate" THEN RankMate
  ELSE IF Drawn(item.post) THEN 0
  ELSE IF EffMate(item) # None
  THEN LET m == EffMate(item) IN IF m > 0 THEN RankMate - m ELSE -RankMate - m
  ELSE IF EffCp(item) # None THEN Clamped(-RankCeiling, RankCeiling, E!For(turn, EffCp(item)))
  ELSE 0

Rank(turn, item) ==
  IF item.post = "checkmate" THEN RankMate
  ELSE IF Drawn(item.post) THEN 0
  ELSE IF EffMate(item) # None
  THEN LET m == E!For(turn, EffMate(item)) IN IF m > 0 THEN RankMate - m ELSE -RankMate - m
  ELSE IF EffCp(item) # None THEN Clamped(-RankCeiling, RankCeiling, E!For(turn, EffCp(item)))
  ELSE 0

\* A stable sort, the highest rank in front.
Ahead(turn, list, j, k) ==
  \/ Rank(turn, list[j]) > Rank(turn, list[k])
  \/ Rank(turn, list[j]) = Rank(turn, list[k]) /\ j < k

Ranked(turn, list) ==
  [i \in DOMAIN list |->
     LET k == CHOOSE k \in DOMAIN list :
                Cardinality({j \in DOMAIN list : Ahead(turn, list, j, k)}) = i - 1
     IN  [list[k] EXCEPT !.multipv = i]]

\* select_root_recommended_action: the first candidate's score, the best
\* centipawns among the candidates that zero the clock, and the mate with the
\* largest distance among them.
Zeroes(p, item) == item.move \in DOMAIN p.moves /\ p.moves[item.move].zeroing

ZeroingChance(p, list) ==
  LET own == {k \in DOMAIN list : Zeroes(p, list[k])}
      mates == {E!For(p.turn, EffMate(list[k])) : k \in {j \in own : EffMate(list[j]) # None}}
      scores == {E!For(p.turn, EffCp(list[k])) :
                   k \in {j \in own : EffMate(list[j]) = None /\ EffCp(list[j]) # None}}
      won == {m \in mates : m > 0}
      Most(S) == IF S = {} THEN None ELSE CHOOSE x \in S : \A y \in S : y <= x
  IN  [cp |-> Most(scores), mate |-> Most(won)]

RootAction(p, list) ==
  IF list = <<>> THEN E!ChooseAction(p, None, None, E!Nothing)
  ELSE LET mate == E!For(p.turn, EffMate(list[1]))
       IN  E!ChooseAction(p, IF mate # None THEN 1000 * mate ELSE E!For(p.turn, EffCp(list[1])),
                          mate, ZeroingChance(p, list))

---------------------------------------------------------------------------
\* evaluate_candidate: the row of a candidate; a capture or pawn move the engine
\* does not call good is searched again on the board after it where a claim
\* could have coloured its score.  A move that is not legal keeps an empty row.
IsSuspect(said) == said.mate = None /\ (said.cp = None \/ said.cp <= 0)

After(p, k) == Facts[p.moves[k].leads]

NeedsPost(p, said, wanted) ==
  /\ wanted /\ p.moves[said.best].zeroing
  /\ ~E!IsOver(After(p, said.best)) /\ IsSuspect(said)

Row(p, said, number, wanted, posts) ==
  LET q == IF said.best \in DOMAIN p.moves THEN After(p, said.best) ELSE p
      e == E!FromEval(q, said, E!Nothing)
      post == IF said.best \in DOMAIN p.moves /\ NeedsPost(p, said, wanted)
              THEN posts[said.best] ELSE E!Nothing
  IN  [move |-> said.best, cp |-> e.cp, mate |-> e.mate,
       post |-> IF said.best \in DOMAIN p.moves THEN q.terminal ELSE None,
       postMate |-> IF post = None THEN None ELSE post.mate,
       postCp |-> IF post = None \/ post.mate # None THEN None ELSE post.cp,
       claimsAfter |-> q.now, multipv |-> number, sources |-> {"multipv_root"},
       madeUp |-> FALSE]

\* The answer the engine gave to an item that is made up or asked for.
AsSaid(move, cp, mate) == [best |-> move, cp |-> cp, mate |-> mate, pv |-> <<>>, wdl |-> None]

\* The winning capture or pawn move that the list may have missed: it takes the
\* place of the first candidate and its score, and adds what it wins, as the
\* mover counts it.  The mark madeUp is for the properties alone.
Wins(gain) == E!WinsByZeroing(gain)

WinningMove(p, posts) ==
  LET gains == E!Gains(p, posts)
      best == E!BestGain(gains)
      moves == {k \in DOMAIN gains : gains[k] = best}
  IN  [gain |-> best, move |-> IF best = E!Nothing THEN None
                               ELSE CHOOSE k \in moves : \A j \in moves : k <= j]

Synthetic(p, list, won) ==
  LET said == IF list = <<>> THEN AsSaid(won.move, won.gain.cp, won.gain.mate)
              ELSE AsSaid(won.move, list[1].cp, list[1].mate)
  IN  [Row(p, said, 1, FALSE, None) EXCEPT !.postCp = won.gain.cp, !.postMate = won.gain.mate,
                                             !.madeUp = TRUE]

WithWinner(p, list, posts) ==
  LET won == WinningMove(p, posts)
  IN  IF ~Wins(won.gain) THEN list
      ELSE IF list = <<>> THEN <<Synthetic(p, list, won)>>
      ELSE [list EXCEPT ![1] = Synthetic(p, list, won)]

---------------------------------------------------------------------------
\* _comparison_requests: what is written is a text and the move it stands for.
MaxInclude == 8
MaxCompared == 9

Firsts(writings) ==
  LET moves == [k \in DOMAIN writings |-> writings[k].move]
  IN  Ev!WithoutRepeats(moves)

Without(list, gone) == SelectSeq(list, LAMBDA m : m \notin gone)
Prefix(list, n) == SubSeq(list, 1, IF Len(list) < n THEN Len(list) ELSE n)

Compared(detail, own, writings) ==
  LET asked == Prefix(Firsts(writings), MaxInclude)
      lead == IF own = <<>> THEN <<>> ELSE <<own[1]>>
      front == lead \o Without(asked, ToSet(lead))
  IN  IF asked # <<>> /\ detail = "coach" THEN asked
      ELSE IF asked # <<>>
      THEN Prefix(front \o Without(own, ToSet(front)), MaxCompared)
      ELSE IF detail = "forensic" THEN Prefix(own, MaxInclude) ELSE <<>>

Own(p, list) ==
  Ev!WithoutRepeats(Without([k \in DOMAIN list |-> list[k].move], {m \in {list[k].move : k \in DOMAIN list} :
                                                                    m \notin DOMAIN p.moves}))

\* What was asked for is added behind the engine's candidates, or marked among
\* them.
Included(p, list, moves, quick, posts) ==
  FoldLeft(LAMBDA rows, m :
             LET there == {k \in DOMAIN rows : rows[k].move = m}
             IN  IF there = {}
                 THEN Append(rows, [Row(p, AsSaid(m, quick[m].cp, quick[m].mate), Len(rows) + 1,
                                        Claimable(p), posts)
                                    EXCEPT !.sources = {"include_moves"}])
                 ELSE [rows EXCEPT ![CHOOSE k \in there : \A j \in there : k <= j].sources =
                         @ \cup {"include_moves"}],
           list, moves)

\* build_tactical_proof: every defence where there are at most eight, else the
\* first few of a search; the better for the defender in front.
MaxDefences == 8
MateWorth == 100000

White(e) == IF e.mate # None
            THEN (IF e.mate > 0 THEN MateWorth - e.mate ELSE -MateWorth - e.mate)
            ELSE IF e.cp # None THEN e.cp ELSE 0

Margin(turn, list) ==
  IF Len(list) < 2 THEN None
  ELSE LET gap == E!Sign(turn) * (White(list[1]) - White(list[2])) IN IF gap < 0 THEN 0 ELSE gap

Defence(q, k, posts) ==
  [move |-> k, score |-> IF E!IsOver(After(q, k)) THEN 0 ELSE White(posts[k])]

Exhaustive(q, posts) ==
  LET all == [k \in DOMAIN q.moves |-> Defence(q, k, posts)]
      Better(j, k) == \/ E!Sign(q.turn) * (all[j].score - all[k].score) > 0
                      \/ all[j].score = all[k].score /\ j < k
  IN  [i \in DOMAIN all |->
         all[CHOOSE k \in DOMAIN all : Cardinality({j \in DOMAIN all : Better(j, k)}) = i - 1]]

Proof(p, list, wanted, sample, posts) ==
  IF list = <<>> \/ list[1].move \notin DOMAIN p.moves THEN None
  ELSE LET q == After(p, list[1].move)
           some == Prefix(Without(sample, {m \in ToSet(sample) : m \notin DOMAIN q.moves}),
                          Clamped(1, MaxDefences, wanted))
           Tried(k) == Defence(q, some[k], posts)
       IN  IF E!IsOver(q) \/ q.moves = <<>>
           THEN [status |-> "terminal_after_root", margin |-> Margin(p.turn, list), defences |-> <<>>]
           ELSE IF Len(q.moves) <= MaxDefences
           THEN [status |-> "exhaustive", margin |-> Margin(p.turn, list), defences |-> Exhaustive(q, posts)]
           ELSE [status |-> "sampled_top_defenses", margin |-> Margin(p.turn, list),
                 defences |-> [k \in DOMAIN some |-> Tried(k)]]

---------------------------------------------------------------------------
\* The tool.
NoCall == [place |-> CHOOSE x \in DOMAIN Facts : TRUE, n |-> 1, detail |-> "standard",
           include |-> <<>>, proof |-> FALSE, defences |-> 3]

TopInit ==
  /\ call = NoCall /\ step = "idle" /\ cache = <<>> /\ items = <<>> /\ answer = None /\ made = 0

MaxTop == 20
Wanted(c) == Clamped(1, MaxTop, c.n)
Key(c) == <<c.place, Wanted(c)>>
IsStored(c) == Key(c) \in DOMAIN cache /\ Len(cache[Key(c)]) >= Wanted(c)
Rich(c) == c.detail # "standard" \/ c.include # <<>> \/ c.proof
Effective(c) == IF c.detail = "forensic" \/ c.include # <<>> \/ c.proof THEN "forensic" ELSE "coach"

RefusalOf(c) ==
  IF Len(c.include) > MaxInclude THEN "too_many"
  ELSE IF c.proof /\ c.defences \notin 1 .. MaxDefences THEN "invalid_argument"
  ELSE None

End(x) == step' = "done" /\ answer' = x
Refuse(code) == End([ok |-> FALSE, code |-> code])

AskTop ==
  \E c \in Calls :
    /\ step \in {"idle", "done"} /\ made < Times
    /\ call' = c /\ made' = made + 1
    /\ IF RefusalOf(c) # None
       THEN Refuse(RefusalOf(c)) /\ UNCHANGED items
       ELSE IF E!IsOver(Facts[c.place])
       THEN End([ok |-> TRUE, status |-> Facts[c.place].terminal, ignored |-> c.include])
            /\ items' = <<>>
       ELSE IF IsStored(c)
       THEN step' = "respond" /\ items' = Prefix(cache[Key(c)], Wanted(c)) /\ answer' = None
       ELSE step' = "search" /\ items' = <<>> /\ answer' = None
    /\ UNCHANGED cache

\* The engine's list, and the second looks at its doubtful captures; a second
\* look that raises leaves its row without one.
SearchTop ==
  /\ step = "search"
  /\ \E list \in Lists[call.place], posts \in Posts[call.place] :
       items' = [k \in DOMAIN list |-> Row(Here, list[k], k, Claimable(Here), posts)]
  /\ step' = IF Here.clock >= 100 /\ Claimable(Here) THEN "zeroing" ELSE "rank"
  /\ UNCHANGED <<call, cache, answer, made>>

\* At a clock of a hundred every capture and pawn move is searched; a search
\* that raises counts as no gain.
SearchZeroing ==
  /\ step = "zeroing"
  /\ \E posts \in Posts[call.place] : items' = WithWinner(Here, items, posts)
  /\ step' = "rank"
  /\ UNCHANGED <<call, cache, answer, made>>

RankTop ==
  /\ step = "rank"
  /\ LET list == Ranked(Here.turn, items)
     IN  /\ cache' = [x \in DOMAIN cache \cup {Key(call)} |-> IF x = Key(call) THEN list ELSE cache[x]]
         /\ items' = Prefix(list, Wanted(call))
  /\ step' = "respond"
  /\ UNCHANGED <<call, answer, made>>

Response(list) ==
  [ok |-> TRUE, status |-> "active", items |-> list, action |-> RootAction(Here, list),
   legal |-> E!LegalActions(Here, {list[k].move : k \in DOMAIN list}), compared |-> <<>>, proof |-> None]

Respond ==
  /\ step = "respond"
  /\ IF Rich(call) THEN step' = "compare" /\ answer' = Response(items)
     ELSE End(Response(items))
  /\ UNCHANGED <<call, cache, items, made>>

\* The moves that are compared are searched one after the other; an illegal
\* one, or a search that raises, ends the call.
CompareTop ==
  /\ step = "compare"
  /\ IF Ev!Illegal(call.include) THEN Refuse("illegal_move") /\ UNCHANGED items
     ELSE LET moves == Compared(Effective(call), Own(Here, items), call.include)
          IN  \E quick \in Posts[call.place], posts \in Posts[call.place] :
                /\ \A k \in DOMAIN moves : quick[moves[k]] # None
                /\ items' = IF call.include = <<>> THEN items
                            ELSE Included(Here, items, moves, quick, posts)
                /\ answer' = [answer EXCEPT !.compared = moves, !.items = items',
                                !.legal = {a \in @ : a[1] # "play_move"}
                                            \cup {<<"play_move", items'[k].move>> : k \in DOMAIN items'}]
                /\ step' = IF call.proof THEN "prove" ELSE "done"
  /\ UNCHANGED <<call, cache, made>>

Prove ==
  /\ step = "prove"
  /\ LET q == IF items = <<>> THEN Here ELSE After(Here, items[1].move)
         leads == IF items = <<>> THEN call.place ELSE Here.moves[items[1].move].leads
     IN  \E posts \in Posts[leads] :
           /\ \A k \in DOMAIN q.moves : posts[k] # None
           /\ End([answer EXCEPT !.proof =
                     Proof(Here, items, call.defences, [k \in DOMAIN q.moves |-> k], posts)])
  /\ UNCHANGED <<call, cache, items, made>>

EngineFailsTop ==
  /\ step \in {"search", "compare", "prove"}
  /\ Refuse("engine_error")
  /\ UNCHANGED <<call, cache, items, made>>

StopTop == step = "done" /\ made = Times /\ UNCHANGED tmVars

TopNext ==
  \/ AskTop \/ SearchTop \/ SearchZeroing \/ RankTop \/ Respond \/ CompareTop \/ Prove
  \/ EngineFailsTop \/ StopTop

=============================================================================
