------------------------------- MODULE MCTools -------------------------------
(***************************************************************************)
(* Instance of the three judging tools for TLC: a server that answers one  *)
(* call of classify_move, of analyze_game, or a few of top_moves.  The     *)
(* positions, and the handful of answers the engine has for each, show the *)
(* mover winning, losing, mating, being mated and entitled to a draw.      *)
(***************************************************************************)
EXTENDS Tools, TLC

CONSTANTS
  Saturated,   \* scores past the scale of centipawns that a search may give
  MayWin       \* the positions of Black that a zeroing move wins

MCCps == {-2000, -300, -100, 0, 40, 100, 300, 2000}
MCWinPct == (-2000 :> 0) @@ (-300 :> 250) @@ (-100 :> 410) @@ (0 :> 500) @@ (40 :> 540)
            @@ (100 :> 590) @@ (300 :> 750) @@ (2000 :> 1000)

Ply(move, check, capture, swing, end, quiet) ==
  [move |-> move, legal |-> TRUE, check |-> check, capture |-> capture, promotion |-> FALSE,
   lasting |-> FALSE, swing |-> swing, end |-> end, quiet |-> quiet]
Calm == Ply("calm", FALSE, FALSE, 0, "none", TRUE)
Takes == Ply("takes", FALSE, TRUE, -300, "none", FALSE)
TakesBack == Ply("back", FALSE, TRUE, 300, "none", TRUE)
Checks == Ply("checks", TRUE, FALSE, 0, "none", FALSE)
Wins == Ply("wins", FALSE, TRUE, -500, "none", TRUE)
Mates == Ply("mates", TRUE, FALSE, 0, "mate", FALSE)

Stone(color, value) == [color |-> color, value |-> value, king |-> FALSE]
Skewer == [actor |-> "black", front |-> Stone("white", 300), rear |-> Stone("white", 500)]

\* What a forcing move is, by itself and in a moment.
Forced(check, capture) == [check |-> check, capture |-> capture, promotion |-> FALSE, mate |-> FALSE]

Reply(ply) == [ply |-> ply, victimLoose |-> ply.swing < -400, skewers |-> ply.check,
               checkers |-> IF ply.check THEN {"moved", "other"} ELSE {},
               recaptures |-> IF ply.swing < 0 THEN {1} ELSE {}, turn |-> {1, 2},
               linesAfter |-> IF ply.check THEN {Skewer} ELSE {},
               forcingNow |-> {1}, forcingIfPass |-> IF ply.capture THEN {1, 2} ELSE {1}]

\* A man that was attacked and has just lost its defender, one that is newly
\* attacked, and one that nothing happens to.
Man(prior, now, later, moved) == [prior |-> prior, now |-> now, later |-> later, moved |-> moved]
Stands(a, d) == [attackers |-> a, defenders |-> d, pinned |-> FALSE]
Abandoned == Man(Stands(1, 1), Stands(1, 0), Stands(1, 0), FALSE)
Hit == Man(Stands(0, 0), Stands(1, 0), Stands(0, 0), TRUE)

MomentOf(men, inCheck, checks, mates, threatened) ==
  [history |-> TRUE, men |-> men, inCheck |-> inCheck, played |-> TRUE, mates |-> mates,
   checks |-> checks, over |-> FALSE,
   linesBefore |-> {}, lines |-> IF checks THEN {Skewer} ELSE {},
   threatsBefore |-> {}, threatsIfPass |-> threatened, threatsAfter |-> threatened,
   matesBefore |-> IF mates THEN {1} ELSE {}, matesIfPass |-> threatened, matesAfter |-> threatened]

Step(leads, moment, ply, facts) ==
  [zeroing |-> ply.capture, mates |-> ply.end = "mate", over |-> FALSE, rule75 |-> FALSE,
   rule50 |-> FALSE, ply |-> ply, leads |-> leads, moment |-> moment, facts |-> facts]

NoMoment == MomentOf({}, FALSE, FALSE, FALSE, {})
Silent == Step("white_reply", NoMoment, Calm, {})
OfWhite == <<Silent, [Silent EXCEPT !.ply = Takes, !.zeroing = TRUE]>>
OfGame(leads) == <<Step(leads, NoMoment, Calm, {}), Step(leads, NoMoment, Takes, {})>>

Bare == [turn |-> "white", clock |-> 0, terminal |-> None, now |-> FALSE, intended |-> FALSE,
         deficit |-> 0, moves |-> <<>>, announced |-> {}, replies |-> <<>>,
         passing |-> [NoMoment EXCEPT !.played = FALSE]]

\* A pawn moves or is captured by the first two moves; a draw may be claimed.
Zeroing ==
  [Bare EXCEPT
     !.moves = <<[Silent EXCEPT !.zeroing = TRUE], [Silent EXCEPT !.zeroing = TRUE, !.ply = Takes],
                 [Silent EXCEPT !.ply = Checks]>>,
     !.replies = <<Reply(Calm), Reply(Takes), Reply(Checks)>>,
     !.clock = 100, !.now = TRUE, !.deficit = 300]

MCPlaces ==
  {"quiet", "white_reply", "white_wins", "claim", "announce", "black_reply", "black_claims",
   "middle", "reply", "even", "uneven", "white_zeroes", "black_zeroes", "white_won", "black_won",
   "last_announces", "last_claims", "finish", "mated", "stale"}

\* The positions, from what they share: the bare one, one with a calm move and a
\* capture, and those where a capture that zeroes the clock wins.
FactsFrom(bare, silent, open, white, black) ==
  [quiet |-> [bare EXCEPT
     !.turn = "black",
     !.moves = <<Step("white_reply", MomentOf({Hit}, FALSE, FALSE, FALSE, {}), Calm, {"a"}),
                 Step("white_wins", MomentOf({Abandoned}, FALSE, FALSE, FALSE, {1}), TakesBack, {"b"})>>],
   white_reply |-> open,
   white_wins |-> [bare EXCEPT
     !.moves = <<[silent EXCEPT !.ply = Wins, !.zeroing = TRUE], [silent EXCEPT !.ply = Checks]>>,
     !.replies = <<Reply(Wins), Reply(Checks)>>],
   claim |-> [bare EXCEPT
     !.moves = <<[Step("black_reply", MomentOf({Hit}, TRUE, TRUE, FALSE, {}), TakesBack, {})
                    EXCEPT !.zeroing = TRUE],
                 [silent EXCEPT !.leads = "black_claims", !.rule50 = TRUE]>>,
     !.replies = <<Reply(TakesBack), Reply(Calm)>>,
     !.clock = 100, !.now = TRUE, !.intended = TRUE, !.announced = {2}, !.deficit = 300],
   announce |-> [bare EXCEPT
     !.moves = <<[silent EXCEPT !.leads = "black_reply"]>>,
     !.clock = 99, !.intended = TRUE, !.announced = {1}, !.deficit = 300],
   black_reply |-> [open EXCEPT !.turn = "black"],
   black_claims |-> [open EXCEPT !.turn = "black", !.clock = 101, !.now = TRUE, !.intended = TRUE],
   \* White to move in a game, and Black; where the fiftieth move is announced,
   \* and made.
   middle |-> [open EXCEPT !.moves = OfGame("reply")],
   reply |-> [open EXCEPT !.turn = "black", !.moves = OfGame("middle")],
   even |-> open,
   uneven |-> [open EXCEPT !.turn = "black"],
   white_zeroes |-> white, white_won |-> white,
   black_zeroes |-> black, black_won |-> black,
   last_announces |-> [bare EXCEPT
     !.turn = "black", !.moves = <<[silent EXCEPT !.leads = "last_claims"]>>, !.replies = <<Reply(Calm)>>,
     !.clock = 99, !.intended = TRUE, !.announced = {1}],
   last_claims |-> [bare EXCEPT
     !.moves = <<[silent EXCEPT !.leads = "reply"]>>, !.replies = <<Reply(Calm)>>,
     !.clock = 100, !.now = TRUE],
   finish |-> [bare EXCEPT
     !.moves = <<Step("mated", MomentOf({}, FALSE, TRUE, TRUE, {}), Mates, {}),
                 [silent EXCEPT !.leads = "stale"], [silent EXCEPT !.leads = "black_reply"]>>],
   mated |-> [bare EXCEPT !.turn = "black", !.terminal = "checkmate"],
   stale |-> [bare EXCEPT !.turn = "black", !.terminal = "stalemate"]]

MCFacts ==
  FactsFrom(Bare, Silent, [Bare EXCEPT !.moves = OfWhite, !.replies = <<Reply(Calm), Reply(Takes)>>],
            Zeroing, [Zeroing EXCEPT !.turn = "black"])

Says(cp, mate, best, pv, wdl) == [cp |-> cp, mate |-> mate, best |-> best, pv |-> pv, wdl |-> wdl]

\* What the engine says of the root, of its own move, of the zeroing moves and of
\* the replacement alone; the latter matter at a clock of a hundred.
Said(root) == [root |-> root, own |-> Says(0, None, 1, <<>>, None),
               posts |-> <<Says(None, 3, 1, <<>>, None), Says(0, None, 1, <<>>, None)>>,
               restricted |-> None]

\* The root's answers alone, in terms of the lines that they share.
Roots(calm, takes, back, wins) ==
  [quiet |-> {Says(-300, None, 1, calm, 250), Says(None, -2, 1, calm, None), Says(None, 3, 2, takes, 900)},
   white_reply |-> {Says(-300, None, 1, calm, 240), Says(100, None, 2, takes \o back, 600),
                    Says(None, 2, 2, <<>>, None), Says(None, -3, 1, calm, None)},
   white_wins |-> {Says(300, None, 1, wins, 750), Says(-100, None, 2, <<Checks>> \o wins, 400),
                   Says(None, -2, 1, <<>>, None)},
   announce |-> {Says(-300, None, 1, calm, 250), Says(300, None, 1, calm, None)},
   black_reply |-> {Says(-300, None, 1, calm, 250), Says(100, None, 2, takes, 590),
                    Says(None, 2, 1, calm, None), Says(2000, None, 1, calm, 990)},
   black_claims |-> {Says(0, None, 1, calm, 500), Says(300, None, 2, takes, None)},
   finish |-> {Says(None, 1, 1, <<Mates>>, 1000), Says(300, None, 2, calm, 750)},
   middle |-> {Says(300, None, 1, calm \o takes, 750), Says(-300, None, 2, takes \o back, 250)},
   reply |-> {Says(300, None, 1, calm \o takes, 750), Says(-300, None, 2, takes \o back, 250),
              Says(None, 2, 2, <<>>, None)},
   even |-> {Says(100, None, 1, calm, 590), Says(-300, None, 2, takes, 250)},
   uneven |-> {Says(-100, None, 1, calm, 410), Says(100, None, 1, calm, 590), Says(300, None, 2, takes, 750)},
   last_announces |-> {Says(0, None, 1, calm, 500), Says(300, None, 1, calm, 750)},
   last_claims |-> {Says(0, None, 1, calm, 500), Says(300, None, 1, calm, 750)}]

OfRoot(x) ==
  IF x \in {"mated", "stale"} THEN {Says(None, None, None, <<>>, None)}
  ELSE IF x \in {"white_zeroes", "black_zeroes", "white_won", "black_won"} THEN {Says(0, None, 3, <<>>, None)}
  ELSE Roots(<<Calm>>, <<Takes>>, <<TakesBack>>, <<Wins>>)[x]

AtTheClaim ==
  {Said(Says(0, None, 2, <<Calm>>, 500)),
   [Said(Says(-300, None, 1, <<TakesBack>>, 250)) EXCEPT
      !.posts = <<Says(-100, None, 1, <<>>, None), Says(0, None, 1, <<>>, None)>>],
   [Said(Says(-300, None, 2, <<Calm>>, None)) EXCEPT
      !.posts = <<Says(40, None, 1, <<>>, None), Says(0, None, 1, <<>>, None)>>,
      !.restricted = Says(-100, None, 1, <<TakesBack>>, None)]}

MCSearches ==
  [x \in MCPlaces |-> IF x = "claim" THEN AtTheClaim ELSE {Said(r) : r \in OfRoot(x)}]

\* A deeper search agrees with the first answer to be, or contradicts it.
DeeperOf(x) ==
  CASE x = "quiet" -> {Says(-300, None, 1, <<Calm>>, 250), Says(100, None, 2, <<TakesBack>>, None)}
    [] x = "white_wins" -> {Says(300, None, 1, <<Wins>>, 750), Says(-300, None, 2, <<Checks>>, 300)}
    [] x = "claim" -> {Says(300, None, 2, <<Calm>>, 750), Says(-300, None, 1, <<TakesBack>>, 250)}
    [] OTHER -> OfRoot(x)

MCDeeper == [x \in MCPlaces |-> {Said(r) : r \in DeeperOf(x)}]

MCQuick == [x \in MCPlaces |-> Says(40, None, 1, <<Calm>>, None)]

Writing(text, move) == [text |-> text, move |-> move]
Wants(place, moves, action, detail) ==
  {[place |-> place, move |-> k, action |-> action, detail |-> detail, compare |-> <<>>] : k \in moves}

MCRequests ==
  Wants("quiet", {1, 2, 3}, "play_move", "forensic") \cup Wants("claim", {1, 2}, "play_move", "forensic")
    \cup Wants("claim", {None}, "claim_draw", "forensic") \cup Wants("quiet", {None}, "claim_draw", "coach")
    \cup Wants("announce", {1}, "play_move", "coach")
    \cup Wants("announce", {1}, "claim_draw_with_intended_move", "forensic")
    \cup Wants("finish", {1, 2, 3}, "play_move", "coach") \cup Wants("finish", {1}, "play_move", "standard")
    \cup {[w EXCEPT !.compare = c] :
            w \in Wants("quiet", {2}, "play_move", "standard"),
            c \in {<<Writing("uci", 1), Writing("san", 1)>>, <<Writing("text", None)>>,
                   <<Writing("san", 1), Writing("san", 1), Writing("san", 1), Writing("san", 1)>>}}

MCDepth == 12
MCRawCap == 3
MCMoveCap == 2

---------------------------------------------------------------------------
\* Three candidates of a search, and what is said after each: the winning
\* captures of the zeroing positions are for the side that moves there.
List(a, b, c) == <<Says(a, None, 3, <<>>, None), Says(b, None, 1, <<>>, None), Says(None, c, 2, <<>>, None)>>

MCLists ==
  [x \in MCPlaces |->
     CASE x = "black_won" ->
            {<<Says(-b, None, 2, <<>>, None), Says(a, None, 3, <<>>, None)>> : a \in {0, 40}, b \in {20, 100}}
       [] x \in {"white_zeroes", "black_zeroes", "white_won"} ->
            {List(a, b, c) : a \in {0, 40}, b \in {-100, 100} \cup Saturated, c \in {-3, 3}}
              \cup {<<Says(0, None, 3, <<>>, None)>>, <<>>}
       [] x \in {"middle", "reply"} ->
            {<<Says(a, None, 1, <<>>, None), Says(b, None, 2, <<>>, None)>> :
               a \in {100, -300}, b \in {None, 40}}
       [] OTHER -> {<<Says(None, 1, 1, <<>>, None), Says(0, None, 2, <<>>, None)>>}]

MCPosts ==
  [x \in MCPlaces |->
     CASE x \in {"white_zeroes", "black_zeroes"} ->
            {<<Says(None, m, 1, <<>>, None), Says(c, None, 1, <<>>, None), Says(0, None, 1, <<>>, None)>> :
               m \in {None, 2, -2}, c \in {-2000, 0, 2000}} \cup {<<None, None, Says(0, None, 1, <<>>, None)>>}
       [] x = "white_won" -> {<<Says(None, 2, 1, <<>>, None), Says(0, None, 1, <<>>, None), Says(0, None, 1, <<>>, None)>>}
       [] x = "black_won" -> {<<Says(None, -2, 1, <<>>, None), Says(0, None, 1, <<>>, None), Says(0, None, 1, <<>>, None)>>}
       [] OTHER -> {<<Says(100, None, 1, <<>>, None), Says(-100, None, 1, <<>>, None)>>,
                    <<Says(100, None, 1, <<>>, None), Says(None, 2, 1, <<>>, None)>>}]

Question(place, n, detail, include, proof) ==
  [place |-> place, n |-> n, detail |-> detail, include |-> include, proof |-> proof, defences |-> 1]

MCCalls ==
  {Question(x, 3, "standard", <<>>, FALSE) : x \in {"white_zeroes", "black_zeroes", "white_won"} \cup MayWin}
    \cup {Question("middle", n, "coach", <<Writing("uci", 2), Writing("san", 2)>>, TRUE) : n \in {0, 2}}
    \cup {Question("reply", 2, "forensic", <<>>, FALSE), Question("mated", 2, "standard", <<>>, FALSE),
          Question("middle", 1, "standard", <<Writing("text", None)>>, FALSE),
          [Question("middle", 1, "standard", <<>>, TRUE) EXCEPT !.defences = 9]}
MCTimes == 2
MCSaturated == {20000, -20000}

---------------------------------------------------------------------------
\* A game of eight plies in which either side may throw away what it has, a
\* drawn one that ends with the claim of fifty moves, a mate, and two without
\* moves; what the boards say of each ply.
Board(pawn, lost) ==
  [enPrise |-> lost, hanging |-> {}, exchanged |-> lost, pawn |-> pawn, probed |-> TRUE,
   threatsIfPass |-> (1 :> Forced(TRUE, FALSE)) @@ (2 :> Forced(FALSE, TRUE)),
   threatsNow |-> (2 :> Forced(TRUE, TRUE)) @@ (3 :> Forced(FALSE, TRUE)), mates |-> NoMoment]

Play(places, moves, result) ==
  [places |-> places, moves |-> moves, result |-> result, strict |-> FALSE, malformed |-> FALSE,
   warned |-> FALSE, disagrees |-> FALSE, comments |-> {}, side |-> "white", detail |-> "coach",
   most |-> 6, depth |-> 13, balance |-> [k \in DOMAIN places |-> IF k < 3 THEN 0 ELSE -100],
   boards |-> [k \in DOMAIN moves |-> Board(k = 1, IF k = 1 THEN {"knight"} ELSE {})]]

Swinging == Play(<<"even", "uneven", "even", "uneven", "even", "uneven", "even", "uneven">>,
                 <<2, 2, 2, 1, 2, 1, 2>>, "1-0")
Short == Play(<<"middle", "reply", "middle">>, <<2, 1>>, "0-1")
Claimed == Play(<<"last_announces", "last_claims">>, <<1>>, "1/2-1/2")
Mated == Play(<<"finish", "mated">>, <<1>>, "1-0")
NoMoves == Play(<<"middle">>, <<>>, "*")

MCGameRequests ==
  {Swinging, [Swinging EXCEPT !.most = 2, !.comments = {3}],
   [Short EXCEPT !.detail = "forensic", !.comments = {1}],
   [Short EXCEPT !.detail = "forensic", !.side = "black", !.depth = 25],
   [Short EXCEPT !.detail = "standard", !.strict = TRUE, !.disagrees = TRUE],
   [Claimed EXCEPT !.side = "black"], [Mated EXCEPT !.detail = "forensic"],
   NoMoves, [NoMoves EXCEPT !.detail = "standard", !.strict = TRUE, !.warned = TRUE]}

\* The two best candidates: close, far apart, only one, or a search that raised.
MCTops == {<<[cp |-> 40, mate |-> None], [cp |-> -300, mate |-> None]>>, <<[cp |-> 0, mate |-> None]>>, None}

---------------------------------------------------------------------------
\* The theorem on the ranking is about instances like this one.
ASSUME MCFitsRanking == \A c \in MCCalls : FitsRanking(c)

\* So are the theorems on claims and on the critical moments.
ASSUME MCNone == None \notin Int
ASSUME MCFitsChoice == \A r \in MCRequests : FitsChoice(r.place)
ASSUME MCFitsGame == \A r \in MCGameRequests : FitsGame(r)

\* One of the tools answers its calls.
MCNext ==
  \/ step = "idle" /\ stage = "idle" /\ MoveStep
  \/ phase = "idle" /\ stage = "idle" /\ TopStep
  \/ phase = "idle" /\ step = "idle" /\ GameStep
=============================================================================
