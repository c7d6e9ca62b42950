--------------------------- MODULE ScrabbleEngine ---------------------------
(***************************************************************************)
(* goakt-scrabble/scrabble: board, bag, racks, validation and scoring of   *)
(* moves, the move generator of the bots, and the end of a game; and the   *)
(* wire form in which the room and its bots exchange tiles.                *)
(*                                                                         *)
(* A game of two players who stay at the table.  They lay the best move    *)
(* the generator finds, as bots do, or exchange or pass, as humans may.    *)
(*                                                                         *)
(* A square is <<row, col>>, counted from 0.  A board maps its filled      *)
(* squares to tiles, a move the squares it fills.  A node of the DAWG is   *)
(* the letters on the path to it.  A rack or the bag counts tiles.         *)
(***************************************************************************)
EXTENDS Integers, Sequences, FiniteSets, FiniteSetsExt, Bags, TLC

CONSTANTS
  Words,        \* the dictionary: sequences of letter ids
  PointValues,  \* PointValues[id] for the letter ids, which start at 0
  Distribution, \* how often each tile is in a full bag
  RackSize, BingoBonus, ScorelessTurnsToEnd, MinWordLength,
  MaxMoves,     \* bound: moves of a game
  Window        \* rows and columns the reference definition looks at

BoardSize == 15
Center == <<7, 7>>
Letters == DOMAIN PointValues

VARIABLES
  board, bag, racks, scores, turn, scorelessTurns, over,
  moves,   \* moves made so far
  earned   \* history: the points of all moves
vars == <<board, bag, racks, scores, turn, scorelessTurns, over, moves, earned>>

-----------------------------------------------------------------------------
(* Tiles *)

Tile(letter) == [letter |-> letter, blank |-> FALSE]
AssignedBlank(letter) == [letter |-> letter, blank |-> TRUE]
BlankTile == AssignedBlank(0)

\* A blank that stands for the letter 0 looks like a blank without a letter.
IsUnassignedBlank(tile) == tile.blank /\ tile.letter = 0

Score(tile) == IF tile.blank THEN 0 ELSE PointValues[tile.letter]

\* tilesUsed: the tile of the rack that a placement takes.
Used(tile) == IF tile.blank THEN BlankTile ELSE tile

\* tileToWire: "?" for an unassigned blank, else the letter, starred for a blank.
TileToWire(tile) ==
  IF IsUnassignedBlank(tile) THEN <<"?">> ELSE <<tile.letter, tile.blank>>

WireToTile(wire) ==
  IF wire = <<"?">> THEN BlankTile ELSE [letter |-> wire[1], blank |-> wire[2]]

\* What is left of a board or a move after the way to a bot or back (boardToWire,
\* wireToBoard; enginePlacementsToWire, toEnginePlacements).
Told(tiles) == [sq \in DOMAIN tiles |-> WireToTile(TileToWire(tiles[sq]))]

-----------------------------------------------------------------------------
(* The board *)

InBounds(sq) == sq \in (0 .. BoardSize - 1) \X (0 .. BoardSize - 1)

\* The square at a position of a row (H) or a column (V), and back.
At(dir, line, pos) == IF dir = "H" THEN <<line, pos>> ELSE <<pos, line>>
Line(dir, sq) == IF dir = "H" THEN sq[1] ELSE sq[2]
Pos(dir, sq) == IF dir = "H" THEN sq[2] ELSE sq[1]
Perpendicular(dir) == IF dir = "H" THEN "V" ELSE "H"

\* standardPremium, by the symmetry of the board
Premium(sq) ==
  LET fold(n) == IF n > 7 THEN 14 - n ELSE n
      octant == <<Min({fold(sq[1]), fold(sq[2])}), Max({fold(sq[1]), fold(sq[2])})>>
  IN CASE octant \in {<<0, 0>>, <<0, 7>>} -> "tripleWord"
       [] octant \in {<<1, 1>>, <<2, 2>>, <<3, 3>>, <<4, 4>>, <<7, 7>>} -> "doubleWord"
       [] octant \in {<<1, 5>>, <<5, 5>>} -> "tripleLetter"
       [] octant \in {<<0, 3>>, <<2, 6>>, <<3, 7>>, <<6, 6>>} -> "doubleLetter"
       [] OTHER -> "none"

\* The first and the last position of the run of filled squares around pos.
RunStart(b, dir, line, pos) ==
  CHOOSE p \in 0 .. pos :
    /\ \A q \in p .. pos - 1 : At(dir, line, q) \in DOMAIN b
    /\ At(dir, line, p - 1) \notin DOMAIN b
RunEnd(b, dir, line, pos) ==
  CHOOSE p \in pos .. BoardSize - 1 :
    /\ \A q \in pos + 1 .. p : At(dir, line, q) \in DOMAIN b
    /\ At(dir, line, p + 1) \notin DOMAIN b

\* extractWord: the squares of that run, in reading order.
ExtractWord(b, sq, dir) ==
  LET line == Line(dir, sq)
      start == RunStart(b, dir, line, Pos(dir, sq))
      end == RunEnd(b, dir, line, Pos(dir, sq))
  IN [i \in 1 .. end - start + 1 |-> At(dir, line, start + i - 1)]

-----------------------------------------------------------------------------
(* The dictionary *)

\* BuildDAWG: the nodes of the trie, and what it contains.
Nodes == UNION {{SubSeq(w, 1, n) : n \in 0 .. Len(w)} :
                  w \in {v \in Words : Len(v) >= MinWordLength}}
Edge(node, letter) == Append(node, letter) \in Nodes
Terminal(node) == node \in Words /\ Len(node) >= MinWordLength

\* Contains
Contains(word) == Terminal(word)

Spelled(b, word) == [i \in 1 .. Len(word) |-> b[word[i]].letter]

-----------------------------------------------------------------------------
(* Moves *)

\* checkPlacements
PlacementsOK(b, move) ==
  /\ DOMAIN move # {}
  /\ Cardinality(DOMAIN move) <= RackSize
  /\ \A sq \in DOMAIN move :
       InBounds(sq) /\ ~IsUnassignedBlank(move[sq]) /\ sq \notin DOMAIN b

\* lineDirection: a row before a column, and none if the squares are on neither.
LineDirection(move) ==
  IF Cardinality({sq[1] : sq \in DOMAIN move}) = 1 THEN "H"
  ELSE IF Cardinality({sq[2] : sq \in DOMAIN move}) = 1 THEN "V"
  ELSE "none"

\* checkConnectivity: no gap between the first and the last placement.
Connected(b, move, dir) ==
  LET at == {Pos(dir, sq) : sq \in DOMAIN move}
      line == Line(dir, CHOOSE sq \in DOMAIN move : TRUE)
  IN \A p \in Min(at) .. Max(at) : At(dir, line, p) \in DOMAIN b \cup DOMAIN move

\* collectWords: the word along the move and the ones across it.
CollectWords(after, move, dir) ==
  LET main == ExtractWord(after, CHOOSE sq \in DOMAIN move : TRUE, dir)
      across == {ExtractWord(after, sq, Perpendicular(dir)) : sq \in DOMAIN move}
  IN {word \in {main} \cup across : Len(word) >= 2}

\* extendsExisting
ExtendsExisting(words, move) ==
  \E word \in words : \E i \in 1 .. Len(word) : word[i] \notin DOMAIN move

\* Validate, without the score.
Valid(b, move) ==
  LET dir == LineDirection(move)
      after == move @@ b
      words == CollectWords(after, move, dir)
  IN /\ PlacementsOK(b, move)
     /\ dir # "none"
     /\ Connected(b, move, dir)
     /\ words # {}
     /\ IF DOMAIN b = {} THEN Center \in DOMAIN move ELSE ExtendsExisting(words, move)
     /\ \A word \in words : Contains(Spelled(after, word))

\* scoreWord: premiums count for the tiles that are laid now.
ScoreWord(after, word, move) ==
  LET premium(i) == IF word[i] \in DOMAIN move THEN Premium(word[i]) ELSE "none"
      base(i) == Score(after[word[i]]) *
        CASE premium(i) = "doubleLetter" -> 2
          [] premium(i) = "tripleLetter" -> 3
          [] OTHER -> 1
      doubled == Cardinality({i \in 1 .. Len(word) : premium(i) = "doubleWord"})
      tripled == Cardinality({i \in 1 .. Len(word) : premium(i) = "tripleWord"})
  IN MapThenSumSet(base, 1 .. Len(word)) * 2 ^ doubled * 3 ^ tripled

\* The score Validate gives to a valid move.
ScoreMove(b, move) ==
  LET after == move @@ b
      score(word) == ScoreWord(after, word, move)
  IN MapThenSumSet(score, CollectWords(after, move, LineDirection(move)))
       + IF Cardinality(DOMAIN move) = RackSize THEN BingoBonus ELSE 0

-----------------------------------------------------------------------------
(* The move generator *)

\* buildAnchorGrid, hasFilledNeighbor: the empty squares beside a tile.
Anchors(b) ==
  {sq \in UNION {{<<f[1] - 1, f[2]>>, <<f[1] + 1, f[2]>>,
                  <<f[1], f[2] - 1>>, <<f[1], f[2] + 1>>} : f \in DOMAIN b} :
     InBounds(sq) /\ sq \notin DOMAIN b}

\* Mutant: the word the new tile makes is looked up along the move.
CrossAllowsAlong(b, sq, dir, letter) ==
  LET word == ExtractWord((sq :> Tile(letter)) @@ b, sq, dir)
  IN Len(word) = 1 \/ Contains(Spelled((sq :> Tile(letter)) @@ b, word))

\* computeCrossChecks, crossFor: the letters that make a word across the move,
\* or none.
CrossAllows(b, sq, dir, letter) ==
  LET after == (sq :> Tile(letter)) @@ b
      word == ExtractWord(after, sq, Perpendicular(dir))
  IN Len(word) = 1 \/ Contains(Spelled(after, word))

\* The tiles of a rack that can stand for a letter.
Playable(rack, letter) ==
  {tile \in {Tile(letter), AssignedBlank(letter)} : BagIn(Used(tile), rack)}
Without(rack, tile) == rack (-) SetToBag({Used(tile)})

\* extendRight: the moves that continue node from a position to the right or
\* downwards.
RECURSIVE ExtendRight(_, _, _, _, _, _, _, _)
ExtendRight(b, dir, line, node, placed, rack, pos, atAnchor) ==
  LET sq == At(dir, line, pos)
      record == IF Terminal(node) /\ atAnchor /\ DOMAIN placed # {} THEN {placed} ELSE {}
      letters == {l \in Letters : Edge(node, l) /\ CrossAllows(b, sq, dir, l)}
  IN IF ~InBounds(sq) THEN record
     ELSE IF sq \in DOMAIN b
     THEN IF Edge(node, b[sq].letter)
          THEN ExtendRight(b, dir, line, Append(node, b[sq].letter), placed, rack,
                           pos + 1, atAnchor)
          ELSE {}
     ELSE record \cup UNION UNION
            {{ExtendRight(b, dir, line, Append(node, l), (sq :> tile) @@ placed,
                          Without(rack, tile), pos + 1, TRUE) :
                tile \in Playable(rack, l)} : l \in letters}

\* buildLeftPlacements
LeftPlacements(left, dir, line, pos) ==
  [sq \in {At(dir, line, pos - i) : i \in 1 .. Len(left)} |->
     left[Len(left) - (pos - Pos(dir, sq)) + 1]]

\* extendLeft: left parts of up to limit tiles in front of the anchor.
RECURSIVE ExtendLeft(_, _, _, _, _, _, _, _)
ExtendLeft(b, dir, line, node, left, rack, pos, limit) ==
  ExtendRight(b, dir, line, node, LeftPlacements(left, dir, line, pos), rack, pos, FALSE)
    \cup IF limit = 0 THEN {}
         ELSE UNION UNION
           {{ExtendLeft(b, dir, line, Append(node, l), Append(left, tile),
                        Without(rack, tile), pos, limit - 1) :
               tile \in Playable(rack, l)} : l \in {k \in Letters : Edge(node, k)}}

\* computeLeftLimit: the empty squares in front of the anchor, up to the next one.
LeftLimit(b, anchors, dir, line, pos) ==
  pos - Min({p \in 0 .. pos : \A q \in p .. pos - 1 :
               At(dir, line, q) \notin DOMAIN b \cup anchors})

\* walkLeftExisting: the letters of the tiles right in front of the anchor.
LeftExisting(b, dir, line, pos) ==
  LET start == RunStart(b, dir, line, pos)
  IN [i \in 1 .. pos - start |-> b[At(dir, line, start + i - 1)].letter]

\* runFromAnchor
RunFromAnchor(b, anchors, rack, anchor, dir) ==
  LET line == Line(dir, anchor)
      pos == Pos(dir, anchor)
      limit == LeftLimit(b, anchors, dir, line, pos)
      existing == LeftExisting(b, dir, line, pos)
  IN IF limit > 0 THEN ExtendLeft(b, dir, line, <<>>, <<>>, rack, pos, limit)
     ELSE IF existing \in Nodes
     THEN ExtendRight(b, dir, line, existing, <<>>, rack, pos, FALSE)
     ELSE {}

\* GenerateMoves; an empty board has the center for an anchor.
GenerateMoves(b, rack) ==
  LET anchors == Anchors(b)
      starts == IF DOMAIN b = {} THEN {Center} ELSE anchors
      emitted == UNION {RunFromAnchor(b, anchors, rack, a, dir) :
                          a \in starts, dir \in {"H", "V"}}
  IN {move \in emitted : Valid(b, move)}

\* The moves of the highest score; BestMove returns the first of them.
BestMoves(b, rack) ==
  LET all == GenerateMoves(b, rack)
      best == Max({ScoreMove(b, move) : move \in all})
  IN {move \in all : ScoreMove(b, move) = best}

-----------------------------------------------------------------------------
(* A game *)

Players == {1, 2}
rack == racks[turn]

\* Bag.Draw: any tiles, up to n of them.
Draws(from, n) ==
  {d \in SubBag(from) : BagCardinality(d) = Min({n, BagCardinality(from)})}

\* Rack.Refill
Refills(from, r) == Draws(from, RackSize - BagCardinality(r))

Value(r) ==
  LET value(tile) == Score(tile) * CopiesIn(tile, r)
  IN MapThenSumSet(value, BagToSet(r))

\* startGame
Init ==
  /\ board = <<>>
  /\ \E first \in Refills(Distribution, EmptyBag) :
       \E second \in Refills(Distribution (-) first, EmptyBag) :
         /\ racks = <<first, second>>
         /\ bag = (Distribution (-) first) (-) second
  /\ scores = <<0, 0>>
  /\ turn = 1
  /\ scorelessTurns = 0
  /\ moves = 0
  /\ earned = 0
  /\ over = FALSE

\* IsGameOver
IsGameOver(left, rs, scoreless) ==
  \/ scoreless >= ScorelessTurnsToEnd
  \/ left = EmptyBag /\ \E p \in Players : rs[p] = EmptyBag

\* FinalScores: everyone pays for what is on the rack, to the first who is out.
FinalScores(points, rs) ==
  LET out == {p \in Players : rs[p] = EmptyBag}
      others(p) == MapThenSumSet(LAMBDA q : Value(rs[q]), Players \ {p})
  IN [p \in Players |-> points[p] - Value(rs[p])
        + IF out # {} /\ p = Min(out) THEN others(p) ELSE 0]

\* The turn ends with new racks, bag and scores.
EndTurn(rs, left, gained, scoreless) ==
  LET points == [scores EXCEPT ![turn] = @ + gained] IN
  /\ moves < MaxMoves
  /\ earned' = earned + gained
  /\ moves' = moves + 1
  /\ racks' = rs
  /\ bag' = left
  /\ scorelessTurns' = scoreless
  /\ over' = IsGameOver(left, rs, scoreless)
  /\ scores' = IF over' THEN FinalScores(points, rs) ELSE points
  /\ turn' = IF over' THEN turn ELSE 3 - turn

\* tilesUsed: the tiles of the rack that are on some squares.
TilesUsed(tiles) ==
  [t \in {Used(tiles[sq]) : sq \in DOMAIN tiles} |->
     Cardinality({sq \in DOMAIN tiles : Used(tiles[sq]) = t})]

\* A bot plays the best move for what it is told: Rack.Remove, Move.Apply, Refill.
Play ==
  /\ GenerateMoves(Told(board), rack) # {}
  /\ LET move == Told(CHOOSE m \in BestMoves(Told(board), rack) : TRUE)
         kept == rack (-) TilesUsed(move)
     IN /\ board' = move @@ board
        /\ \E drawn \in Refills(bag, kept) :
             EndTurn([racks EXCEPT ![turn] = kept (+) drawn], bag (-) drawn,
                     ScoreMove(board, move), 0)

\* Mutant: what was exchanged is not put back into the bag.
ExchangeDiscards ==
  /\ BagCardinality(bag) >= RackSize
  /\ \E given \in SubBag(rack) : \E drawn \in Draws(bag, BagCardinality(given)) :
       EndTurn([racks EXCEPT ![turn] = (rack (-) given) (+) drawn],
               bag (-) drawn, 0, scorelessTurns + 1)
  /\ UNCHANGED board

\* Rack.Exchange, Bag.Return: the tiles are drawn before the old ones go back.
Exchange ==
  /\ BagCardinality(bag) >= RackSize
  /\ \E given \in SubBag(rack) : \E drawn \in Draws(bag, BagCardinality(given)) :
       EndTurn([racks EXCEPT ![turn] = (rack (-) given) (+) drawn],
               (bag (-) drawn) (+) given, 0, scorelessTurns + 1)
  /\ UNCHANGED board

Pass ==
  /\ EndTurn(racks, bag, 0, scorelessTurns + 1)
  /\ UNCHANGED board

Next == ~over /\ (Play \/ Exchange \/ Pass)

Spec == Init /\ [][Next]_vars

-----------------------------------------------------------------------------
(* Properties *)

\* Every legal move that the tiles of a rack can make in some row or column of
\* the window, found by trying all of them.
LegalMoves(b, r) ==
  LET tiles == UNION {Playable(r, l) : l \in Letters}
      lines == {{At(dir, line, pos) : pos \in at} :
                  dir \in {"H", "V"}, line \in Window, at \in SUBSET Window}
      squares == {sqs \in lines : Cardinality(sqs) \in 1 .. RackSize}
  IN UNION {{move \in [sqs -> tiles] : TilesUsed(move) \sqsubseteq r /\ Valid(b, move)} :
              sqs \in squares}

\* The move generator misses no move that Validate accepts: anchors, left parts
\* and cross checks lose nothing on any board that play leads to, with blanks
\* and without (GenerateMoves).
GeneratesEveryMove ==
  over \/ LegalMoves(board, rack) =
            {m \in GenerateMoves(board, rack) : DOMAIN m \subseteq Window \X Window}

\* Bag, racks and board together always hold the tiles of the language, blanks
\* as blanks whatever letter they stand for (Remove, Refill, Exchange, Return);
\* and a bot is told of the board and the rack as they are, so that its move is
\* for the position the room has (boardToWire, wireToBoard).  Points come from
\* moves only: what the others lose at the end goes to the player who is out
\* (FinalScores).
GameKept ==
  /\ bag (+) racks[1] (+) racks[2] (+) TilesUsed(board) = Distribution
  /\ Told(board) = board
  /\ ~over \/ (\E p \in Players : racks[p] = EmptyBag) => scores[1] + scores[2] = earned
=============================================================================
