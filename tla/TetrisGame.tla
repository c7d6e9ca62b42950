----------------------------- MODULE TetrisGame -----------------------------
(***************************************************************************)
(* goakt-tetris, the game a MatchActor plays: the board, the falling piece,*)
(* gravity and the player's inputs.  TetrisMatch has the life of the actor.*)
(*                                                                         *)
(* A cell is <<x, y>>, y counted from the top.  The grid is the set of the *)
(* filled cells; their colours, the score and the tick number are left out *)
(* because nothing depends on them.  The level and the gravity follow from *)
(* the number of lines.                                                    *)
(***************************************************************************)
EXTENDS Integers, FiniteSets, FiniteSetsExt

CONSTANTS
  BoardW, BoardH,
  Kinds,          \* the kinds of pieces that are dealt, of 0..6
  gravityStart, gravityMin, gravityPerLvl, softDropTicks,
  LinesPerLevel,
  MaxLines        \* bound: lines cleared in a game

VARIABLES grid, piece, nextKind, gameOver, softDrop, paused, fallTick, lines
vars == <<grid, piece, nextKind, gameOver, softDrop, paused, fallTick, lines>>

-----------------------------------------------------------------------------
(* Pieces *)

PieceShapes ==
  [kind \in 0 .. 6 |->
     CASE kind = 0 -> {<<-1, 0>>, <<0, 0>>, <<1, 0>>, <<2, 0>>}
       [] kind = 1 -> {<<0, 0>>, <<1, 0>>, <<0, 1>>, <<1, 1>>}
       [] kind = 2 -> {<<-1, 0>>, <<0, 0>>, <<1, 0>>, <<0, 1>>}
       [] kind = 3 -> {<<0, 0>>, <<1, 0>>, <<-1, 1>>, <<0, 1>>}
       [] kind = 4 -> {<<-1, 0>>, <<0, 0>>, <<0, 1>>, <<1, 1>>}
       [] kind = 5 -> {<<-1, 0>>, <<0, 0>>, <<1, 0>>, <<1, 1>>}
       [] kind = 6 -> {<<-1, 0>>, <<0, 0>>, <<1, 0>>, <<-1, 1>>}]
kindO == 1

\* pieceCells: the shape turned rot times.
PieceCells(kind, rot) ==
  LET turned[n \in 0 .. rot] ==
        IF n = 0 THEN PieceShapes[kind] ELSE {<<-c[2], c[1]>> : c \in turned[n - 1]}
  IN turned[rot]

Cells(p) == {<<p.x + c[1], p.y + c[2]>> : c \in PieceCells(p.kind, p.rot)}

\* canPlace: a piece may stick out of the board at the top.
CanPlace(g, p) ==
  \A c \in Cells(p) : c[1] \in 0 .. BoardW - 1 /\ c[2] < BoardH /\ c \notin g

Moved(p, dx, dy) == [p EXCEPT !.x = @ + dx, !.y = @ + dy]

\* ghostY, and where a hard drop ends.
Landing(p) ==
  Moved(p, 0, Max({d \in 0 .. BoardH : \A e \in 0 .. d : CanPlace(grid, Moved(p, 0, e))}))

-----------------------------------------------------------------------------
(* Locking a piece *)

Gravity(n) == Max({gravityMin, gravityStart - (n \div LinesPerLevel) * gravityPerLvl})

\* currentGravity
CurrentGravity(soft, n) == IF soft THEN softDropTicks ELSE Gravity(n)

FullRows(g) == {y \in 0 .. BoardH - 1 : \A x \in 0 .. BoardW - 1 : <<x, y>> \in g}

\* Mutant: the row that comes down into the place of a full row is skipped.
ClearLinesOnce(g) ==
  LET last == Max(FullRows(g))
  IN IF FullRows(g) = {} THEN g
     ELSE {<<c[1], IF c[2] < last THEN c[2] + 1 ELSE c[2]>> : c \in {d \in g : d[2] # last}}

\* clearLines: every row moves down by the number of full rows below it.
ClearLines(g) ==
  LET below(y) == Cardinality({f \in FullRows(g) : f > y})
  IN {<<c[1], c[2] + below(c[2])>> : c \in {d \in g : d[2] \notin FullRows(g)}}

\* spawnPiece
SpawnPiece(g, kind) ==
  /\ piece' = [kind |-> kind, rot |-> 0, x |-> BoardW \div 2, y |-> 1]
  /\ nextKind' \in Kinds
  /\ gameOver' = ~CanPlace(g, piece')

\* lockPiece: what sticks out at the top is lost.
LockPiece(p) ==
  LET filled == grid \cup {c \in Cells(p) : c[2] >= 0}
  IN /\ lines' = lines + Cardinality(FullRows(filled))
     /\ lines' <= MaxLines
     /\ grid' = ClearLines(filled)
     /\ SpawnPiece(grid', nextKind)

-----------------------------------------------------------------------------

\* reset
Reset ==
  /\ grid' = {}
  /\ lines' = 0
  /\ softDrop' = FALSE
  /\ paused' = FALSE
  /\ fallTick' = gravityStart
  /\ \E kind \in Kinds : SpawnPiece({}, kind)

\* The first reset, on PostStart.
Init ==
  /\ grid = {}
  /\ lines = 0
  /\ softDrop = FALSE
  /\ paused = FALSE
  /\ fallTick = gravityStart
  /\ piece \in {[kind |-> k, rot |-> 0, x |-> BoardW \div 2, y |-> 1] : k \in Kinds}
  /\ nextKind \in Kinds
  /\ gameOver = ~CanPlace({}, piece)

Playing == ~gameOver /\ ~paused

\* tick: step; nothing happens in a game that is over or paused.
Tick ==
  /\ Playing
  /\ IF fallTick > 1
     THEN /\ fallTick' = fallTick - 1
          /\ UNCHANGED <<grid, piece, nextKind, gameOver, lines>>
     ELSE /\ IF CanPlace(grid, Moved(piece, 0, 1))
             THEN /\ piece' = Moved(piece, 0, 1)
                  /\ UNCHANGED <<grid, nextKind, gameOver, lines>>
             ELSE LockPiece(piece)
          /\ fallTick' = CurrentGravity(softDrop, lines')
  /\ UNCHANGED <<softDrop, paused>>

Pause ==
  /\ ~gameOver
  /\ paused' = ~paused
  /\ UNCHANGED <<grid, piece, nextKind, gameOver, softDrop, fallTick, lines>>

Restart == gameOver /\ Reset

\* The piece takes a new place if there is room for it.
Try(p) ==
  /\ Playing
  /\ CanPlace(grid, p)
  /\ piece' = p
  /\ UNCHANGED <<grid, nextKind, gameOver, softDrop, paused, fallTick, lines>>

\* tryShift
Shift == \E dx \in {-1, 1} : Try(Moved(piece, dx, 0))

Rotate == piece.kind # kindO /\ Try([piece EXCEPT !.rot = (@ + 1) % 4])

SoftDrop ==
  /\ Playing
  /\ softDrop' = TRUE
  /\ fallTick' = Min({fallTick, softDropTicks})
  /\ UNCHANGED <<grid, piece, nextKind, gameOver, paused, lines>>

SoftDropEnd ==
  /\ Playing
  /\ softDrop' = FALSE
  /\ UNCHANGED <<grid, piece, nextKind, gameOver, paused, fallTick, lines>>

HardDrop ==
  /\ Playing
  /\ LockPiece(Landing(piece))
  /\ fallTick' = CurrentGravity(softDrop, lines')
  /\ UNCHANGED <<softDrop, paused>>

\* handleInput and the tick.
Next == Tick \/ Pause \/ Restart \/ Shift \/ Rotate \/ SoftDrop \/ SoftDropEnd \/ HardDrop

Spec == Init /\ [][Next]_vars

-----------------------------------------------------------------------------
(* Properties *)

\* Whatever is pressed between two ticks, the falling piece stays within the
\* walls and off the stack until the game is over, and the game is over only
\* when it cannot; no row is left full, so at most four are full at the next
\* lock and scoreFor[cleared] exists; and the stack stays inside the array
\* (canPlace, lockPiece, clearLines, spawnPiece).
BoardSound ==
  /\ gameOver <=> ~CanPlace(grid, piece)
  /\ FullRows(grid) = {}
  /\ grid \subseteq (0 .. BoardW - 1) \X (0 .. BoardH - 1)
  /\ fallTick \in 1 .. gravityStart
=============================================================================
