----------------------------- MODULE MCSystems -----------------------------
(***************************************************************************)
(* The smaller systems, which do not interact, each explored on its own: a *)
(* behaviour is one of the scrabble engine, of a tetris game or match, of a*)
(* lobby, of the recording of results or of the AI agents.                 *)
(* The variables of the others are idle.                                   *)
(***************************************************************************)
EXTENDS Systems, TLC

CONSTANTS
  Idle,  \* the variables of a system that is not the one explored
  RackSize, BingoBonus, ScorelessTurnsToEnd, MinWordLength, MaxMoves, Window

VARIABLES
  board, bag, racks, scores, turn, scorelessTurns, over, moves, earned

\* The letters a, b, c with their points, seven words and a bag of six tiles.
Words == {<<0, 1>>, <<1, 0>>, <<1, 1>>, <<1, 0, 1>>, <<0, 2>>, <<2, 0, 1>>, <<1, 1, 2>>}
PointValues == (0 :> 1) @@ (1 :> 3) @@ (2 :> 8)
TileOf(letter) == [letter |-> letter, blank |-> FALSE]
Distribution ==
  (TileOf(0) :> 2) @@ (TileOf(1) :> 2) @@ (TileOf(2) :> 1)
    @@ ([letter |-> 0, blank |-> TRUE] :> 1)

Engine == INSTANCE ScrabbleEngine

engineVars == <<board, bag, racks, scores, turn, scorelessTurns, over, moves, earned>>
vars == <<system, engineVars, tetrisVars, matchVars, lobbyVars, resultVars, agentVars>>

\* Pods are alike: the one that has a key where not all of them do.
OnePod == {CHOOSE p \in Pods : TRUE}

EngineIdle ==
  /\ board = Idle /\ bag = Idle /\ racks = Idle /\ scores = Idle /\ turn = Idle
  /\ scorelessTurns = Idle /\ over = Idle /\ moves = Idle /\ earned = Idle
TetrisIdle ==
  /\ grid = Idle /\ piece = Idle /\ nextKind = Idle /\ gameOver = Idle
  /\ softDrop = Idle /\ paused = Idle /\ fallTick = Idle /\ lines = Idle

Init ==
  /\ \/ system = "engine" /\ Engine!Init /\ TetrisIdle
     \/ system = "tetris" /\ Tetris!Init /\ EngineIdle
     \/ /\ system \in {"match", "scrabble lobby", "pictograph lobby", "results", "agents"}
        /\ EngineIdle /\ TetrisIdle
  /\ Match!Init /\ Lobby!Init /\ Results!Init /\ Agents!Init
  /\ configured \in IF system = "agents" THEN {{}, OnePod, Pods} ELSE {Pods}

Next ==
  \/ /\ system = "engine" /\ Engine!Next
     /\ UNCHANGED <<system, tetrisVars, matchVars, lobbyVars, resultVars, agentVars>>
  \/ /\ system = "tetris" /\ Tetris!Next
     /\ UNCHANGED <<system, engineVars, matchVars, lobbyVars, resultVars, agentVars>>
  \/ /\ system = "match" /\ Match!Next
     /\ UNCHANGED <<system, engineVars, tetrisVars, lobbyVars, resultVars, agentVars>>
  \/ /\ system = "scrabble lobby" /\ Lobby!NextScrabble
     /\ UNCHANGED <<system, engineVars, tetrisVars, matchVars, resultVars, agentVars>>
  \/ /\ system = "pictograph lobby" /\ Lobby!NextPictograph
     /\ UNCHANGED <<system, engineVars, tetrisVars, matchVars, resultVars, agentVars>>
  \/ /\ system = "results" /\ Results!Next
     /\ UNCHANGED <<system, engineVars, tetrisVars, matchVars, lobbyVars, agentVars>>
  \/ /\ system = "agents" /\ Agents!Next
     /\ UNCHANGED <<system, engineVars, tetrisVars, matchVars, lobbyVars, resultVars>>

Spec == Init /\ [][Next]_vars /\ Match!Fairness /\ Agents!Fairness

-----------------------------------------------------------------------------

\* The scrabble move generator misses no legal move (GenerateMoves).
GeneratesEveryMove == system = "engine" => Engine!GeneratesEveryMove

\* A scrabble game keeps its tiles and its points, and bots are told the truth
\* about the board (Refill, Exchange, FinalScores, boardToWire).
GameKept == system = "engine" => Engine!GameKept
=============================================================================
