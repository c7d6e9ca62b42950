------------------------------ MODULE Systems ------------------------------
(***************************************************************************)
(* The smaller systems, which do not interact: a tetris game and its match,*)
(* a lobby, the recording of results and the AI agents, each with the      *)
(* property it has to have.                                                *)
(***************************************************************************)
EXTENDS Integers, FiniteSets

CONSTANTS
  None,
  BoardW, BoardH, Kinds, gravityStart, gravityMin, gravityPerLvl, softDropTicks,
  LinesPerLevel, MaxLines,
  Visitors, Languages, Codes, LongCodes,  \* Visitors: the players of the lobbies
  Recorded, Bots, MaxGames,  \* Recorded: the players whose results are followed
  Pods, Queries, AgentKinds, kindTool  \* Pods: also the nodes of the results

VARIABLES
  system,
  grid, piece, nextKind, gameOver, softDrop, paused, fallTick, lines,
  gateway, session, match, remote, subscribed, hadSubscriber, watching, scheduled,
  mail, lost,
  rooms, live, request, seat, restarted,
  store, grain, counter, index, tasks, played, disturbed,
  answer, pod, mailbox, handling, step, kind, retrying, configured, registry, agent,
  requests, processed, outcomes, queryDisturbed, fault

\* The constants of goakt-tetris: a board, and a gravity that never stops.
ASSUME TetrisAssumption ==
  /\ {BoardW, BoardH, gravityStart, gravityMin, softDropTicks, LinesPerLevel}
       \subseteq Nat \ {0}
  /\ gravityPerLvl \in Nat /\ MaxLines \in Nat /\ Kinds \subseteq 0 .. 6
  /\ gravityMin <= gravityStart /\ softDropTicks <= gravityStart
ASSUME ResultsAssumption ==
  /\ IsFiniteSet(Recorded \cup Bots) /\ IsFiniteSet(Pods)
  /\ None \notin Recorded \cup Bots /\ None \notin [games : Nat, wins : Nat]
ASSUME AgentsAssumption == None \notin Pods \cup Queries

Tetris == INSTANCE TetrisGame
Match == INSTANCE TetrisMatch
Lobby == INSTANCE GameLobby WITH Players <- Visitors
Results == INSTANCE GameResults WITH Players <- Recorded, Nodes <- Pods
Agents == INSTANCE AgentQueries WITH disturbed <- queryDisturbed

tetrisVars == <<grid, piece, nextKind, gameOver, softDrop, paused, fallTick, lines>>
matchVars == <<gateway, session, match, remote, subscribed, hadSubscriber, watching,
               scheduled, mail, lost>>
lobbyVars == <<rooms, live, request, seat, restarted>>
resultVars == <<store, grain, counter, index, tasks, played, disturbed>>
agentVars == <<answer, pod, mailbox, handling, step, kind, retrying, configured, registry,
               agent, requests, processed, outcomes, queryDisturbed, fault>>

-----------------------------------------------------------------------------

\* The tetris piece stays off the stack and no row is left full (canPlace,
\* lockPiece, clearLines).
BoardSound == system = "tetris" => Tetris!BoardSound

\* A tetris match ends with its connection unless it is orphaned (wsHandler,
\* maybeShutdown).
MatchEndsWithConnection == Match!MatchEndsWithConnection

\* Players with the same code sit in the same room (handleJoinOrCreate).
CodeMeansRoom == Lobby!CodeMeansRoom

\* Profiles and leaderboards agree with the games played (recordResults).
ResultsAgree == Results!ResultsAgree

\* Queries are worked on once, fail for a reason and are told what came of it (handleSubmitQuery).
QueriesAnswered == Agents!QueriesAnswered

\* Every query ends (handleSubmitQuery).
EveryQueryEnds == Agents!EveryQueryEnds
=============================================================================
