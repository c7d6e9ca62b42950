CONSTANTS
  Idle = Idle
  None = None
  RackSize = 2
  BingoBonus = 50
  ScorelessTurnsToEnd = 2
  MinWordLength = 2
  MaxMoves = 4
  Window = {5, 6, 7, 8, 9}
  BoardW = 5
  BoardH = 4
  Kinds = {0, 1, 2}
  gravityStart = 2
  gravityMin = 1
  gravityPerLvl = 1
  softDropTicks = 1
  LinesPerLevel = 1
  MaxLines = 2
  Visitors = {p1, p2}
  Languages = {en, fr}
  Codes = {c1, c2}
  LongCodes = {c3}
  Recorded = {p1}
  Bots = {b1}
  MaxGames = 2
  Pods = {n1, n2}
  Queries = {q1, q2}
  AgentKinds = {tool}
  kindTool = tool
SPECIFICATION Spec
INVARIANTS
  GeneratesEveryMove
  GameKept
  BoardSound
  CodeMeansRoom
  ResultsAgree
  QueriesAnswered
PROPERTIES
  MatchEndsWithConnection
  EveryQueryEnds
CHECK_DEADLOCK FALSE
