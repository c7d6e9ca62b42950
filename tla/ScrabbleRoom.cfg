\* Two players, one of whom may come back with a second connection, and a bot;
\* three tiles, racks of one, and two scoreless turns end the game.
CONSTANTS
  alice = alice
  bob = bob
  a1 = a1
  a2 = a2
  b1 = b1
  x = x
  Players = {alice, bob}
  Bots = {x}
  Sessions = {a1, a2, b1}
  Owner <- MCOwner
  None = None
  MinPlayers = 2
  MaxPlayers = 2
  Tiles = 3
  RackSize = 1
  ScorelessTurnsToEnd = 2
  MaxThinking = 1
SPECIFICATION Spec
INVARIANTS
  UndisturbedNeverFails
  TilesAccounted
  EmptyRoomStops
PROPERTIES
  GameEnds
CHECK_DEADLOCK FALSE
