\* Two players, one of whom may come back with a second connection.
CONSTANTS
  alice = alice
  bob = bob
  a1 = a1
  a2 = a2
  b1 = b1
  Players = {alice, bob}
  Sessions = {a1, a2, b1}
  Owner <- MCOwner
  None = None
  MinPlayers = 2
  MaxPlayers = 2
  MaxRounds = 3
  DrawSeconds = 1
  MaxMail = 1
SPECIFICATION Spec
INVARIANTS
  DrawerIsSeated
  TimersMatchPhase
  ConnectedStaySeated
PROPERTIES
  GameEnds
  GameOverEnds
CHECK_DEADLOCK FALSE
