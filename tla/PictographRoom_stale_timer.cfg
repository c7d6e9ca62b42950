\* Two players; a timer message is in the mailbox when its timer is cancelled.
CONSTANTS
  alice = alice
  bob = bob
  a1 = a1
  a2 = a2
  b1 = b1
  Players = {alice, bob}
  Sessions = {a1, a2, b1}
  Owner <- MCOwner
  None = None
  MinPlayers = 2
  MaxPlayers = 2
  MaxRounds = 2
  DrawSeconds = 2
  MaxMail = 1
SPECIFICATION Spec
INVARIANT EnoughPlayers
CHECK_DEADLOCK FALSE
