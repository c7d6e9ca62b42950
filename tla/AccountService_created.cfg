CONSTANTS
  Procs = {p1, p2}
  Local = p1
  Clients = {c1, c2}
  DCClients = {c1}
  Opening = 1
  Cent = 1
  MaxBalance = 2

SPECIFICATION Spec

INVARIANT ToldBalanceSurvives

CHECK_DEADLOCK FALSE
