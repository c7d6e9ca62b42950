CONSTANTS
  Procs = {p1, p2}
  Local = p1
  Clients = {c1, c2}
  DCClients = {c1}
  Opening = 1
  Cent = 3
  MaxBalance = 3
  Addresses = {x1, x2}
  general = general
  dev = dev
  Rooms = {general, dev}
  Flags <- TwoClients
  maxHistorySize = 1
  MaxJoins = 1
  MaxMessages = 2
  MaxMail = 1
SPECIFICATION MCSpec
INVARIANTS
  ToldBalanceKept
  StoreOutlivesSystem
  NotFoundNotCredited
  ServerAgrees
  MembersHear
