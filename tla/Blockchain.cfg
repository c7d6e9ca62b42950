\* Two pods, three blocks, one transaction, one failure.
CONSTANTS
  Pods = {p1, p2}
  Transactions = {x1}
  None = None
  MaxBlocks = 3
  MaxFaults = 1
SPECIFICATION Spec
INVARIANTS
  ChainsValid
  QuietReplicasAgree
  TransactionsOnce
PROPERTIES
  StoresGrow
  CatchUpEnds
  MinerReturns
CHECK_DEADLOCK FALSE
