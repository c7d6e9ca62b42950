\* Two pods and one failure.
CONSTANTS
  Pods = {p1, p2}
  Transactions = {}
  None = None
  MaxBlocks = 2
  MaxFaults = 1
SPECIFICATION Spec
INVARIANT NoForks
CHECK_DEADLOCK FALSE
