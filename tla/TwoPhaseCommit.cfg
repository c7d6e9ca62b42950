\* Two transfers between two accounts, in either direction, one failure.
CONSTANTS
  Accounts = {alice, bob}
  Transfers = {t1, t2}
  Amounts = {1}
  Openings = {1}
  Cent = 2
  MaxFaults = 1
SPECIFICATION Spec
INVARIANTS
  TypeOK
  UndisturbedIsAtomic
  StatusAgreesWithAnswer
PROPERTIES
  ImplementsAtomicTransfer
  StoredStatusForward
  CoordinatorEnds
CHECK_DEADLOCK FALSE
