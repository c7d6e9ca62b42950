\* Two transfers between two accounts, in either direction, one failure.
CONSTANTS
  Accounts = {alice, bob}
  Transfers = {t1, t2}
  Amounts = {1}
  Openings <- CentOrDebt
  Credits <- HalfCents
  Cent = 2
  MaxCredited = 0
  MaxFaults = 1
SPECIFICATION Spec
INVARIANTS
  UndisturbedIsSettled
  NoOverdraft
  StatusAgreesWithAnswer
  MoneyConserved
PROPERTIES
  ImplementsCompensatedTransfer
  ConfirmedDebitEnds
CHECK_DEADLOCK FALSE
