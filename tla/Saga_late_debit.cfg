\* One transfer and one slow account.
CONSTANTS
  Accounts = {alice, bob}
  Transfers = {t1}
  Amounts = {1}
  Openings = {1}
  Credits = {1}
  Cent = 2
  MaxCredited = 1
  MaxFaults = 1
SPECIFICATION Spec
INVARIANT FailedDebitCommitsNothing
CHECK_DEADLOCK FALSE
