\* Two concurrent transfers out of an account, nothing fails.
CONSTANTS
  Accounts = {alice, bob}
  Transfers = {t1, t2}
  Amounts = {1}
  Openings = {1}
  Cent = 1
  MaxFaults = 0
SPECIFICATION Spec
INVARIANT NoOverdraft
CHECK_DEADLOCK FALSE
