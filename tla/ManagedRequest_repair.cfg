SPECIFICATION Spec
CONSTANTS
  None = None
  a1 = a1
  a2 = a2
  Accounts = {a1, a2}
  Requests = {r1, r2}
  PerAccount = 2
  MaxSwitches = 1
  Threshold = 2
  Targets <- AnyAccount
  Repairs = TRUE
INVARIANTS TurnsOnOwner
CHECK_DEADLOCK FALSE
