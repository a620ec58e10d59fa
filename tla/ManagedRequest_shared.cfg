SPECIFICATION Spec
CONSTANTS
  None = None
  a1 = a1
  a2 = a2
  Accounts = {a1}
  Requests = {r1, r2}
  PerAccount = 1
  MaxSwitches = 1
  Threshold = 2
  Targets <- AnyOrFirst
  Repairs = TRUE
SYMMETRY Alike
INVARIANTS SlotsMatchLeases
PROPERTIES ImplementsLedger
CHECK_DEADLOCK FALSE
