SPECIFICATION Spec
CONSTANTS
  a1 = a1
  a2 = a2
  r1 = r1
  r2 = r2
  r3 = r3
  k1 = k1
  None = None
  Accounts = {a1, a2}
  Requests = {r1, r3}
  Probes = {k1}
  Maintainers = {m1}
  Drainers = {d1, d2}
  Target <- MCTarget
  Accepts <- MCAccepts
  Statuses = {"ready", "off"}
  Volatile = {}
  Settings <- TwoLimits
  Sticky = FALSE
  MayStop = TRUE
  MaxDay = 1
  WritesMayFail = FALSE
INVARIANTS TypeOK SlotsExact UpdateExclusive
PROPERTIES ImplementsLedger
CHECK_DEADLOCK FALSE
