SPECIFICATION HistorySpec
CONSTANTS
  a1 = a1
  a2 = a2
  r1 = r1
  r2 = r2
  r3 = r3
  k1 = k1
  None = None
  Accounts = {a1, a2}
  Requests = {r3}
  Probes = {}
  Maintainers = {m1, m2}
  Drainers = {}
  Target <- MCTarget
  Accepts <- MCAccepts
  Statuses = {"ready", "absent"}
  Volatile = {a2}
  Settings <- OneSlot
  Sticky = FALSE
  MayStop = FALSE
  MaxDay = 1
  WritesMayFail = FALSE
PROPERTIES KeepsAccounting
CHECK_DEADLOCK FALSE
