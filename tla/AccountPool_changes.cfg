SPECIFICATION Spec
CONSTANTS
  a1 = a1
  a2 = a2
  r1 = r1
  r2 = r2
  r3 = r3
  k1 = k1
  None = None
  Accounts = {a1, a2}
  Requests = {r1, r2, r3}
  Probes = {}
  Maintainers = {m1}
  Drainers = {d1}
  Target <- MCTarget
  Accepts <- MCAccepts
  Statuses = {"ready", "resting", "absent"}
  Volatile = {a2}
  Settings <- TotalOne
  Sticky = FALSE
  MayStop = FALSE
  MaxDay = 1
  WritesMayFail = FALSE
INVARIANTS InUseMirror NoSlotLeak NoStrandedWaiter PoolCurrent
CHECK_DEADLOCK FALSE
