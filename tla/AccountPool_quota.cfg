SPECIFICATION TimerFairSpec
CONSTANTS
  a1 = a1
  a2 = a2
  r1 = r1
  r2 = r2
  r3 = r3
  k1 = k1
  None = None
  Accounts = {a1}
  Requests = {r1, r3}
  Probes = {}
  Maintainers = {m1}
  Drainers = {}
  Target <- AllRotate
  Accepts <- MCAccepts
  Statuses = {"ready"}
  Volatile = {}
  Settings <- Quotas
  Sticky = TRUE
  MayStop = TRUE
  MaxDay = 2
  WritesMayFail = TRUE
INVARIANTS QuotaKept
PROPERTIES RateBlockLifts
CHECK_DEADLOCK FALSE
