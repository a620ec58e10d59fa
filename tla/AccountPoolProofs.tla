-------------------------- MODULE AccountPoolProofs --------------------------
(***************************************************************************)
(* What holds of the account pool for every set of accounts, callers,      *)
(* maintainers and drainers, every setting and every interleaving.         *)
(***************************************************************************)
EXTENDS AccountPoolProps, FiniteSetTheorems, TLAPS

-----------------------------------------------------------------------------
(***************************************************************************)
(* The quota fragments keep the shape of the quota state.                  *)
(***************************************************************************)

(* Every value of the runtime section is a pair of numeric limits.         *)
LEMMA SettingNumbers ==
  ASSUME NEW c \in Settings
  PROVE  /\ c.per \in Nat \ {0} /\ c.queue \in Nat /\ c.total \in Nat
         /\ c.rate \in Nat /\ c.daily \in Nat
BY QuotaAssumption

(* The empty window is a window.                                           *)
LEMMA NoWindowType == NoWindow \in Window
BY DEF NoWindow, Window

(* Writing a ledger leaves a ledger on disk.                               *)
LEMMA PersistType ==
  ASSUME disk \in Ledger, NEW l \in Ledger, Persist(l)
  PROVE  disk' \in Ledger /\ stale' \in BOOLEAN
BY DEF Persist

(* Zeroing elapsed windows keeps the windows well formed.                  *)
LEMMA GlancedType ==
  ASSUME rate \in [Accounts -> Window], NEW f \in Glanced
  PROVE  f \in [Accounts -> Window]
<1>1. NoWindow \in Window
  BY NoWindowType
<1>2. PICK S \in SUBSET ElapsedWindows :
        f = [a \in Accounts |-> IF a \in S THEN NoWindow ELSE rate[a]]
  BY DEF Glanced
<1> QED BY <1>1, <1>2

(* An empty ledger of today is a ledger.                                   *)
LEMMA EmptyLedgerType ==
  ASSUME QuotaTypeOK
  PROVE  /\ NoCounts \in [Accounts -> Nat]
         /\ EmptyDay \in Ledger
BY QuotaAssumption DEF QuotaTypeOK, NoCounts, Ledger, EmptyDay

(* The change of day.                                                      *)
LEMMA RollDayType ==
  ASSUME QuotaTypeOK, RollDay
  PROVE  daily' \in Ledger /\ disk' \in Ledger /\ stale' \in BOOLEAN
<1>1. CASE DailyOn /\ daily.date # today
  <2>1. daily' \in Ledger /\ Persist(daily')
    BY <1>1, EmptyLedgerType DEF RollDay
  <2> QED BY <2>1, PersistType DEF QuotaTypeOK
<1>2. CASE ~(DailyOn /\ daily.date # today)
  BY <1>2 DEF RollDay, QuotaTypeOK
<1> QED BY <1>1, <1>2

(* A look at the quotas keeps their shape.                                 *)
LEMMA GlanceType ==
  ASSUME QuotaTypeOK, Glance, UNCHANGED <<conf, today>>
  PROVE  QuotaTypeOK'
<1>1. rate' \in [Accounts -> Window]
  BY GlancedType DEF Glance, QuotaTypeOK
<1>2. daily' \in Ledger /\ disk' \in Ledger /\ stale' \in BOOLEAN
  BY RollDayType DEF Glance, QuotaTypeOK
<1> QED BY <1>1, <1>2 DEF Glance, QuotaTypeOK

(* A counted request keeps the minute windows well formed.                 *)
LEMMA RecordRateType ==
  ASSUME QuotaTypeOK, NEW a \in Accounts, RecordRate(a)
  PROVE  rate' \in [Accounts -> Window]
<1>1. CASE conf.rate > 0
  <2>1. PICK f \in Glanced : rate' = [f EXCEPT ![a] = Counted(f[a])]
    BY <1>1 DEF RecordRate
  <2>2. f \in [Accounts -> Window]
    BY GlancedType DEF QuotaTypeOK
  <2>3. conf.rate \in Nat
    BY SettingNumbers DEF QuotaTypeOK
  <2>4. Counted(f[a]) \in Window
    BY <2>2, <2>3 DEF Counted, Window
  <2> QED BY <2>1, <2>2, <2>4
<1>2. CASE ~(conf.rate > 0)
  BY <1>2 DEF RecordRate, QuotaTypeOK
<1> QED BY <1>1, <1>2

(* A counted request keeps the daily ledger and its file well formed.      *)
LEMMA RecordDailyType ==
  ASSUME QuotaTypeOK, NEW a \in Accounts, RecordDaily(a)
  PROVE  /\ daily' \in Ledger /\ disk' \in Ledger /\ stale' \in BOOLEAN
         /\ flush' \in {"off", "armed", "due"} /\ recent' \in BOOLEAN
<1> DEFINE ledger == [date |-> today, counts |-> [TodayCounts EXCEPT ![a] = @ + 1]]
           full == ledger.counts[a] >= conf.daily
<1>1. TodayCounts \in [Accounts -> Nat]
  BY EmptyLedgerType DEF TodayCounts, QuotaTypeOK, Ledger
<1>2. ledger \in Ledger
  BY <1>1, EmptyLedgerType DEF Ledger, QuotaTypeOK
<1>3. CASE ~DailyOn
  BY <1>3 DEF RecordDaily, QuotaTypeOK
<1>4. CASE DailyOn
  <2>1. daily' = ledger
    BY <1>4 DEF RecordDaily
  <2>2. CASE /\ Persist(ledger) \/ (disk' = EmptyDay /\ stale' = TRUE)
             /\ recent' = (recent \/ ~full) /\ UNCHANGED flush
    BY <1>2, <2>1, <2>2, PersistType, EmptyLedgerType DEF QuotaTypeOK
  <2>3. CASE /\ IF daily.date # today
                THEN Persist(EmptyDay)
                ELSE UNCHANGED <<disk, stale>>
             /\ flush' = IF flush = "off" THEN "armed" ELSE flush
             /\ UNCHANGED recent
    BY <1>2, <2>1, <2>3, PersistType, EmptyLedgerType DEF QuotaTypeOK
  <2> QED BY <1>4, <2>2, <2>3 DEF RecordDaily
<1> QED BY <1>3, <1>4

(* Counting a granted request keeps the shape of the quotas.               *)
LEMMA RecordType ==
  ASSUME QuotaTypeOK, NEW a \in Accounts, RecordRequest(a), UNCHANGED <<conf, today>>
  PROVE  QuotaTypeOK'
BY RecordRateType, RecordDailyType DEF RecordRequest, QuotaTypeOK

(* Applying new settings keeps the shape of the quotas.                    *)
LEMMA ResyncType ==
  ASSUME QuotaTypeOK
  PROVE  /\ ResyncedRate \in [Accounts -> Window]
         /\ ResyncDaily => daily' \in Ledger /\ disk' \in Ledger /\ stale' \in BOOLEAN
<1>1. ResyncedRate \in [Accounts -> Window]
  <2>1. NoWindow \in Window
    BY NoWindowType
  <2>2. ASSUME NEW a \in Accounts
        PROVE  [rate[a] EXCEPT !.blocked = rate[a].count >= conf.rate] \in Window
    <3>1. conf.rate \in Nat /\ rate[a] \in Window
      BY SettingNumbers DEF QuotaTypeOK
    <3>2. (rate[a].count >= conf.rate) \in BOOLEAN
      BY <3>1 DEF Window
    <3>3. ASSUME NEW b \in BOOLEAN
          PROVE  [rate[a] EXCEPT !.blocked = b] \in Window
      BY <3>1 DEF Window
    <3> QED BY <3>2, <3>3
  <2> QED BY <2>1, <2>2 DEF ResyncedRate, QuotaTypeOK
<1>2. ASSUME ResyncDaily
      PROVE  daily' \in Ledger /\ disk' \in Ledger /\ stale' \in BOOLEAN
  <2>1. CASE ForgetsCounts
    <3>1. daily' \in Ledger /\ Persist(daily')
      BY <1>2, <2>1, EmptyLedgerType DEF ResyncDaily
    <3> QED BY <3>1, PersistType DEF QuotaTypeOK
  <2>2. CASE ~ForgetsCounts
    BY <1>2, <2>2, RollDayType DEF ResyncDaily
  <2> QED BY <2>1, <2>2
<1> QED BY <1>1, <1>2

(* Dropping the entries of accounts that left keeps the shape.             *)
LEMMA PruneType ==
  ASSUME QuotaTypeOK, NEW known, PruneQuota(known), UNCHANGED <<conf, today>>
  PROVE  QuotaTypeOK'
<1>1. rate' \in [Accounts -> Window]
  BY NoWindowType DEF PruneQuota, QuotaTypeOK
<1>2. daily' \in Ledger
  BY DEF PruneQuota, QuotaTypeOK, Ledger
<1> QED BY <1>1, <1>2 DEF PruneQuota, QuotaTypeOK

(* Stopping and starting the process keep the shape.                       *)
LEMMA StopStartType ==
  ASSUME QuotaTypeOK, CloseQuota \/ StartQuota, UNCHANGED <<conf, today>>
  PROVE  QuotaTypeOK'
<1>1. rate' \in [Accounts -> Window] /\ flush' = "off"
  <2>1. rate' = [a \in Accounts |-> NoWindow] /\ flush' = "off"
    BY DEF CloseQuota, StartQuota
  <2> QED BY <2>1, NoWindowType
<1>2. CASE CloseQuota
  BY <1>1, <1>2, PersistType DEF CloseQuota, QuotaTypeOK
<1>3. CASE StartQuota
  <2>1. recent' \in BOOLEAN
    BY <1>3 DEF StartQuota
  <2>2. CASE disk.date \in {0, today}
    BY <1>1, <1>3, <2>1, <2>2 DEF StartQuota, QuotaTypeOK
  <2>3. CASE disk.date \notin {0, today}
    <3>1. daily' \in Ledger /\ Persist(daily')
      BY <1>3, <2>3, EmptyLedgerType DEF StartQuota
    <3> QED BY <1>1, <2>1, <3>1, PersistType DEF QuotaTypeOK
  <2> QED BY <2>2, <2>3
<1> QED BY <1>2, <1>3

-----------------------------------------------------------------------------

(* The slots in use are finitely many and inUseTotal is their number.      *)
Counters ==
  /\ inUse \in [Accounts -> Nat]
  /\ IsFiniteSet(Units(inUse, Accounts))
  /\ InUseMirror

-----------------------------------------------------------------------------
(***************************************************************************)
(* Counting units.                                                         *)
(***************************************************************************)

(* One more slot of an account is one more unit.                           *)
LEMMA UnitsMore ==
  ASSUME NEW f \in [Accounts -> Nat], NEW a \in Accounts,
         IsFiniteSet(Units(f, Accounts))
  PROVE  LET g == [f EXCEPT ![a] = @ + 1]
         IN  /\ IsFiniteSet(Units(g, Accounts))
             /\ Total(g, Accounts) = Total(f, Accounts) + 1
<1> DEFINE g == [f EXCEPT ![a] = @ + 1]
<1>1. Units(g, Accounts) = Units(f, Accounts) \cup {<<a, f[a] + 1>>}
  <2>1. ASSUME NEW b \in Accounts
        PROVE  {<<b, i>> : i \in 1..g[b]} =
                 {<<b, i>> : i \in 1..f[b]}
                   \cup (IF b = a THEN {<<a, f[a] + 1>>} ELSE {})
    OBVIOUS
  <2> QED BY <2>1 DEF Units
<1>2. <<a, f[a] + 1>> \notin Units(f, Accounts)
  BY DEF Units
<1>3. /\ IsFiniteSet(Units(g, Accounts))
      /\ Cardinality(Units(g, Accounts)) = Cardinality(Units(f, Accounts)) + 1
  <2> HIDE DEF g
  <2> QED BY <1>1, <1>2, FS_AddElement
<1> QED BY <1>3 DEF Total

(* One slot less of an account is one unit less.                           *)
LEMMA UnitsLess ==
  ASSUME NEW f \in [Accounts -> Nat], NEW a \in Accounts, f[a] > 0,
         IsFiniteSet(Units(f, Accounts))
  PROVE  LET g == [f EXCEPT ![a] = @ - 1]
         IN  /\ IsFiniteSet(Units(g, Accounts))
             /\ Total(g, Accounts) = Total(f, Accounts) - 1
<1> DEFINE g == [f EXCEPT ![a] = @ - 1]
<1>1. Units(g, Accounts) = Units(f, Accounts) \ {<<a, f[a]>>}
  <2>1. ASSUME NEW b \in Accounts
        PROVE  {<<b, i>> : i \in 1..g[b]} = {<<b, i>> : i \in 1..f[b]} \ {<<a, f[a]>>}
    OBVIOUS
  <2> QED BY <2>1 DEF Units
<1>2. <<a, f[a]>> \in Units(f, Accounts)
  <2>1. f[a] \in 1..f[a]
    OBVIOUS
  <2> QED BY <2>1 DEF Units
<1> QED BY <1>1, <1>2, FS_RemoveElement DEF Total

(* Writing off the slots of some accounts takes their units away.          *)
LEMMA UnitsWrittenOff ==
  ASSUME NEW f \in [Accounts -> Nat], NEW gone \in SUBSET Accounts,
         IsFiniteSet(Units(f, Accounts))
  PROVE  LET g == [a \in Accounts |-> IF a \in gone THEN 0 ELSE f[a]]
         IN  /\ IsFiniteSet(Units(g, Accounts))
             /\ Total(g, Accounts) = Total(f, Accounts) - Total(f, gone)
<1> DEFINE g == [a \in Accounts |-> IF a \in gone THEN 0 ELSE f[a]]
<1>1. Units(g, Accounts) = Units(f, Accounts) \ Units(f, gone)
  BY DEF Units
<1>2. Units(f, gone) \subseteq Units(f, Accounts)
  BY DEF Units
<1>3. /\ IsFiniteSet(Units(g, Accounts))
      /\ Cardinality(Units(g, Accounts)) =
           Cardinality(Units(f, Accounts)) - Cardinality(Units(f, gone))
  <2>1. Units(f, Accounts) \cap Units(f, gone) = Units(f, gone)
    BY <1>2
  <2>2. /\ IsFiniteSet(Units(f, Accounts) \ Units(f, gone))
        /\ Cardinality(Units(f, Accounts) \ Units(f, gone)) =
             Cardinality(Units(f, Accounts))
               - Cardinality(Units(f, Accounts) \cap Units(f, gone))
    BY FS_Difference
  <2> QED BY <1>1, <2>1, <2>2
<1> QED BY <1>3 DEF Total

(* No slot in use, no unit.                                                *)
LEMMA UnitsNone ==
  IsFiniteSet(Units(NoCounts, Accounts)) /\ Total(NoCounts, Accounts) = 0
<1>1. Units(NoCounts, Accounts) = {}
  BY DEF Units, NoCounts
<1> QED BY <1>1, FS_EmptySet DEF Total

-----------------------------------------------------------------------------
(***************************************************************************)
(* The data of the pool keeps its shape.                                   *)
(***************************************************************************)

(* A rebuilt rotation is a sequence of accounts of a natural length.       *)
LEMMA RotationType ==
  ASSUME NEW st, NEW q \in SetToSeqs(Listed(st))
  PROVE  q \in Seq(Accounts) /\ Cardinality(Listed(st)) \in Nat
<1>1. Listed(st) \subseteq Accounts
  BY DEF Listed
<1>2. Cardinality(Listed(st)) \in Nat
  BY <1>1, FS_Subset, FS_CardinalityType, QuotaAssumption
<1>3. q \in [1..Cardinality(Listed(st)) -> Accounts]
  BY <1>1 DEF SetToSeqs
<1> QED BY <1>2, <1>3

(* The limits Reset computes are limits.                                   *)
LEMMA ResetLimitsType ==
  ASSUME NEW n \in Nat, NEW c \in Settings
  PROVE  ResetLimits(n, c) \in Limits
<1>1. c.per \in Nat \ {0} /\ c.queue \in Nat /\ c.total \in Nat
  BY SettingNumbers
<1>2. n * c.per \in Nat
  BY <1>1
<1> QED BY <1>1, <1>2 DEF ResetLimits, OrDefault, Limits

(* Taking an element out of a sequence leaves a sequence.                  *)
LEMMA RemoveAtType ==
  ASSUME NEW S, NEW q \in Seq(S), NEW i \in DOMAIN q
  PROVE  RemoveAt(q, i) \in Seq(S)
BY DEF RemoveAt

(* Moving an account to the tail of the rotation leaves a rotation.        *)
LEMMA BumpType ==
  ASSUME NEW q \in Seq(Accounts), NEW a \in Accounts
  PROVE  Bump(q, a) \in Seq(Accounts)
<1> DEFINE i == CHOOSE i \in DOMAIN q : q[i] = a
<1>1. CASE a \in ToSet(q)
  <2>1. i \in DOMAIN q
    BY <1>1 DEF ToSet
  <2>2. RemoveAt(q, i) \in Seq(Accounts)
    BY <2>1, RemoveAtType
  <2> QED BY <1>1, <2>2 DEF Bump
<1>2. CASE a \notin ToSet(q)
  BY <1>2 DEF Bump
<1> QED BY <1>1, <1>2

(* Waking a waiter moves requests between waiters and woken.               *)
LEMMA WakeFirstType ==
  ASSUME NEW ws \in Seq(Requests), NEW wk \in SUBSET Requests, WakeFirst(ws, wk)
  PROVE  waiters' \in Seq(Requests) /\ woken' \subseteq Requests
<1>1. CASE waiters' = ws /\ woken' = wk
  BY <1>1
<1>2. CASE \E i \in DOMAIN ws :
             waiters' = RemoveAt(ws, i) /\ woken' = wk \cup {ws[i]}
  BY <1>2, RemoveAtType
<1> QED BY <1>1, <1>2 DEF WakeFirst

(* Waking every waiter.                                                    *)
LEMMA WakeAllType ==
  ASSUME waiters \in Seq(Requests), woken \subseteq Requests, WakeAll
  PROVE  waiters' \in Seq(Requests) /\ woken' \subseteq Requests
BY DEF WakeAll, ToSet

-----------------------------------------------------------------------------
(***************************************************************************)
(* The counters.                                                           *)
(***************************************************************************)

(* A lease granted: by AcquireWait, Acquire or AcquireKeepAlive.           *)
Granted(c, a) ==
  /\ ~Blocked /\ ~TotalFull
  /\ held[c] = None /\ inUse[a] < limits.per
  /\ Occupy(c, a)
  /\ UNCHANGED <<proxyPauses, proxyIdle, drain, closed>>

(* Every step grants a lease, ends one, installs a snapshot, starts the    *)
(* process over or leaves the leases and their counters alone.             *)
LEMMA StepEffect ==
  ASSUME [Next]_vars
  PROVE  \/ \E c \in Callers, a \in Accounts : Granted(c, a)
         \/ \E c \in Callers : Release(c)
         \/ \E w \in Maintainers : ResetInstall(w)
         \/ Restart
         \/ UNCHANGED <<inUse, inUseTotal, held>>
<1>1. ASSUME NEW r \in Requests, RequestStep(r)
      PROVE  \/ \E c \in Callers, a \in Accounts : Granted(c, a)
             \/ UNCHANGED <<inUse, inUseTotal, held>>
  <2>1. CASE \E a \in Accounts : Take(r, a) /\ AcquireWait(r)
    BY <2>1 DEF AcquireWait, Take, Picks, CanAcquire, Free, Granted, Running,
                pauseVars, Callers
  <2>2. CASE UNCHANGED <<slotVars, held>>
    BY <2>2 DEF slotVars
  <2> QED BY <1>1, <2>1, <2>2 DEF RequestStep, AcquireWait, Cancel
<1>2. ASSUME NEW k \in Probes, ProbeStep(k)
      PROVE  \E c \in Callers, a \in Accounts : Granted(c, a)
  <2>1. CASE Acquire(k)
    BY <2>1 DEF Acquire, Take, Picks, CanAcquire, Free, Granted, pauseVars, Callers
  <2>2. ASSUME NEW a \in Accounts, AcquireKeepAlive(k, a)
        PROVE  Granted(k, a)
    BY <2>2 DEF AcquireKeepAlive, Granted, pauseVars
  <2> QED BY <1>2, <2>1, <2>2 DEF ProbeStep, Callers
<1>3. ASSUME NEW w \in Maintainers, MaintainerStep(w), ~ResetInstall(w)
      PROVE  UNCHANGED <<inUse, inUseTotal, held>>
  BY <1>3 DEF MaintainerStep, ResetStep, ApplyStep, ChangeStatus, ChangeSettings,
     ExpiryTimer, ResetRead, ApplyRuntimeLimits, SyncRateLimits, SyncDailyLimits, slotVars
<1>4. ASSUME NEW d \in Drainers, DrainerStep(d)
      PROVE  UNCHANGED <<inUse, inUseTotal, held>>
  BY <1>4 DEF DrainerStep, PauseForProxyUpdate, BeginUpdate, FinishUpdate, slotVars
<1>5. ASSUME NEW a \in Accounts, DeadlinePasses(a) \/ RateTimer(a)
      PROVE  UNCHANGED <<inUse, inUseTotal, held>>
  BY <1>5 DEF DeadlinePasses, RateTimer, slotVars
<1>6. ASSUME DailyFlush \/ Clock \/ Query \/ Close \/ UNCHANGED vars
      PROVE  UNCHANGED <<inUse, inUseTotal, held>>
  BY <1>6 DEF DailyFlush, Clock, Query, Close, slotVars, vars
<1> QED BY <1>1, <1>2, <1>3, <1>4, <1>5, <1>6 DEF Next

(* The counters stay exact: no path of the pool counts a slot in inUse and *)
(* not in inUseTotal, or the other way round.                              *)
LEMMA CountersStep ==
  ASSUME Counters, [Next]_vars, held \in [Callers -> Accounts \cup {None}]
  PROVE  Counters'
<1>1. ASSUME NEW c \in Callers, NEW a \in Accounts, Granted(c, a)
      PROVE  Counters'
  <2>1. inUse' = [inUse EXCEPT ![a] = @ + 1] /\ inUseTotal' = inUseTotal + 1
    BY <1>1 DEF Granted, Occupy
  <2>2. /\ IsFiniteSet(Units(inUse', Accounts))
        /\ Total(inUse', Accounts) = Total(inUse, Accounts) + 1
    BY <2>1, UnitsMore DEF Counters
  <2> QED BY <2>1, <2>2 DEF Counters, InUseMirror
<1>2. ASSUME NEW c \in Callers, Release(c)
      PROVE  Counters'
  <2> DEFINE a == held[c]
  <2>1. a \in Accounts
    BY <1>2 DEF Release
  <2>2. CASE inUse[a] = 0
    BY <1>2, <2>2 DEF Release, Counters, InUseMirror, Units, Total
  <2>3. CASE inUse[a] # 0
    <3>1. inUse' = [inUse EXCEPT ![a] = @ - 1] /\ inUseTotal' = inUseTotal - 1
      BY <1>2, <2>3 DEF GiveBack, Release
    <3>2. inUse[a] > 0
      BY <2>1, <2>3 DEF Counters
    <3>3. /\ IsFiniteSet(Units(inUse', Accounts))
          /\ Total(inUse', Accounts) = Total(inUse, Accounts) - 1
      BY <2>1, <3>1, <3>2, UnitsLess DEF Counters
    <3>4. inUse' \in [Accounts -> Nat]
      BY <2>1, <3>1, <3>2 DEF Counters
    <3> QED BY <3>1, <3>3, <3>4 DEF Counters, InUseMirror
  <2> QED BY <2>2, <2>3
<1>3. ASSUME NEW w \in Maintainers, ResetInstall(w)
      PROVE  Counters'
  <2>1. CASE closed
    BY <1>3, <2>1 DEF ResetInstall, slotVars, Counters, InUseMirror
  <2>2. CASE ~closed
    <3> DEFINE gone == Accounts \ Configured(seen[w].status)
    <3>1. /\ inUse' = [a \in Accounts |-> IF a \in gone THEN 0 ELSE inUse[a]]
          /\ inUseTotal' = inUseTotal - Total(inUse, gone)
      BY <1>3, <2>2 DEF ResetInstall, WriteOff
    <3>2. gone \in SUBSET Accounts
      OBVIOUS
    <3> HIDE DEF gone
    <3>3. /\ IsFiniteSet(Units(inUse', Accounts))
          /\ Total(inUse', Accounts) = Total(inUse, Accounts) - Total(inUse, gone)
      BY <3>1, <3>2, UnitsWrittenOff DEF Counters
    <3>4. inUse' \in [Accounts -> Nat]
      BY <3>1 DEF Counters
    <3> QED BY <3>1, <3>3, <3>4 DEF Counters, InUseMirror
  <2> QED BY <2>1, <2>2
<1>4. ASSUME Restart
      PROVE  Counters'
  <2>1. inUse' = NoCounts /\ inUseTotal' = 0
    BY <1>4 DEF Restart
  <2> QED BY <2>1, UnitsNone DEF Counters, InUseMirror, NoCounts
<1>5. ASSUME UNCHANGED <<inUse, inUseTotal, held>>
      PROVE  Counters'
  BY <1>5 DEF Counters, InUseMirror
<1> QED BY <1>1, <1>2, <1>3, <1>4, <1>5, StepEffect

(* The counters are natural numbers.                                       *)
LEMMA CountersType ==
  ASSUME Counters
  PROVE  inUse \in [Accounts -> Nat] /\ inUseTotal \in Nat
BY FS_CardinalityType DEF Counters, InUseMirror, Total

-----------------------------------------------------------------------------
(***************************************************************************)
(* Type correctness.                                                       *)
(***************************************************************************)

(* TypeOK without the counters, by the parts that actions touch.           *)
WaitTypeOK == waiters \in Seq(Requests) /\ woken \subseteq Requests
PauseTypeOK ==
  /\ proxyPauses = Cardinality({d \in Drainers : drain[d] # "off"})
  /\ proxyIdle \in BOOLEAN
  /\ drain \in [Drainers -> {"off", "waiting", "updating"}]
AdminTypeOK ==
  /\ status \in [Accounts -> Statuses]
  /\ expiry \subseteq Accounts
  /\ job \in [Maintainers -> Jobs]
  /\ seen \in [Maintainers -> Snapshot \cup {None}]
  /\ \A w \in Maintainers : job[w] = "install" => seen[w] \in Snapshot
LeaseTypeOK ==
  /\ queue \in Seq(Accounts)
  /\ limits \in Limits
  /\ held \in [Callers -> Accounts \cup {None}]
  /\ closed \in BOOLEAN

Shape ==
  Counters /\ QuotaTypeOK /\ WaitTypeOK /\ PauseTypeOK /\ AdminTypeOK /\ LeaseTypeOK

(* The pauses counted are the drains in progress, hence a natural number.  *)
LEMMA ShapeIsType ==
  ASSUME Shape
  PROVE  TypeOK
<1>1. proxyPauses \in Nat
  BY FS_Subset, FS_CardinalityType, PoolAssumption DEF Shape, PauseTypeOK
<1> QED BY <1>1, CountersType
        DEF Shape, TypeOK, WaitTypeOK, PauseTypeOK, AdminTypeOK, LeaseTypeOK

(* One more drain in progress, one less, or the same.                      *)
LEMMA DrainCount ==
  ASSUME PauseTypeOK, NEW d \in Drainers, NEW s \in {"off", "waiting", "updating"},
         drain' = [drain EXCEPT ![d] = s]
  PROVE  /\ drain' \in [Drainers -> {"off", "waiting", "updating"}]
         /\ Cardinality({e \in Drainers : drain'[e] # "off"}) =
              IF drain[d] = "off" THEN IF s = "off" THEN proxyPauses ELSE proxyPauses + 1
              ELSE IF s = "off" THEN proxyPauses - 1 ELSE proxyPauses
<1> DEFINE D == {e \in Drainers : drain[e] # "off"}
           E == {e \in Drainers : drain'[e] # "off"}
<1>1. IsFiniteSet(D) /\ proxyPauses = Cardinality(D)
  BY FS_Subset, PoolAssumption DEF PauseTypeOK
<1>2. E = IF s = "off" THEN D \ {d} ELSE D \cup {d}
  BY DEF PauseTypeOK
<1>3. d \in D <=> drain[d] # "off"
  OBVIOUS
<1>4. drain' \in [Drainers -> {"off", "waiting", "updating"}]
  BY DEF PauseTypeOK
<1> HIDE DEF D, E
<1>5. Cardinality(E) = IF drain[d] = "off" THEN IF s = "off" THEN proxyPauses ELSE proxyPauses + 1
                       ELSE IF s = "off" THEN proxyPauses - 1 ELSE proxyPauses
  BY <1>1, <1>2, <1>3, FS_AddElement, FS_RemoveElement
<1> QED BY <1>4, <1>5 DEF E

(* The initial states.                                                     *)
LEMMA InitShape == Init => Shape
<1> SUFFICES ASSUME Init PROVE Shape
  OBVIOUS
<1>1. Counters
  BY UnitsNone DEF Init, Counters, InUseMirror, NoCounts
<1>2. QuotaTypeOK
  <2>1. NoFile \in Ledger /\ 1 \in 1..MaxDay
    BY QuotaAssumption DEF NoFile, NoCounts, Ledger
  <2> QED BY <2>1, NoWindowType DEF Init, QuotaInit, QuotaTypeOK
<1>3. PauseTypeOK
  <2>1. {d \in Drainers : drain[d] # "off"} = {}
    BY DEF Init
  <2> QED BY <2>1, FS_EmptySet DEF Init, PauseTypeOK
<1>4. AdminTypeOK
  BY DEF Init, AdminTypeOK, Jobs
<1>5. LeaseTypeOK
  <2>1. conf \in Settings /\ status \in [Accounts -> Statuses]
    BY DEF Init, QuotaInit
  <2>2. queue \in Seq(Accounts) /\ limits \in Limits
    BY <2>1, RotationType, ResetLimitsType DEF Init
  <2> QED BY <2>2 DEF Init, LeaseTypeOK
<1> QED BY <1>1, <1>2, <1>3, <1>4, <1>5 DEF Shape, Init, WaitTypeOK

(* A lease granted with its quota recorded.                                *)
LEMMA TakeShape ==
  ASSUME Shape, NEW c \in Callers, NEW a \in Accounts, Take(c, a),
         UNCHANGED <<closed, envVars>>
  PROVE  QuotaTypeOK' /\ LeaseTypeOK'
<1>1. QuotaTypeOK'
  BY RecordType DEF Shape, Take, envVars
<1>2. queue' \in Seq(Accounts)
  BY BumpType DEF Shape, LeaseTypeOK, Take
<1> QED BY <1>1, <1>2 DEF Shape, LeaseTypeOK, Take, Occupy

(* The steps of callers.                                                   *)
LEMMA CallerShape ==
  ASSUME Shape,
         \/ \E r \in Requests : RequestStep(r)
         \/ \E k \in Probes : ProbeStep(k)
         \/ \E c \in Callers : Release(c)
  PROVE  QuotaTypeOK' /\ WaitTypeOK' /\ PauseTypeOK' /\ AdminTypeOK' /\ LeaseTypeOK'
<1> USE DEF Shape
<1>1. ASSUME NEW r \in Requests, AcquireWait(r)
      PROVE  QuotaTypeOK' /\ WaitTypeOK' /\ PauseTypeOK' /\ AdminTypeOK' /\ LeaseTypeOK'
  <2>1. PauseTypeOK' /\ AdminTypeOK' /\ UNCHANGED <<closed, envVars>>
    BY <1>1 DEF AcquireWait, pauseVars, adminVars, PauseTypeOK, AdminTypeOK
  <2>2. CASE (\E a \in Accounts : Take(r, a)) /\ WakeFirst(waiters, woken \ {r})
    <3>1. QuotaTypeOK' /\ LeaseTypeOK'
      BY <2>1, <2>2, TakeShape DEF Callers
    <3>2. WaitTypeOK'
      BY <2>2, WakeFirstType DEF WaitTypeOK
    <3> QED BY <2>1, <3>1, <3>2
  <2>3. CASE /\ woken' = woken \ {r}
             /\ waiters' = IF CanQueue(r) THEN Append(waiters, r) ELSE waiters
             /\ Glance
             /\ UNCHANGED <<slotVars, held>>
    <3>1. QuotaTypeOK'
      BY <2>1, <2>3, GlanceType DEF envVars
    <3>2. WaitTypeOK'
      BY <2>3 DEF WaitTypeOK
    <3>3. LeaseTypeOK'
      BY <2>1, <2>3 DEF LeaseTypeOK, slotVars
    <3> QED BY <2>1, <3>1, <3>2, <3>3
  <2> QED BY <1>1, <2>2, <2>3 DEF AcquireWait
<1>2. ASSUME NEW r \in Requests, Cancel(r)
      PROVE  QuotaTypeOK' /\ WaitTypeOK' /\ PauseTypeOK' /\ AdminTypeOK' /\ LeaseTypeOK'
  <2>1. QuotaTypeOK'
    BY <1>2, GlanceType DEF Cancel, envVars
  <2>2. PauseTypeOK' /\ AdminTypeOK' /\ LeaseTypeOK'
    BY <1>2 DEF Cancel, pauseVars, adminVars, slotVars, PauseTypeOK, AdminTypeOK, LeaseTypeOK
  <2>3. CASE WakeFirst(waiters, woken \ {r})
    BY <2>1, <2>2, <2>3, WakeFirstType DEF WaitTypeOK
  <2>4. ASSUME NEW i \in DOMAIN waiters, WakeFirst(RemoveAt(waiters, i), woken)
        PROVE  WaitTypeOK'
    <3>1. RemoveAt(waiters, i) \in Seq(Requests)
      BY RemoveAtType DEF WaitTypeOK
    <3> QED BY <2>4, <3>1, WakeFirstType DEF WaitTypeOK
  <2> QED BY <1>2, <2>1, <2>2, <2>3, <2>4 DEF Cancel
<1>3. ASSUME NEW k \in Probes, Acquire(k)
      PROVE  QuotaTypeOK' /\ WaitTypeOK' /\ PauseTypeOK' /\ AdminTypeOK' /\ LeaseTypeOK'
  <2>1. QuotaTypeOK' /\ LeaseTypeOK'
    BY <1>3, TakeShape DEF Acquire, Callers
  <2> QED BY <1>3, <2>1 DEF Acquire, waitVars, pauseVars, adminVars,
             WaitTypeOK, PauseTypeOK, AdminTypeOK
<1>4. ASSUME NEW k \in Probes, NEW a \in Accounts, AcquireKeepAlive(k, a)
      PROVE  QuotaTypeOK' /\ WaitTypeOK' /\ PauseTypeOK' /\ AdminTypeOK' /\ LeaseTypeOK'
  <2>1. LeaseTypeOK'
    BY <1>4 DEF AcquireKeepAlive, Occupy, LeaseTypeOK
  <2>2. QuotaTypeOK'
    BY <1>4 DEF AcquireKeepAlive, quotaVars, envVars, QuotaTypeOK
  <2> QED BY <1>4, <2>1, <2>2 DEF AcquireKeepAlive, waitVars, pauseVars, adminVars,
             WaitTypeOK, PauseTypeOK, AdminTypeOK
<1>5. ASSUME NEW c \in Callers, Release(c)
      PROVE  QuotaTypeOK' /\ WaitTypeOK' /\ PauseTypeOK' /\ AdminTypeOK' /\ LeaseTypeOK'
  <2>1. LeaseTypeOK' /\ AdminTypeOK' /\ UNCHANGED <<proxyPauses, drain, envVars>>
    BY <1>5 DEF Release, LeaseTypeOK, AdminTypeOK, adminVars
  <2>2. CASE UNCHANGED <<proxyIdle, waitVars, quotaVars>>
    BY <2>1, <2>2 DEF waitVars, quotaVars, envVars, QuotaTypeOK, WaitTypeOK, PauseTypeOK
  <2>3. CASE Glance /\ SignalIdle(proxyIdle) /\ WakeFirst(waiters, woken)
    <3>1. QuotaTypeOK'
      BY <2>1, <2>3, GlanceType DEF envVars
    <3>2. WaitTypeOK'
      BY <2>3, WakeFirstType DEF WaitTypeOK
    <3>3. PauseTypeOK'
      BY <2>1, <2>3 DEF SignalIdle, PauseTypeOK
    <3> QED BY <2>1, <3>1, <3>2, <3>3
  <2> QED BY <1>5, <2>2, <2>3 DEF Release
<1> QED BY <1>1, <1>2, <1>3, <1>4, <1>5 DEF RequestStep, ProbeStep

(* The steps of maintainers.                                               *)
LEMMA MaintainerShape ==
  ASSUME Shape, NEW w \in Maintainers, MaintainerStep(w)
  PROVE  QuotaTypeOK' /\ WaitTypeOK' /\ PauseTypeOK' /\ AdminTypeOK' /\ LeaseTypeOK'
<1> USE DEF Shape
<1>1. ASSUME NEW a \in Accounts, NEW s \in Statuses, ChangeStatus(w, a, s)
      PROVE  QuotaTypeOK' /\ WaitTypeOK' /\ PauseTypeOK' /\ AdminTypeOK' /\ LeaseTypeOK'
  <2>1. AdminTypeOK'
    BY <1>1 DEF ChangeStatus, AdminTypeOK, Jobs
  <2> QED BY <1>1, <2>1 DEF ChangeStatus, slotVars, waitVars, pauseVars, quotaVars, envVars,
             QuotaTypeOK, WaitTypeOK, PauseTypeOK, LeaseTypeOK
<1>2. ASSUME NEW c \in Settings, ChangeSettings(w, c)
      PROVE  QuotaTypeOK' /\ WaitTypeOK' /\ PauseTypeOK' /\ AdminTypeOK' /\ LeaseTypeOK'
  <2>1. AdminTypeOK'
    BY <1>2 DEF ChangeSettings, AdminTypeOK, Jobs
  <2> QED BY <1>2, <2>1 DEF ChangeSettings, slotVars, waitVars, pauseVars, quotaVars,
             QuotaTypeOK, WaitTypeOK, PauseTypeOK, LeaseTypeOK
<1>3. ASSUME ExpiryTimer(w)
      PROVE  QuotaTypeOK' /\ WaitTypeOK' /\ PauseTypeOK' /\ AdminTypeOK' /\ LeaseTypeOK'
  <2>1. AdminTypeOK'
    BY <1>3 DEF ExpiryTimer, AdminTypeOK, Jobs
  <2> QED BY <1>3, <2>1 DEF ExpiryTimer, slotVars, waitVars, pauseVars, quotaVars, envVars,
             QuotaTypeOK, WaitTypeOK, PauseTypeOK, LeaseTypeOK
<1>4. ASSUME ResetRead(w)
      PROVE  QuotaTypeOK' /\ WaitTypeOK' /\ PauseTypeOK' /\ AdminTypeOK' /\ LeaseTypeOK'
  <2>1. [status |-> status, conf |-> conf] \in Snapshot
    BY DEF AdminTypeOK, QuotaTypeOK, Snapshot
  <2>2. AdminTypeOK'
    BY <1>4, <2>1 DEF ResetRead, AdminTypeOK, Jobs
  <2> QED BY <1>4, <2>2 DEF ResetRead, slotVars, waitVars, pauseVars, quotaVars, envVars,
             QuotaTypeOK, WaitTypeOK, PauseTypeOK, LeaseTypeOK
<1>5. ASSUME ResetInstall(w)
      PROVE  QuotaTypeOK' /\ WaitTypeOK' /\ PauseTypeOK' /\ AdminTypeOK' /\ LeaseTypeOK'
  <2>1. UNCHANGED <<held, proxyPauses, drain, status, closed, envVars>>
    BY <1>5 DEF ResetInstall
  <2>2. job' \in [Maintainers -> Jobs] /\ seen' \in [Maintainers -> Snapshot \cup {None}]
        /\ \A v \in Maintainers : job'[v] = "install" => seen'[v] \in Snapshot
    BY <1>5 DEF ResetInstall, AdminTypeOK, Jobs
  <2>3. CASE closed
    <3>1. UNCHANGED <<slotVars, waitVars, proxyIdle, expiry, quotaVars>>
      BY <1>5, <2>3 DEF ResetInstall
    <3> QED BY <2>1, <2>2, <3>1 DEF slotVars, waitVars, quotaVars, envVars,
               QuotaTypeOK, WaitTypeOK, PauseTypeOK, AdminTypeOK, LeaseTypeOK
  <2>4. CASE ~closed
    <3> DEFINE st == seen[w].status
    <3>1. seen[w] \in Snapshot
      BY <1>5 DEF ResetInstall, AdminTypeOK
    <3>2. seen[w].conf \in Settings
      BY <3>1 DEF Snapshot
    <3>3. /\ queue' \in SetToSeqs(Listed(st))
          /\ limits' = ResetLimits(Cardinality(Listed(st)), seen[w].conf)
          /\ expiry' = {a \in Accounts : st[a] = "resting" /\ status[a] = "resting"}
          /\ PruneQuota(Configured(st)) /\ SignalIdle(proxyIdle) /\ WakeAll
      BY <1>5, <2>4 DEF ArmExpiry, ResetInstall
    <3>4. LeaseTypeOK'
      BY <2>1, <3>2, <3>3, RotationType, ResetLimitsType DEF LeaseTypeOK
    <3>5. QuotaTypeOK'
      BY <2>1, <3>3, PruneType DEF envVars
    <3>6. WaitTypeOK'
      BY <3>3, WakeAllType DEF WaitTypeOK
    <3>7. PauseTypeOK'
      BY <2>1, <3>3 DEF SignalIdle, PauseTypeOK
    <3>8. AdminTypeOK'
      BY <2>1, <2>2, <3>3 DEF AdminTypeOK
    <3> QED BY <3>4, <3>5, <3>6, <3>7, <3>8
  <2> QED BY <2>3, <2>4
<1>6. ASSUME ApplyRuntimeLimits(w)
      PROVE  QuotaTypeOK' /\ WaitTypeOK' /\ PauseTypeOK' /\ AdminTypeOK' /\ LeaseTypeOK'
  <2> DEFINE S == {a \in ToSet(queue) : status[a] = "ready"}
             n == Cardinality(S)
             default == IF n > 0 THEN n * conf.per ELSE conf.per
  <2>1. n \in Nat
    <3>1. S \subseteq Accounts
      BY DEF ToSet, LeaseTypeOK
    <3> QED BY <3>1, FS_Subset, FS_CardinalityType, QuotaAssumption
  <2>2. conf.per \in Nat \ {0} /\ conf.queue \in Nat /\ conf.total \in Nat
    BY SettingNumbers DEF QuotaTypeOK
  <2>3. limits' = [per |-> conf.per, queue |-> OrDefault(conf.queue, default),
                   total |-> OrDefault(conf.total, default)]
    BY <1>6 DEF ApplyRuntimeLimits
  <2> HIDE DEF n
  <2>4. default \in Nat
    BY <2>1, <2>2
  <2> HIDE DEF default
  <2>5. LeaseTypeOK'
    BY <1>6, <2>2, <2>3, <2>4 DEF ApplyRuntimeLimits, OrDefault, Limits, LeaseTypeOK
  <2>6. QuotaTypeOK'
    BY <1>6, GlanceType DEF ApplyRuntimeLimits, envVars
  <2>7. WaitTypeOK'
    BY <1>6, WakeFirstType DEF ApplyRuntimeLimits, WaitTypeOK
  <2>8. PauseTypeOK' /\ AdminTypeOK'
    BY <1>6 DEF ApplyRuntimeLimits, pauseVars, PauseTypeOK, AdminTypeOK, Jobs
  <2> QED BY <2>5, <2>6, <2>7, <2>8
<1>7. ASSUME SyncRateLimits(w)
      PROVE  QuotaTypeOK' /\ WaitTypeOK' /\ PauseTypeOK' /\ AdminTypeOK' /\ LeaseTypeOK'
  <2>1. QuotaTypeOK'
    BY <1>7, ResyncType DEF SyncRateLimits, envVars, QuotaTypeOK
  <2>2. WaitTypeOK'
    BY <1>7, WakeAllType DEF SyncRateLimits, WaitTypeOK, waitVars
  <2> QED BY <1>7, <2>1, <2>2 DEF SyncRateLimits, slotVars, pauseVars,
             PauseTypeOK, AdminTypeOK, LeaseTypeOK, Jobs
<1>8. ASSUME SyncDailyLimits(w)
      PROVE  QuotaTypeOK' /\ WaitTypeOK' /\ PauseTypeOK' /\ AdminTypeOK' /\ LeaseTypeOK'
  <2>1. QuotaTypeOK'
    BY <1>8, ResyncType DEF SyncDailyLimits, envVars, QuotaTypeOK
  <2>2. WaitTypeOK'
    BY <1>8, WakeAllType DEF SyncDailyLimits, WaitTypeOK, waitVars
  <2> QED BY <1>8, <2>1, <2>2 DEF SyncDailyLimits, slotVars, pauseVars,
             PauseTypeOK, AdminTypeOK, LeaseTypeOK, Jobs
<1> QED BY <1>1, <1>2, <1>3, <1>4, <1>5, <1>6, <1>7, <1>8
        DEF MaintainerStep, ResetStep, ApplyStep

(* The steps of drainers.                                                  *)
LEMMA DrainerShape ==
  ASSUME Shape, NEW d \in Drainers, DrainerStep(d)
  PROVE  QuotaTypeOK' /\ WaitTypeOK' /\ PauseTypeOK' /\ AdminTypeOK' /\ LeaseTypeOK'
<1> USE DEF Shape
<1>1. CASE PauseForProxyUpdate(d)
  <2>1. drain[d] = "off" /\ drain' = [drain EXCEPT ![d] = "waiting"]
        /\ proxyPauses' = proxyPauses + 1 /\ proxyIdle' \in BOOLEAN
    BY <1>1 DEF PauseForProxyUpdate, SignalIdle, PauseTypeOK, LeaseTypeOK
  <2>2. PauseTypeOK'
    BY <2>1, DrainCount DEF PauseTypeOK
  <2> QED BY <1>1, <2>2 DEF PauseForProxyUpdate, slotVars, waitVars, adminVars, quotaVars,
             envVars, QuotaTypeOK, WaitTypeOK, AdminTypeOK, LeaseTypeOK
<1>2. CASE BeginUpdate(d)
  <2>1. PauseTypeOK'
    BY <1>2, DrainCount DEF BeginUpdate, PauseTypeOK
  <2> QED BY <1>2, <2>1 DEF BeginUpdate, slotVars, waitVars, adminVars, quotaVars,
             envVars, QuotaTypeOK, WaitTypeOK, AdminTypeOK, LeaseTypeOK
<1>3. CASE FinishUpdate(d)
  <2>1. PauseTypeOK'
    BY <1>3, DrainCount DEF FinishUpdate, PauseTypeOK
  <2>2. AdminTypeOK' /\ LeaseTypeOK'
    BY <1>3 DEF FinishUpdate, slotVars, adminVars, AdminTypeOK, LeaseTypeOK
  <2>3. CASE Glance /\ WakeFirst(waiters, woken)
    <3>1. QuotaTypeOK'
      BY <1>3, <2>3, GlanceType DEF FinishUpdate, envVars
    <3>2. WaitTypeOK'
      BY <2>3, WakeFirstType DEF WaitTypeOK
    <3> QED BY <2>1, <2>2, <3>1, <3>2
  <2>4. CASE UNCHANGED <<waitVars, quotaVars>>
    BY <1>3, <2>1, <2>2, <2>4 DEF FinishUpdate, waitVars, quotaVars, envVars,
       QuotaTypeOK, WaitTypeOK
  <2> QED BY <1>3, <2>3, <2>4 DEF FinishUpdate
<1> QED BY <1>1, <1>2, <1>3 DEF DrainerStep

(* Deadlines, timers, the clock, and queries.                              *)
LEMMA TimeShape ==
  ASSUME Shape,
         \/ \E a \in Accounts : DeadlinePasses(a) \/ RateTimer(a)
         \/ DailyFlush \/ Clock \/ Query
  PROVE  QuotaTypeOK' /\ WaitTypeOK' /\ PauseTypeOK' /\ AdminTypeOK' /\ LeaseTypeOK'
<1> USE DEF Shape
<1>1. ASSUME NEW a \in Accounts, DeadlinePasses(a)
      PROVE  QuotaTypeOK' /\ WaitTypeOK' /\ PauseTypeOK' /\ AdminTypeOK' /\ LeaseTypeOK'
  <2>1. AdminTypeOK'
    BY <1>1, PoolAssumption DEF DeadlinePasses, AdminTypeOK
  <2> QED BY <1>1, <2>1 DEF DeadlinePasses, slotVars, waitVars, pauseVars, quotaVars,
             envVars, QuotaTypeOK, WaitTypeOK, PauseTypeOK, LeaseTypeOK
<1>2. ASSUME NEW a \in Accounts, RateTimer(a)
      PROVE  QuotaTypeOK' /\ WaitTypeOK' /\ PauseTypeOK' /\ AdminTypeOK' /\ LeaseTypeOK'
  <2>1. QuotaTypeOK'
    BY <1>2, NoWindowType DEF RateTimer, envVars, QuotaTypeOK
  <2>2. WaitTypeOK'
    BY <1>2, WakeAllType DEF RateTimer, WaitTypeOK
  <2> QED BY <1>2, <2>1, <2>2 DEF RateTimer, slotVars, pauseVars, adminVars,
             PauseTypeOK, AdminTypeOK, LeaseTypeOK
<1>3. ASSUME DailyFlush
      PROVE  QuotaTypeOK' /\ WaitTypeOK' /\ PauseTypeOK' /\ AdminTypeOK' /\ LeaseTypeOK'
  <2>1. QuotaTypeOK'
    BY <1>3, PersistType DEF DailyFlush, envVars, QuotaTypeOK
  <2> QED BY <1>3, <2>1 DEF DailyFlush, slotVars, waitVars, pauseVars, adminVars,
             WaitTypeOK, PauseTypeOK, AdminTypeOK, LeaseTypeOK
<1>4. ASSUME Clock
      PROVE  QuotaTypeOK' /\ WaitTypeOK' /\ PauseTypeOK' /\ AdminTypeOK' /\ LeaseTypeOK'
  <2>1. ASSUME NextDay PROVE QuotaTypeOK'
    BY <2>1, QuotaAssumption DEF NextDay, QuotaTypeOK
  <2>2. ASSUME PersistIntervalElapses PROVE QuotaTypeOK'
    BY <2>2 DEF PersistIntervalElapses, QuotaTypeOK
  <2>3. ASSUME NEW a \in Accounts, RateWindowElapses(a)
        PROVE  QuotaTypeOK'
    <3>1. rate[a] \in Window
      BY DEF QuotaTypeOK
    <3>2. [rate[a] EXCEPT !.win = "elapsed"] \in Window
      BY <3>1 DEF Window
    <3>3. rate' = [rate EXCEPT ![a] = [rate[a] EXCEPT !.win = "elapsed"]]
      BY <2>3 DEF RateWindowElapses
    <3>4. rate' \in [Accounts -> Window]
      BY <3>2, <3>3 DEF QuotaTypeOK
    <3> QED BY <2>3, <3>4 DEF RateWindowElapses, QuotaTypeOK
  <2> QED BY <1>4, <2>1, <2>2, <2>3 DEF Clock, slotVars, waitVars, pauseVars, adminVars,
             WaitTypeOK, PauseTypeOK, AdminTypeOK, LeaseTypeOK
<1>5. ASSUME Query
      PROVE  QuotaTypeOK' /\ WaitTypeOK' /\ PauseTypeOK' /\ AdminTypeOK' /\ LeaseTypeOK'
  <2>1. QuotaTypeOK'
    BY <1>5, GlanceType DEF Query, envVars
  <2> QED BY <1>5, <2>1 DEF Query, slotVars, waitVars, pauseVars, adminVars,
             WaitTypeOK, PauseTypeOK, AdminTypeOK, LeaseTypeOK
<1> QED BY <1>1, <1>2, <1>3, <1>4, <1>5

(* Closing and restarting.                                                 *)
LEMMA StopShape ==
  ASSUME Shape, Close \/ Restart
  PROVE  QuotaTypeOK' /\ WaitTypeOK' /\ PauseTypeOK' /\ AdminTypeOK' /\ LeaseTypeOK'
<1> USE DEF Shape
<1>1. CASE Close
  <2>1. QuotaTypeOK'
    BY <1>1, StopStartType DEF Close, envVars
  <2>2. WaitTypeOK'
    BY <1>1, WakeAllType DEF Close, WaitTypeOK
  <2>3. PauseTypeOK'
    BY <1>1 DEF Close, SignalIdle, PauseTypeOK
  <2> QED BY <1>1, <2>1, <2>2, <2>3 DEF Close, slotVars, AdminTypeOK, LeaseTypeOK
<1>2. CASE Restart
  <2>1. QuotaTypeOK'
    BY <1>2, StopStartType DEF Restart, envVars
  <2>2. queue' \in Seq(Accounts) /\ limits' \in Limits
    BY <1>2, RotationType, ResetLimitsType DEF Restart, QuotaTypeOK
  <2>3. PauseTypeOK'
    <3>1. {d \in Drainers : drain'[d] # "off"} = {}
      BY <1>2 DEF Restart
    <3> QED BY <1>2, <3>1, FS_EmptySet DEF Restart, PauseTypeOK
  <2>4. AdminTypeOK'
    BY <1>2 DEF Restart, AdminTypeOK, Jobs
  <2>5. WaitTypeOK'
    BY <1>2 DEF Restart, WaitTypeOK
  <2>6. LeaseTypeOK'
    BY <1>2, <2>2 DEF Restart, LeaseTypeOK
  <2> QED BY <2>1, <2>3, <2>4, <2>5, <2>6
<1> QED BY <1>1, <1>2

(* Every step keeps the shape.                                             *)
LEMMA ShapeStep == Shape /\ [Next]_vars => Shape'
<1> SUFFICES ASSUME Shape, [Next]_vars PROVE Shape'
  OBVIOUS
<1>1. Counters'
  BY CountersStep DEF Shape, LeaseTypeOK
<1>2. CASE UNCHANGED vars
  BY <1>1, <1>2 DEF vars, slotVars, waitVars, pauseVars, adminVars, quotaVars, envVars,
     Shape, QuotaTypeOK, WaitTypeOK, PauseTypeOK, AdminTypeOK, LeaseTypeOK
<1> QED BY <1>1, <1>2, CallerShape, MaintainerShape, DrainerShape, TimeShape, StopShape
        DEF Next, Shape

LEMMA ShapeInvariant == Spec => []Shape
BY InitShape, ShapeStep, PTL DEF Spec

(* The pool's state keeps its shape; in particular no counter ever goes    *)
(* negative, over-released leases and written-off accounts included.       *)
THEOREM TypeCorrect == Spec => []TypeOK
BY ShapeInvariant, ShapeIsType, PTL

(* "inUseTotal mirrors sum(inUse.values())", on every path of the pool.    *)
THEOREM MirrorCorrect == Spec => []InUseMirror
<1>1. Shape => InUseMirror
  BY DEF Shape, Counters
<1> QED BY <1>1, ShapeInvariant, PTL

-----------------------------------------------------------------------------
(***************************************************************************)
(* Slots and leases.                                                       *)
(***************************************************************************)

(* An account the admin does not delete is known to the store and to every *)
(* snapshot on its way into the pool, however stale.                       *)
StableConfigured ==
  \A a \in Stable :
    /\ status[a] # "absent"
    /\ \A w \in Maintainers : job[w] = "install" => seen[w].status[a] # "absent"

SlotInv == Shape /\ StableConfigured /\ SlotsExact /\ NoSlotLeak

LEMMA StableConfiguredStep ==
  ASSUME Shape, StableConfigured, [Next]_vars
  PROVE  StableConfigured'
<1> USE DEF StableConfigured
<1>1. ASSUME NEW w \in Maintainers, MaintainerStep(w)
      PROVE  StableConfigured'
  <2> USE <1>1 DEF Shape, AdminTypeOK
  <2>1. ASSUME NEW a \in Accounts, NEW s \in Statuses, ChangeStatus(w, a, s)
        PROVE  StableConfigured'
    BY <2>1 DEF ChangeStatus, Stable
  <2>2. ASSUME ResetRead(w)
        PROVE  StableConfigured'
    BY <2>2 DEF ResetRead
  <2>3. ASSUME ResetInstall(w)
        PROVE  StableConfigured'
    BY <2>3 DEF ResetInstall
  <2>4. ASSUME \/ \E c \in Settings : ChangeSettings(w, c)
               \/ ExpiryTimer(w)
               \/ ApplyStep(w)
        PROVE  StableConfigured'
    BY <2>4 DEF ChangeSettings, ExpiryTimer, ApplyStep, ApplyRuntimeLimits,
       SyncRateLimits, SyncDailyLimits
  <2> QED BY <2>1, <2>2, <2>3, <2>4 DEF MaintainerStep, ResetStep
<1>2. ASSUME NEW a \in Accounts, DeadlinePasses(a)
      PROVE  StableConfigured'
  BY <1>2 DEF DeadlinePasses, Shape, AdminTypeOK
<1>3. ASSUME Restart
      PROVE  StableConfigured'
  BY <1>3 DEF Restart
<1>4. ASSUME UNCHANGED <<status, job, seen>>
      PROVE  StableConfigured'
  BY <1>4
<1>5. ASSUME \/ \E r \in Requests : RequestStep(r)
             \/ \E k \in Probes : ProbeStep(k)
             \/ \E c \in Callers : Release(c)
             \/ \E d \in Drainers : DrainerStep(d)
             \/ \E a \in Accounts : RateTimer(a)
             \/ DailyFlush \/ Clock \/ Query \/ Close \/ UNCHANGED vars
      PROVE  UNCHANGED <<status, job, seen>>
  BY <1>5 DEF RequestStep, AcquireWait, Cancel, ProbeStep, Acquire, AcquireKeepAlive,
     Release, DrainerStep, PauseForProxyUpdate, BeginUpdate, FinishUpdate, RateTimer,
     DailyFlush, Clock, Query, Close, adminVars, vars
<1> QED BY <1>1, <1>2, <1>3, <1>4, <1>5 DEF Next

(* A caller that gets a lease, or gives one back, is counted on exactly    *)
(* that account.                                                           *)
LEMMA HoldersChange ==
  ASSUME held \in [Callers -> Accounts \cup {None}], NEW c \in Callers,
         NEW a \in Accounts
  PROVE  /\ \A b \in Accounts : IsFiniteSet(Holders(b)) /\ Cardinality(Holders(b)) \in Nat
         /\ held[c] = None /\ held' = [held EXCEPT ![c] = a] =>
              \A b \in Accounts : Cardinality(Holders(b)') =
                 IF b = a THEN Cardinality(Holders(b)) + 1 ELSE Cardinality(Holders(b))
         /\ held[c] = a /\ held' = [held EXCEPT ![c] = None] =>
              \A b \in Accounts : Cardinality(Holders(b)') =
                 IF b = a THEN Cardinality(Holders(b)) - 1 ELSE Cardinality(Holders(b))
<1>1. \A b \in Accounts : IsFiniteSet(Holders(b)) /\ Cardinality(Holders(b)) \in Nat
  BY FS_Subset, FS_CardinalityType, PoolAssumption DEF Holders
<1>2. ASSUME held[c] = None, held' = [held EXCEPT ![c] = a], NEW b \in Accounts
      PROVE  Cardinality(Holders(b)') =
               IF b = a THEN Cardinality(Holders(b)) + 1 ELSE Cardinality(Holders(b))
  <2>1. Holders(b)' = IF b = a THEN Holders(b) \cup {c} ELSE Holders(b)
    BY <1>2, PoolAssumption DEF Holders
  <2>2. c \notin Holders(b)
    BY <1>2, PoolAssumption DEF Holders
  <2> QED BY <1>1, <2>1, <2>2, FS_AddElement
<1>3. ASSUME held[c] = a, held' = [held EXCEPT ![c] = None], NEW b \in Accounts
      PROVE  Cardinality(Holders(b)') =
               IF b = a THEN Cardinality(Holders(b)) - 1 ELSE Cardinality(Holders(b))
  <2>1. Holders(b)' = IF b = a THEN Holders(b) \ {c} ELSE Holders(b)
    BY <1>3, PoolAssumption DEF Holders
  <2>2. c \in Holders(a)
    BY <1>3 DEF Holders
  <2> QED BY <1>1, <2>1, <2>2, FS_RemoveElement
<1> QED BY <1>1, <1>2, <1>3

LEMMA SlotInvStep == SlotInv /\ [Next]_vars => SlotInv'
<1> SUFFICES ASSUME SlotInv, [Next]_vars PROVE SlotInv'
  OBVIOUS
<1>1. Shape' /\ StableConfigured'
  BY ShapeStep, StableConfiguredStep DEF SlotInv
<1>2. /\ held \in [Callers -> Accounts \cup {None}]
      /\ inUse \in [Accounts -> Nat]
      /\ Stable \subseteq Accounts
  BY DEF SlotInv, Shape, LeaseTypeOK, Counters, Stable
<1>3. ASSUME NEW c \in Callers, NEW a \in Accounts, Granted(c, a)
      PROVE  SlotsExact' /\ NoSlotLeak'
  <2>1. held[c] = None /\ held' = [held EXCEPT ![c] = a]
        /\ inUse' = [inUse EXCEPT ![a] = @ + 1]
    BY <1>3 DEF Granted, Occupy
  <2>2. \A b \in Accounts :
           /\ Cardinality(Holders(b)) \in Nat
           /\ Cardinality(Holders(b)') =
                IF b = a THEN Cardinality(Holders(b)) + 1 ELSE Cardinality(Holders(b))
           /\ inUse'[b] = IF b = a THEN inUse[b] + 1 ELSE inUse[b]
    BY <1>2, <2>1, HoldersChange
  <2> QED BY <1>2, <2>2 DEF SlotInv, SlotsExact, NoSlotLeak
<1>4. ASSUME NEW c \in Callers, Release(c)
      PROVE  SlotsExact' /\ NoSlotLeak'
  <2> DEFINE a == held[c]
  <2>1. a \in Accounts /\ held' = [held EXCEPT ![c] = None]
    BY <1>2, <1>4 DEF Release
  <2>2. \A b \in Accounts :
           /\ IsFiniteSet(Holders(b)) /\ Cardinality(Holders(b)) \in Nat
           /\ Cardinality(Holders(b)') =
                IF b = a THEN Cardinality(Holders(b)) - 1 ELSE Cardinality(Holders(b))
    BY <1>2, <2>1, HoldersChange
  <2>3. Cardinality(Holders(a)) > 0
    <3>1. Holders(a) # {}
      BY DEF Holders
    <3> QED BY <2>1, <2>2, <3>1, FS_EmptySet
  <2>4. CASE inUse[a] = 0
    <3>1. inUse' = inUse /\ a \notin Stable
      BY <1>4, <2>1, <2>3, <2>4 DEF Release, SlotInv, SlotsExact
    <3> QED BY <1>2, <2>1, <2>2, <2>3, <2>4, <3>1 DEF SlotInv, SlotsExact, NoSlotLeak
  <2>5. CASE inUse[a] # 0
    <3>1. \A b \in Accounts : inUse'[b] = IF b = a THEN inUse[b] - 1 ELSE inUse[b]
      BY <1>2, <1>4, <2>5 DEF GiveBack, Release
    <3> QED BY <1>2, <2>1, <2>2, <2>3, <2>5, <3>1 DEF SlotInv, SlotsExact, NoSlotLeak
  <2> QED BY <2>4, <2>5
<1>5. ASSUME NEW w \in Maintainers, ResetInstall(w)
      PROVE  SlotsExact' /\ NoSlotLeak'
  <2>1. held' = held /\ \A a \in Accounts : Holders(a)' = Holders(a)
    BY <1>5 DEF ResetInstall, Holders
  <2>2. CASE closed
    BY <1>5, <2>1, <2>2, <1>2 DEF ResetInstall, slotVars, SlotInv, SlotsExact, NoSlotLeak
  <2>3. CASE ~closed
    <3> DEFINE gone == Accounts \ Configured(seen[w].status)
    <3>1. inUse' = [a \in Accounts |-> IF a \in gone THEN 0 ELSE inUse[a]]
      BY <1>5, <2>3 DEF WriteOff, ResetInstall
    <3>2. \A a \in Stable : a \notin gone
      BY <1>5, <1>2 DEF ResetInstall, SlotInv, StableConfigured, Configured
    <3>3. \A a \in Accounts : Cardinality(Holders(a)) \in Nat
      BY <1>2, FS_Subset, FS_CardinalityType, PoolAssumption DEF Holders
    <3> HIDE DEF gone
    <3> QED BY <1>2, <2>1, <3>1, <3>2, <3>3 DEF SlotInv, SlotsExact, NoSlotLeak
  <2> QED BY <2>2, <2>3
<1>6. ASSUME Restart
      PROVE  SlotsExact' /\ NoSlotLeak'
  <2>1. \A a \in Accounts : Holders(a)' = {}
    BY <1>6, PoolAssumption DEF Restart, Holders
  <2>2. \A a \in Accounts : inUse'[a] = 0
    BY <1>6 DEF Restart, NoCounts
  <2> QED BY <1>2, <2>1, <2>2, FS_EmptySet DEF SlotsExact, NoSlotLeak
<1>7. ASSUME UNCHANGED <<inUse, inUseTotal, held>>
      PROVE  SlotsExact' /\ NoSlotLeak'
  BY <1>7 DEF SlotInv, SlotsExact, NoSlotLeak, Holders
<1> QED BY <1>1, <1>3, <1>4, <1>5, <1>6, <1>7, StepEffect DEF SlotInv

LEMMA InitSlotInv == Init => SlotInv
<1> SUFFICES ASSUME Init PROVE SlotInv
  OBVIOUS
<1>1. \A a \in Accounts : Holders(a) = {} /\ inUse[a] = 0
  BY PoolAssumption DEF Init, Holders, NoCounts
<1>2. StableConfigured
  BY DEF Init, StableConfigured, Stable
<1> QED BY <1>1, <1>2, InitShape, FS_EmptySet DEF SlotInv, SlotsExact, NoSlotLeak, Stable

LEMMA SlotInvariant == Spec => []SlotInv
BY InitSlotInv, SlotInvStep, PTL DEF Spec

(* Disabling, muting, pausing, rebuilding and switching limits never lose  *)
(* or invent a slot of an account that stays in the configuration.         *)
THEOREM SlotsExactCorrect == Spec => []SlotsExact
<1>1. SlotInv => SlotsExact
  BY DEF SlotInv
<1> QED BY <1>1, SlotInvariant, PTL

(* No slot outlives its lease, on any account.                             *)
THEOREM NoSlotLeakCorrect == Spec => []NoSlotLeak
<1>1. SlotInv => NoSlotLeak
  BY DEF SlotInv
<1> QED BY <1>1, SlotInvariant, PTL

-----------------------------------------------------------------------------
(***************************************************************************)
(* The pause for a proxy update.                                           *)
(***************************************************************************)

(* While a pause is outstanding, an idle signal means that no slot is in   *)
(* use, and stays: a drain goes on only behind such a signal.              *)
IdleIsEmpty == proxyPauses > 0 /\ proxyIdle /\ ~closed => inUseTotal = 0
UpdatesSignalled == \A d \in Drainers : drain[d] = "updating" => proxyIdle

PauseInv == SlotInv /\ IdleIsEmpty /\ UpdatesSignalled

(* A pause is outstanding exactly while some drain is in progress.         *)
LEMMA PausesNatural ==
  ASSUME Shape
  PROVE  /\ proxyPauses \in Nat
         /\ proxyPauses = 0 <=> \A d \in Drainers : drain[d] = "off"
<1> DEFINE D == {d \in Drainers : drain[d] # "off"}
<1>1. IsFiniteSet(D) /\ Cardinality(D) \in Nat
  BY FS_Subset, FS_CardinalityType, PoolAssumption
<1>2. proxyPauses = Cardinality(D)
  BY DEF Shape, PauseTypeOK
<1>3. D = {} <=> \A d \in Drainers : drain[d] = "off"
  OBVIOUS
<1> HIDE DEF D
<1> QED BY <1>1, <1>2, <1>3, FS_EmptySet

(* Whether slots are in use, as signalProxyIdleLocked reads it.            *)
LEMMA EmptyMeansNone ==
  ASSUME Counters, inUseTotal = 0, NEW a \in Accounts
  PROVE  inUse[a] = 0
<1>1. Units(inUse, Accounts) = {}
  BY FS_EmptySet DEF Counters, InUseMirror, Total
<1>2. ASSUME inUse[a] # 0
      PROVE  FALSE
  <2>1. 1 \in 1..inUse[a]
    BY <1>2 DEF Counters
  <2>2. <<a, 1>> \in Units(inUse, Accounts)
    BY <2>1 DEF Units
  <2> QED BY <1>1, <2>2
<1> QED BY <1>2

LEMMA PauseInvStep == PauseInv /\ [Next]_vars => PauseInv'
<1> SUFFICES ASSUME PauseInv, [Next]_vars PROVE PauseInv'
  OBVIOUS
<1>1. SlotInv'
  BY SlotInvStep DEF PauseInv
<1>2. /\ inUseTotal \in Nat /\ inUseTotal' \in Nat
      /\ proxyPauses \in Nat /\ proxyPauses' \in Nat
      /\ proxyIdle \in BOOLEAN
      /\ drain \in [Drainers -> {"off", "waiting", "updating"}]
  <2>1. TypeOK
    BY ShapeIsType DEF PauseInv, SlotInv
  <2>2. Shape'
    BY <1>1 DEF SlotInv
  <2>3. TypeOK'
    BY <2>2, ShapeIsType, PTL
  <2> QED BY <2>1, <2>3 DEF TypeOK
<1> USE DEF PauseInv, IdleIsEmpty, UpdatesSignalled
<1>3. ASSUME NEW c \in Callers, NEW a \in Accounts, Granted(c, a)
      PROVE  IdleIsEmpty' /\ UpdatesSignalled'
  BY <1>2, <1>3 DEF Granted, Blocked
<1>4. ASSUME NEW c \in Callers, Release(c)
      PROVE  IdleIsEmpty' /\ UpdatesSignalled'
  BY <1>2, <1>4 DEF GiveBack, Release, SignalIdle
<1>5. ASSUME NEW w \in Maintainers, ResetInstall(w)
      PROVE  IdleIsEmpty' /\ UpdatesSignalled'
  <2>1. CASE closed
    BY <1>5, <2>1 DEF ResetInstall, slotVars
  <2>2. CASE ~closed
    <3> DEFINE gone == Accounts \ Configured(seen[w].status)
    <3>1. /\ inUseTotal' = inUseTotal - Total(inUse, gone)
          /\ SignalIdle(proxyIdle) /\ UNCHANGED <<proxyPauses, drain, closed>>
      BY <1>5, <2>2 DEF WriteOff, ResetInstall
    <3>2. Units(inUse, gone) \subseteq Units(inUse, Accounts)
      BY DEF Units
    <3>3. Total(inUse, gone) \in Nat
      BY <3>2, FS_Subset, FS_CardinalityType DEF Total, SlotInv, Shape, Counters
    <3> HIDE DEF gone
    <3> QED BY <1>2, <3>1, <3>3 DEF SignalIdle
  <2> QED BY <2>1, <2>2
<1>6. ASSUME Restart
      PROVE  IdleIsEmpty' /\ UpdatesSignalled'
  BY <1>6 DEF Restart
<1>7. ASSUME NEW d \in Drainers, DrainerStep(d)
      PROVE  IdleIsEmpty' /\ UpdatesSignalled'
  <2>1. CASE PauseForProxyUpdate(d)
    <3>1. proxyPauses = 0 => \A e \in Drainers : drain[e] = "off"
      BY PausesNatural DEF SlotInv
    <3>2. /\ drain' = [drain EXCEPT ![d] = "waiting"]
          /\ inUseTotal' = inUseTotal /\ closed' = closed
          /\ proxyPauses' = proxyPauses + 1
          /\ proxyIdle' = \/ proxyPauses > 0 /\ proxyIdle
                          \/ proxyPauses' > 0 /\ (closed' \/ inUseTotal' <= 0)
      BY <2>1 DEF PauseForProxyUpdate, SignalIdle, slotVars
    <3>3. CASE proxyPauses = 0
      BY <1>2, <3>1, <3>2, <3>3
    <3>4. CASE proxyPauses > 0
      <4>1. UpdatesSignalled'
        BY <1>2, <3>2, <3>4
      <4>2. ASSUME proxyIdle', ~closed'
            PROVE  inUseTotal' = 0
        <5>1. CASE proxyIdle
          BY <3>2, <3>4, <4>2, <5>1
        <5>2. CASE inUseTotal' <= 0
          BY <1>2, <5>2
        <5> QED BY <3>2, <4>2, <5>1, <5>2
      <4> QED BY <4>1, <4>2
    <3> QED BY <1>2, <3>3, <3>4
  <2>2. CASE BeginUpdate(d)
    BY <1>2, <2>2 DEF BeginUpdate, slotVars
  <2>3. CASE FinishUpdate(d)
    BY <1>2, <2>3 DEF FinishUpdate, slotVars
  <2> QED BY <1>7, <2>1, <2>2, <2>3 DEF DrainerStep
<1>8. ASSUME Close
      PROVE  IdleIsEmpty' /\ UpdatesSignalled'
  BY <1>8 DEF Close, SignalIdle
<1>9. ASSUME UNCHANGED <<inUseTotal, proxyPauses, proxyIdle, drain, closed>>
      PROVE  IdleIsEmpty' /\ UpdatesSignalled'
  BY <1>9
<1>10. ASSUME \/ \E r \in Requests : RequestStep(r)
              \/ \E k \in Probes : ProbeStep(k)
              \/ \E w \in Maintainers : MaintainerStep(w) /\ ~ResetInstall(w)
              \/ \E a \in Accounts : DeadlinePasses(a) \/ RateTimer(a)
              \/ DailyFlush \/ Clock \/ Query \/ UNCHANGED vars
       PROVE  UNCHANGED <<proxyPauses, proxyIdle, drain, closed>>
  BY <1>10 DEF RequestStep, AcquireWait, Cancel, ProbeStep, Acquire, AcquireKeepAlive,
     MaintainerStep, ResetStep, ApplyStep, ChangeStatus, ChangeSettings, ExpiryTimer,
     ResetRead, ApplyRuntimeLimits, SyncRateLimits, SyncDailyLimits, DeadlinePasses,
     RateTimer, DailyFlush, Clock, Query, pauseVars, vars
<1> QED BY <1>1, <1>3, <1>4, <1>5, <1>6, <1>7, <1>8, <1>9, <1>10, StepEffect DEF Next

LEMMA PauseInvariant == Spec => []PauseInv
<1>1. Init => PauseInv
  BY InitSlotInv DEF Init, PauseInv, IdleIsEmpty, UpdatesSignalled
<1> QED BY <1>1, PauseInvStep, PTL DEF Spec

(* The proxy kernel is restarted between leases, never under one, however  *)
(* many reconciliations overlap.                                           *)
THEOREM UpdateExclusiveCorrect == Spec => []UpdateExclusive
<1>1. PauseInv => UpdateExclusive
  <2> SUFFICES ASSUME PauseInv, NEW d \in Drainers, drain[d] = "updating", ~closed,
                      NEW c \in Callers, held[c] \notin Volatile \cup {None}
               PROVE  FALSE
    BY DEF UpdateExclusive
  <2>1. proxyPauses > 0 /\ proxyIdle
    BY PausesNatural DEF PauseInv, UpdatesSignalled, SlotInv
  <2>2. inUseTotal = 0
    BY <2>1 DEF PauseInv, IdleIsEmpty
  <2>3. held[c] \in Stable
    BY DEF PauseInv, SlotInv, Shape, LeaseTypeOK, Stable
  <2>4. inUse[held[c]] = 0
    BY <2>2, <2>3, EmptyMeansNone DEF PauseInv, SlotInv, Shape, Stable
  <2>5. Cardinality(Holders(held[c])) = 0
    BY <2>3, <2>4 DEF PauseInv, SlotInv, SlotsExact
  <2>6. IsFiniteSet(Holders(held[c]))
    BY FS_Subset, PoolAssumption DEF Holders
  <2>7. Holders(held[c]) = {}
    BY <2>5, <2>6, FS_EmptySet
  <2> QED BY <2>7 DEF Holders
<1> QED BY <1>1, PauseInvariant, PTL

-----------------------------------------------------------------------------
(***************************************************************************)
(* The pool implements the ledger of leases.                               *)
(***************************************************************************)

(* The global counter is the number of callers that hold a lease.          *)
HolderTotal == inUseTotal = Cardinality({c \in Callers : held[c] # None})

LedgerInv == SlotInv /\ HolderTotal

LEMMA LedgerInvStep ==
  ASSUME Volatile = {}
  PROVE  LedgerInv /\ [Next]_vars => LedgerInv'
<1> SUFFICES ASSUME LedgerInv, [Next]_vars PROVE LedgerInv'
  OBVIOUS
<1> DEFINE H == {c \in Callers : held[c] # None}
<1>1. SlotInv'
  BY SlotInvStep DEF LedgerInv
<1>2. /\ held \in [Callers -> Accounts \cup {None}]
      /\ inUseTotal = Cardinality(H) /\ IsFiniteSet(H)
  BY FS_Subset, PoolAssumption DEF LedgerInv, HolderTotal, SlotInv, Shape, LeaseTypeOK
<1>3. ASSUME NEW c \in Callers, NEW a \in Accounts, Granted(c, a)
      PROVE  HolderTotal'
  <2>1. H' = H \cup {c} /\ c \notin H
    BY <1>2, <1>3, PoolAssumption DEF Granted, Occupy
  <2>2. inUseTotal' = inUseTotal + 1
    BY <1>3 DEF Granted, Occupy
  <2>3. Cardinality(H \cup {c}) = Cardinality(H) + 1
    BY <1>2, <2>1, FS_AddElement
  <2> QED BY <1>2, <2>1, <2>2, <2>3 DEF HolderTotal
<1>4. ASSUME NEW c \in Callers, Release(c)
      PROVE  HolderTotal'
  <2> DEFINE a == held[c]
  <2>1. a \in Stable /\ c \in Holders(a)
    BY <1>2, <1>4 DEF Release, Stable, Holders
  <2>2. inUse[a] # 0
    <3>1. IsFiniteSet(Holders(a))
      BY FS_Subset, PoolAssumption DEF Holders
    <3>2. Cardinality(Holders(a)) # 0
      BY <2>1, <3>1, FS_EmptySet
    <3> QED BY <2>1, <3>2 DEF LedgerInv, SlotInv, SlotsExact
  <2>3. inUseTotal' = inUseTotal - 1
    BY <1>4, <2>2 DEF GiveBack, Release
  <2>4. H' = H \ {c} /\ c \in H
    BY <1>2, <1>4 DEF Release
  <2>5. Cardinality(H \ {c}) = Cardinality(H) - 1
    BY <1>2, <2>4, FS_RemoveElement
  <2> QED BY <1>2, <2>3, <2>4, <2>5 DEF HolderTotal
<1>5. ASSUME NEW w \in Maintainers, ResetInstall(w)
      PROVE  HolderTotal'
  <2>1. held' = held
    BY <1>5 DEF ResetInstall
  <2>2. CASE closed
    BY <1>5, <2>1, <2>2, <1>2 DEF ResetInstall, slotVars, HolderTotal
  <2>3. CASE ~closed
    <3> DEFINE gone == Accounts \ Configured(seen[w].status)
    <3>1. inUseTotal' = inUseTotal - Total(inUse, gone)
      BY <1>5, <2>3 DEF WriteOff, ResetInstall
    <3>2. gone = {}
      BY <1>5 DEF ResetInstall, LedgerInv, SlotInv, StableConfigured, Stable, Configured
    <3>3. Units(inUse, gone) = {}
      BY <3>2 DEF Units
    <3>4. Total(inUse, gone) = 0
      BY <3>3, FS_EmptySet DEF Total
    <3>5. inUseTotal \in Nat
      BY CountersType DEF LedgerInv, SlotInv, Shape
    <3> QED BY <1>2, <2>1, <3>1, <3>4, <3>5 DEF HolderTotal
  <2> QED BY <2>2, <2>3
<1>6. ASSUME Restart
      PROVE  HolderTotal'
  <2>1. H' = {}
    BY <1>6 DEF Restart
  <2> QED BY <1>6, <2>1, FS_EmptySet DEF Restart, HolderTotal
<1>7. ASSUME UNCHANGED <<inUse, inUseTotal, held>>
      PROVE  HolderTotal'
  BY <1>7 DEF LedgerInv, HolderTotal
<1> QED BY <1>1, <1>3, <1>4, <1>5, <1>6, <1>7, StepEffect DEF LedgerInv

(* The ledger counts with the same Cardinality.                            *)
LEMMA SameCardinality == \A S : LedgerView!Cardinality(S) = Cardinality(S)
BY DEF LedgerView!Cardinality, Cardinality

(* Every step of the pool is a step of the ledger or leaves it alone.      *)
LEMMA LedgerStep ==
  ASSUME LedgerInv, LedgerInv', [Next]_vars, Volatile = {}
  PROVE  [LedgerView!Next]_(LedgerView!vars)
<1>1. /\ limits'.per \in Nat \ {0} /\ limits'.total \in Nat /\ Blocked' \in BOOLEAN
  BY DEF LedgerInv, SlotInv, Shape, LeaseTypeOK, Limits, Blocked
<1>2. ASSUME NEW c \in Callers, NEW a \in Accounts, Granted(c, a)
      PROVE  LedgerView!Grant(c, a)
  <2>1. a \in Stable
    BY <1>2 DEF Stable
  <2>2. Cardinality(Holders(a)) < limits.per
    BY <1>2, <2>1 DEF Granted, LedgerInv, SlotInv, SlotsExact
  <2>3. limits.total > 0 => Cardinality({b \in Callers : held[b] # None}) < limits.total
    BY <1>2, CountersType
    DEF Granted, TotalFull, LedgerInv, HolderTotal, SlotInv, Shape, LeaseTypeOK, Limits
  <2>4. limits' = limits /\ Blocked' = Blocked
    BY <1>2 DEF Granted, Occupy, Blocked
  <2>5. LedgerView!HeldBy(a) = Holders(a)
        /\ LedgerView!Holding = {b \in Callers : held[b] # None}
    BY DEF Holders, LedgerView!HeldBy, LedgerView!Holding
  <2>6. held[c] = None /\ ~Blocked /\ held' = [held EXCEPT ![c] = a]
    BY <1>2 DEF Granted, Occupy
  <2> QED BY <2>2, <2>3, <2>4, <2>5, <2>6, SameCardinality DEF LedgerView!Grant
<1>3. ASSUME NEW c \in Callers, Release(c)
      PROVE  LedgerView!End(c)
  <2>1. UNCHANGED <<limits.per, limits.total, Blocked>>
    BY <1>3 DEF Release, Blocked
  <2>2. held[c] # None /\ held' = [held EXCEPT ![c] = None]
    BY <1>3 DEF Release
  <2> QED BY <2>1, <2>2 DEF LedgerView!End
<1>4. ASSUME UNCHANGED held
      PROVE  LedgerView!Adjust
  BY <1>1, <1>4 DEF LedgerView!Adjust
<1>5. ASSUME Restart
      PROVE  LedgerView!StartOver
  BY <1>1, <1>5 DEF Restart, LedgerView!StartOver
<1>6. ASSUME NEW w \in Maintainers, ResetInstall(w)
      PROVE  UNCHANGED held
  BY <1>6 DEF ResetInstall
<1> QED BY <1>2, <1>3, <1>4, <1>5, <1>6, StepEffect DEF LedgerView!Next

(* With a fixed set of accounts the pool implements the ledger: no         *)
(* interleaving of callers, rebuilds, limit changes, pauses and restarts   *)
(* grants a lease beyond the limits, counted over actual leases.           *)
THEOREM LedgerRefinement ==
  ASSUME Volatile = {}
  PROVE  Spec => ImplementsLedger
<1>1. Init => LedgerInv
  <2> SUFFICES ASSUME Init PROVE LedgerInv
    OBVIOUS
  <2>1. {c \in Callers : held[c] # None} = {}
    BY DEF Init
  <2> QED BY <2>1, InitSlotInv, FS_EmptySet DEF Init, LedgerInv, HolderTotal
<1>2. LedgerInv /\ [Next]_vars => LedgerInv'
  BY LedgerInvStep
<1>3. Init => LedgerView!Init
  <2>1. Init => Shape
    BY InitShape
  <2> QED BY <2>1 DEF Init, LedgerView!Init, Shape, LeaseTypeOK, Limits, Blocked
<1>4. LedgerInv /\ LedgerInv' /\ [Next]_vars => [LedgerView!Next]_(LedgerView!vars)
  BY LedgerStep
<1> QED BY <1>1, <1>2, <1>3, <1>4, PTL DEF Spec, ImplementsLedger, LedgerView!Spec

-----------------------------------------------------------------------------
(***************************************************************************)
(* The rotation and the expiry timer.                                      *)
(***************************************************************************)

(* Changes of the store reach the pool one after the other.                *)
OneMaintainer == \A v, w \in Maintainers : v = w

Resting(st) == {a \in Accounts : st[a] = "resting"}
ResetUnderWay == \E w \in Maintainers : job[w] \in {"reset", "install"}

(* Unless a Reset is under way the pool is in step with the store, and     *)
(* what a Reset has read differs from the store in deadlines that passed.  *)
InStep ==
  ~closed /\ ~ResetUnderWay =>
    ToSet(queue) = Listed(status) /\ Resting(status) \subseteq expiry
SeenInStep ==
  \A w \in Maintainers : job[w] = "install" =>
    /\ Listed(seen[w].status) = Listed(status)
    /\ Resting(status) \subseteq Resting(seen[w].status)

CurrentInv == InStep /\ SeenInStep

(* A rebuilt rotation holds the accounts it was built from.                *)
LEMMA RotationHolds ==
  ASSUME NEW st, NEW q \in SetToSeqs(Listed(st))
  PROVE  ToSet(q) = Listed(st)
<1> DEFINE n == Cardinality(Listed(st))
<1>1. Listed(st) \subseteq Accounts
  BY DEF Listed
<1>2. IsFiniteSet(Listed(st)) /\ n \in Nat
  BY <1>1, FS_Subset, FS_CardinalityType, QuotaAssumption
<1>3. q \in [1..n -> Listed(st)] /\ \A i, j \in 1..n : i # j => q[i] # q[j]
  BY DEF SetToSeqs
<1>4. IsFiniteSet(1..n) /\ Cardinality(1..n) = n
  BY <1>2, FS_Interval
<1> HIDE DEF n
<1>5. q \in Injection(1..n, Listed(st))
  BY <1>3 DEF Injection, IsInjective
<1>6. q \in Surjection(1..n, Listed(st))
  BY <1>2, <1>4, <1>5, FS_Injection DEF n
<1> QED BY <1>3, <1>6 DEF ToSet, Surjection

(* Moving an account to the tail changes the order only.                   *)
LEMMA BumpHolds ==
  ASSUME NEW q \in Seq(Accounts), NEW a \in Accounts
  PROVE  ToSet(Bump(q, a)) = ToSet(q)
<1>1. CASE a \in ToSet(q)
  <2> DEFINE i == CHOOSE i \in DOMAIN q : q[i] = a
             r == RemoveAt(q, i)
  <2>1. i \in 1..Len(q) /\ q[i] = a
    BY <1>1 DEF ToSet
  <2> HIDE DEF i
  <2>2. /\ r \in Seq(Accounts) /\ Len(r) = Len(q) - 1
        /\ \A j \in 1..Len(r) : r[j] = IF j < i THEN q[j] ELSE q[j + 1]
    <3> DEFINE before == SubSeq(q, 1, i - 1)
               after == SubSeq(q, i + 1, Len(q))
    <3>1. /\ before \in Seq(Accounts) /\ Len(before) = i - 1
          /\ \A j \in 1..(i - 1) : before[j] = q[j]
      BY <2>1
    <3>2. /\ after \in Seq(Accounts) /\ Len(after) = Len(q) - i
          /\ \A j \in 1..(Len(q) - i) : after[j] = q[i + j]
      BY <2>1
    <3>3. r = before \o after
      BY DEF RemoveAt
    <3> HIDE DEF before, after, r
    <3>4. r \in Seq(Accounts) /\ Len(r) = Len(q) - 1
      BY <2>1, <3>1, <3>2, <3>3
    <3>5. ASSUME NEW j \in 1..Len(r)
          PROVE  r[j] = IF j < i THEN q[j] ELSE q[j + 1]
      <4>1. CASE j < i
        BY <2>1, <3>1, <3>2, <3>3, <3>4, <4>1
      <4>2. CASE ~(j < i)
        <5>1. j - (i - 1) \in 1..(Len(q) - i) /\ i + (j - (i - 1)) = j + 1
          BY <2>1, <3>4, <4>2
        <5>2. r[j] = after[j - (i - 1)]
          BY <2>1, <3>1, <3>2, <3>3, <3>4, <4>2
        <5> QED BY <3>2, <4>2, <5>1, <5>2
      <4> QED BY <4>1, <4>2
    <3> QED BY <3>4, <3>5
  <2> HIDE DEF r
  <2>3. /\ Append(r, a) \in Seq(Accounts) /\ Len(Append(r, a)) = Len(q)
        /\ \A j \in 1..(Len(q) - 1) : Append(r, a)[j] = r[j]
        /\ Append(r, a)[Len(q)] = a
    BY <2>1, <2>2
  <2>4. Bump(q, a) = Append(r, a)
    BY <1>1 DEF Bump, i, r
  <2>5. ASSUME NEW j \in 1..Len(q) PROVE \E k \in 1..Len(q) : Append(r, a)[j] = q[k]
    <3>1. CASE j = Len(q)
      BY <2>1, <2>3, <3>1
    <3>2. CASE j < i /\ j # Len(q)
      BY <2>1, <2>2, <2>3, <3>2
    <3>3. CASE ~(j < i) /\ j # Len(q)
      <4>1. j \in 1..Len(r) /\ j + 1 \in 1..Len(q)
        BY <2>1, <2>2, <3>3
      <4> QED BY <2>1, <2>2, <2>3, <3>3, <4>1
    <3> QED BY <3>1, <3>2, <3>3
  <2>6. ASSUME NEW k \in 1..Len(q) PROVE \E j \in 1..Len(q) : Append(r, a)[j] = q[k]
    <3>1. CASE k = i
      <4>1. Len(q) \in 1..Len(q)
        BY <2>1
      <4> QED BY <2>1, <2>3, <3>1, <4>1
    <3>2. CASE k < i
      BY <2>1, <2>2, <2>3, <3>2
    <3>3. CASE k # i /\ ~(k < i)
      <4>1. k - 1 \in 1..Len(r) /\ ~(k - 1 < i) /\ k - 1 + 1 = k /\ k - 1 \in 1..Len(q)
        BY <2>1, <2>2, <3>3
      <4>2. Append(r, a)[k - 1] = r[k - 1]
        BY <2>2, <2>3, <4>1
      <4> QED BY <2>2, <4>1, <4>2
    <3> QED BY <3>1, <3>2, <3>3
  <2> DEFINE b == Append(r, a)
  <2>7. b \in Seq(Accounts) /\ Len(b) = Len(q) /\ Bump(q, a) = b
    BY <2>3, <2>4
  <2>8. /\ \A j \in 1..Len(q) : \E k \in 1..Len(q) : b[j] = q[k]
        /\ \A k \in 1..Len(q) : \E j \in 1..Len(q) : b[j] = q[k]
    BY <2>5, <2>6
  <2> HIDE DEF b
  <2>9. DOMAIN b = 1..Len(q) /\ DOMAIN q = 1..Len(q)
    BY <2>7
  <2>10. ToSet(b) \subseteq ToSet(q)
    <3>1. ASSUME NEW j \in DOMAIN b PROVE b[j] \in ToSet(q)
      <4>1. PICK k \in DOMAIN q : b[j] = q[k]
        BY <2>8, <2>9
      <4> QED BY <4>1 DEF ToSet
    <3> QED BY <3>1 DEF ToSet
  <2>11. ToSet(q) \subseteq ToSet(b)
    <3>1. ASSUME NEW k \in DOMAIN q PROVE q[k] \in ToSet(b)
      <4>1. PICK j \in DOMAIN b : b[j] = q[k]
        BY <2>8, <2>9
      <4> QED BY <4>1 DEF ToSet
    <3> QED BY <3>1 DEF ToSet
  <2> QED BY <2>7, <2>10, <2>11
<1>2. CASE a \notin ToSet(q)
  BY <1>2 DEF Bump
<1> QED BY <1>1, <1>2

(* Nothing is lost while the accounts and what the store knows of them     *)
(* stay as they are.                                                       *)
LEMMA StaysCurrent ==
  ASSUME CurrentInv, ToSet(queue') = ToSet(queue), UNCHANGED <<closed, adminVars>>
  PROVE  CurrentInv'
BY DEF CurrentInv, InStep, SeenInStep, ResetUnderWay, adminVars, Listed, Resting

LEMMA CallersKeepRotation ==
  ASSUME Shape,
         \/ \E r \in Requests : RequestStep(r)
         \/ \E k \in Probes : ProbeStep(k)
         \/ \E c \in Callers : Release(c)
         \/ \E d \in Drainers : DrainerStep(d)
         \/ \E a \in Accounts : RateTimer(a)
         \/ DailyFlush \/ Clock \/ Query \/ UNCHANGED vars
  PROVE  ToSet(queue') = ToSet(queue) /\ UNCHANGED <<closed, adminVars>>
<1>1. queue \in Seq(Accounts)
  BY DEF Shape, LeaseTypeOK
<1>2. ASSUME NEW c \in Callers, NEW a \in Accounts, Take(c, a) PROVE ToSet(queue') = ToSet(queue)
  BY <1>1, <1>2, BumpHolds DEF Take
<1>3. CASE \E r \in Requests : RequestStep(r)
  BY <1>2, <1>3 DEF RequestStep, AcquireWait, Cancel, slotVars, Callers
<1>4. CASE \E k \in Probes : ProbeStep(k)
  BY <1>2, <1>4 DEF ProbeStep, Acquire, AcquireKeepAlive, Callers
<1>5. CASE \/ \E c \in Callers : Release(c)
           \/ \E d \in Drainers : DrainerStep(d)
           \/ \E a \in Accounts : RateTimer(a)
           \/ DailyFlush \/ Clock \/ Query \/ UNCHANGED vars
  BY <1>5 DEF Release, DrainerStep, PauseForProxyUpdate, BeginUpdate, FinishUpdate, RateTimer,
     DailyFlush, Clock, Query, vars, slotVars
<1> QED BY <1>3, <1>4, <1>5

LEMMA CurrentStep ==
  ASSUME OneMaintainer, Shape, CurrentInv, [Next]_vars
  PROVE  CurrentInv'
<1> USE DEF CurrentInv
<1>0. /\ job \in [Maintainers -> Jobs] /\ seen \in [Maintainers -> Snapshot \cup {None}]
      /\ status \in [Accounts -> Statuses]
  BY DEF Shape, AdminTypeOK
<1>1. ASSUME NEW w \in Maintainers, job' = [job EXCEPT ![w] = "reset"]
      PROVE  CurrentInv'
  BY <1>0, <1>1 DEF OneMaintainer, InStep, SeenInStep, ResetUnderWay
<1>2. ASSUME NEW w \in Maintainers, ResetRead(w) PROVE CurrentInv'
  <2>1. job'[w] = "install" /\ seen'[w].status = status /\ status' = status
    BY <1>0, <1>2 DEF ResetRead
  <2> QED BY <2>1 DEF OneMaintainer, InStep, SeenInStep, ResetUnderWay
<1>3. ASSUME NEW w \in Maintainers, ResetInstall(w) PROVE CurrentInv'
  <2>1. job'[w] = "idle" /\ status' = status /\ closed' = closed /\ job[w] = "install"
    BY <1>0, <1>3 DEF ResetInstall
  <2>2. SeenInStep'
    BY <2>1 DEF OneMaintainer, SeenInStep
  <2>3. ASSUME ~closed
        PROVE  ToSet(queue') = Listed(status) /\ Resting(status) \subseteq expiry'
    <3>1. queue' \in SetToSeqs(Listed(seen[w].status)) /\ ArmExpiry(seen[w].status)
      BY <1>3, <2>3 DEF ResetInstall
    <3>2. ToSet(queue') = Listed(seen[w].status)
      BY <3>1, RotationHolds
    <3> QED BY <2>1, <3>1, <3>2 DEF SeenInStep, ArmExpiry, Resting
  <2> QED BY <2>1, <2>2, <2>3 DEF InStep
<1>4. ASSUME NEW w \in Maintainers, (\E c \in Settings : ChangeSettings(w, c)) \/ ApplyStep(w)
      PROVE  CurrentInv'
  <2>1. /\ job[w] \notin {"reset", "install"} /\ job'[w] \notin {"reset", "install"}
        /\ UNCHANGED <<queue, status, expiry, closed>>
    BY <1>0, <1>4 DEF ChangeSettings, ApplyStep, ApplyRuntimeLimits, SyncRateLimits,
       SyncDailyLimits, slotVars
  <2> QED BY <2>1 DEF OneMaintainer, InStep, SeenInStep, ResetUnderWay
<1>5. ASSUME NEW w \in Maintainers, MaintainerStep(w) PROVE CurrentInv'
  BY <1>1, <1>2, <1>3, <1>4, <1>5
     DEF MaintainerStep, ResetStep, ChangeStatus, ExpiryTimer
<1>6. ASSUME NEW a \in Accounts, DeadlinePasses(a) PROVE CurrentInv'
  <2>1. /\ status[a] = "resting" /\ status' = [status EXCEPT ![a] = "ready"]
        /\ UNCHANGED <<queue, job, seen, expiry, closed>>
    BY <1>6 DEF DeadlinePasses, slotVars
  <2>2. Listed(status') = Listed(status)
    BY <1>0, <2>1 DEF Listed
  <2>3. Resting(status') \subseteq Resting(status)
    BY <1>0, <2>1 DEF Resting
  <2> QED BY <2>1, <2>2, <2>3 DEF InStep, SeenInStep, ResetUnderWay
<1>7. CASE Close
  BY <1>7 DEF Close, InStep, SeenInStep
<1>8. CASE Restart
  <2>1. ToSet(queue') = Listed(status) /\ status' = status
    BY <1>8, RotationHolds DEF Restart
  <2> QED BY <1>8, <2>1 DEF Restart, InStep, SeenInStep, Resting
<1> QED BY <1>5, <1>6, <1>7, <1>8, CallersKeepRotation, StaysCurrent DEF Next

LEMMA CurrentInvariant ==
  ASSUME OneMaintainer
  PROVE  Spec => []CurrentInv
<1>1. Init => CurrentInv
  <2> SUFFICES ASSUME Init PROVE CurrentInv
    OBVIOUS
  <2>1. ToSet(queue) = Listed(status)
    BY RotationHolds DEF Init
  <2> QED BY <2>1 DEF Init, CurrentInv, InStep, SeenInStep, Resting
<1>2. Shape /\ CurrentInv /\ [Next]_vars => CurrentInv'
  BY CurrentStep
<1> QED BY <1>1, <1>2, ShapeInvariant, PTL DEF Spec

(* With changes that reach the pool one after the other, the rotation is   *)
(* what the store lists and every resting account's deadline is timed,     *)
(* once they have arrived, through deadlines, Close and restarts.          *)
THEOREM PoolCurrentHolds ==
  ASSUME OneMaintainer
  PROVE  Spec => []PoolCurrent
<1>1. CurrentInv => PoolCurrent
  BY DEF CurrentInv, InStep, ResetUnderWay, PoolCurrent, Resting
<1> QED BY <1>1, CurrentInvariant, PTL

-----------------------------------------------------------------------------
(***************************************************************************)
(* The daily quota and its file.                                           *)
(***************************************************************************)

(* The quota is one number whenever it is on.  (A quota that is lowered    *)
(* makes accounts spent whose counts wait for their flush.)                *)
OneDailyLimit ==
  \A c, e \in Settings : c.daily > 0 /\ e.daily > 0 => c.daily = e.daily

(* Unless the disk failed, a count that is full, whether the quota is on   *)
(* now or not, is full on disk.                                            *)
SpentSaved ==
  ~stale => \A c \in Settings, a \in Stable :
    c.daily > 0 /\ daily.counts[a] >= c.daily =>
      disk.date = daily.date /\ disk.counts[a] >= c.daily

QuotaInv == QuotaDurable /\ SpentSaved

(* The ledger has just been written, or could not be.                      *)
LEMMA LedgerWritten ==
  ASSUME disk' = daily' \/ stale'
  PROVE  QuotaInv'
BY DEF QuotaInv, QuotaDurable, SpentSaved

(* Nothing happens to the counts of accounts that are not deleted.         *)
LEMMA LedgerKept ==
  ASSUME QuotaInv, UNCHANGED <<disk, stale>>, flush' = "off" => flush = "off",
         daily'.date = daily.date,
         \A a \in Stable : daily'.counts[a] = daily.counts[a]
  PROVE  QuotaInv'
BY DEF QuotaInv, QuotaDurable, SpentSaved

(* Recording a request: a count that becomes full is written at once, and  *)
(* one that is not leaves a flush pending if it is not written.            *)
LEMMA RecordKeeps ==
  ASSUME OneDailyLimit, QuotaTypeOK, QuotaInv, NEW b \in Accounts, RecordDaily(b)
  PROVE  QuotaInv'
<1> DEFINE ledger == [date |-> today, counts |-> [TodayCounts EXCEPT ![b] = @ + 1]]
           full == ledger.counts[b] >= conf.daily
<1>1. CASE ~DailyOn
  BY <1>1, LedgerKept DEF RecordDaily
<1>2. CASE DailyOn /\ (Persist(ledger) \/ stale' = TRUE)
  BY <1>2, LedgerWritten DEF RecordDaily, Persist
<1>3. CASE /\ DailyOn /\ ~WrittenNow(full)
           /\ IF daily.date # today THEN Persist(EmptyDay) ELSE UNCHANGED <<disk, stale>>
           /\ flush' = IF flush = "off" THEN "armed" ELSE flush
  <2>1. daily' = ledger /\ flush' # "off" /\ ~full
    BY <1>3 DEF RecordDaily, WrittenNow
  <2>2. QuotaDurable'
    BY <2>1 DEF QuotaDurable
  <2>3. TodayCounts \in [Accounts -> Nat] /\ conf \in Settings
    BY EmptyLedgerType DEF TodayCounts, QuotaTypeOK, Ledger
  <2>4. ASSUME ~stale', NEW c \in Settings, NEW a \in Stable,
               c.daily > 0, daily'.counts[a] >= c.daily
        PROVE  disk'.date = daily'.date /\ disk'.counts[a] >= c.daily
    <3>1. a \in Accounts /\ c.daily \in Nat /\ conf.daily \in Nat /\ c.daily = conf.daily
      BY <1>3, <2>3, <2>4, SettingNumbers DEF OneDailyLimit, DailyOn, Stable
    <3>2. a # b /\ TodayCounts[a] >= c.daily
      BY <2>1, <2>3, <2>4, <3>1
    <3>3. daily.date = today /\ daily.counts[a] >= c.daily
      BY <2>4, <3>1, <3>2 DEF TodayCounts, NoCounts
    <3> QED BY <1>3, <2>1, <2>4, <3>3 DEF QuotaInv, SpentSaved
  <2> QED BY <2>2, <2>4 DEF QuotaInv, SpentSaved
<1> QED BY <1>1, <1>2, <1>3 DEF RecordDaily

(* The change of day and a change of the quota.                            *)
LEMMA RollKeeps ==
  ASSUME QuotaInv, RollDay \/ ResyncDaily, UNCHANGED flush
  PROVE  QuotaInv'
<1>1. Persist(daily') \/ UNCHANGED <<daily, disk, stale>>
  BY DEF RollDay, ResyncDaily
<1> QED BY <1>1, LedgerWritten, LedgerKept DEF Persist

LEMMA GlanceKeeps ==
  ASSUME QuotaInv, Glance
  PROVE  QuotaInv'
BY RollKeeps, LedgerKept DEF Glance

(* Every step of the pool.                                                 *)
LEMMA QuotaStep ==
  ASSUME OneDailyLimit, Shape, StableConfigured, QuotaInv, [Next]_vars
  PROVE  QuotaInv'
<1>1. QuotaTypeOK
  BY DEF Shape
<1>2. ASSUME UNCHANGED <<daily, disk, stale, flush>> PROVE QuotaInv'
  BY <1>2, LedgerKept
<1>3. ASSUME NEW c \in Callers, NEW a \in Accounts, Take(c, a) PROVE QuotaInv'
  BY <1>1, <1>3, RecordKeeps DEF Take, RecordRequest
<1>4. CASE \E r \in Requests : RequestStep(r)
  BY <1>3, <1>4, GlanceKeeps DEF RequestStep, AcquireWait, Cancel, Callers
<1>5. CASE \E k \in Probes : ProbeStep(k)
  BY <1>2, <1>3, <1>5 DEF ProbeStep, Acquire, AcquireKeepAlive, quotaVars, Callers
<1>6. CASE \E c \in Callers : Release(c)
  BY <1>2, <1>6, GlanceKeeps DEF Release, quotaVars
<1>7. ASSUME NEW w \in Maintainers, MaintainerStep(w) PROVE QuotaInv'
  <2>1. CASE ResetInstall(w)
    <3>1. CASE closed
      BY <1>2, <2>1, <3>1 DEF ResetInstall, quotaVars
    <3>2. CASE ~closed
      <4> DEFINE known == Configured(seen[w].status)
      <4>1. PruneQuota(known) /\ job[w] = "install"
        BY <2>1, <3>2 DEF ResetInstall
      <4>2. Stable \subseteq known
        BY <4>1 DEF Configured, StableConfigured, Stable
      <4> HIDE DEF known
      <4>3. /\ daily' = [daily EXCEPT !.counts =
                           [a \in Accounts |-> IF a \in known THEN daily.counts[a] ELSE 0]]
            /\ UNCHANGED <<disk, stale, flush>>
        BY <4>1 DEF PruneQuota
      <4>4. /\ daily'.date = daily.date
            /\ \A a \in Stable : daily'.counts[a] = daily.counts[a]
        BY <1>1, <4>2, <4>3 DEF QuotaTypeOK, Ledger, Stable
      <4> QED BY <4>3, <4>4, LedgerKept
    <3> QED BY <3>1, <3>2
  <2>2. CASE ApplyStep(w)
    BY <1>2, <2>2, GlanceKeeps, RollKeeps DEF ApplyStep, ApplyRuntimeLimits, SyncRateLimits,
       SyncDailyLimits
  <2>3. CASE \/ \E a \in Accounts, s \in Statuses : ChangeStatus(w, a, s)
             \/ \E c \in Settings : ChangeSettings(w, c)
             \/ ExpiryTimer(w) \/ ResetRead(w)
    BY <1>2, <2>3 DEF ChangeStatus, ChangeSettings, ExpiryTimer, ResetRead, quotaVars
  <2> QED BY <1>7, <2>1, <2>2, <2>3 DEF MaintainerStep, ResetStep
<1>8. CASE \E d \in Drainers : DrainerStep(d)
  BY <1>2, <1>8, GlanceKeeps
     DEF DrainerStep, PauseForProxyUpdate, BeginUpdate, FinishUpdate, quotaVars
<1>9. CASE \E a \in Accounts : DeadlinePasses(a) \/ RateTimer(a)
  BY <1>2, <1>9 DEF DeadlinePasses, RateTimer, quotaVars
<1>10. CASE DailyFlush
  BY <1>10, LedgerWritten DEF DailyFlush, Persist
<1>11. CASE Clock
  <2>1. UNCHANGED <<daily, disk, stale>> /\ (flush' = "off" => flush = "off")
    BY <1>11 DEF Clock, NextDay, PersistIntervalElapses, RateWindowElapses
  <2> QED BY <2>1, LedgerKept
<1>12. CASE Query
  BY <1>12, GlanceKeeps DEF Query
<1>13. CASE Close
  <2>1. CASE flush # "off"
    BY <1>13, <2>1, LedgerWritten DEF Close, CloseQuota, Persist
  <2>2. CASE flush = "off"
    BY <1>13, <2>2, LedgerKept DEF Close, CloseQuota
  <2> QED BY <2>1, <2>2
<1>14. CASE Restart
  BY <1>14, LedgerWritten DEF Restart, StartQuota, Persist
<1>15. CASE UNCHANGED vars
  BY <1>2, <1>15 DEF vars, quotaVars
<1> QED BY <1>4, <1>5, <1>6, <1>7, <1>8, <1>9, <1>10, <1>11, <1>12, <1>13, <1>14, <1>15
        DEF Next

(* With one value of the quota: what the daily file lacks, a flush that is *)
(* pending will write, and an account that is spent stays spent across a   *)
(* crash, unless the disk failed.                                          *)
THEOREM QuotaKeptHolds ==
  ASSUME OneDailyLimit
  PROVE  Spec => []QuotaKept
<1>1. Init => QuotaInv
  <2> SUFFICES ASSUME Init PROVE QuotaInv
    OBVIOUS
  <2>1. daily = NoFile /\ disk = NoFile /\ flush = "off"
    BY DEF Init, QuotaInit
  <2> QED BY <2>1 DEF QuotaInv, QuotaDurable, SpentSaved
<1>2. Shape /\ QuotaInv => QuotaKept
  <2> SUFFICES ASSUME Shape, QuotaInv PROVE QuotaKept
    OBVIOUS
  <2>1. conf \in Settings /\ conf.daily \in Nat
    BY SettingNumbers DEF Shape, QuotaTypeOK
  <2>2. SpentQuotaSurvives
    <3>1. ASSUME ~stale, NEW a \in Stable, DailyLimited(a)
          PROVE  disk.date = today /\ disk.counts[a] >= conf.daily
      <4>1. conf.daily > 0 /\ TodayCounts[a] >= conf.daily /\ a \in Accounts
        BY <3>1 DEF DailyLimited, DailyOn, Stable
      <4>2. daily.date = today /\ daily.counts[a] >= conf.daily
        BY <2>1, <4>1 DEF TodayCounts, NoCounts
      <4> QED BY <2>1, <3>1, <4>1, <4>2 DEF QuotaInv, SpentSaved
    <3> QED BY <3>1 DEF SpentQuotaSurvives
  <2> QED BY <2>2 DEF QuotaInv, QuotaKept
<1>3. Shape /\ StableConfigured /\ QuotaInv /\ [Next]_vars => QuotaInv'
  BY QuotaStep
<1>4. SlotInv => Shape /\ StableConfigured
  BY DEF SlotInv
<1> QED BY <1>1, <1>2, <1>3, <1>4, SlotInvariant, PTL DEF Spec

-----------------------------------------------------------------------------
(***************************************************************************)
(* Waiters.                                                                *)
(***************************************************************************)

(* Both quotas are switched off.                                           *)
NoQuotas == \A c \in Settings : c.rate = 0 /\ c.daily = 0

(* A change that concerns the waiters is on its way to the pool, or a      *)
(* deadline has passed that the expiry timer is armed for.                 *)
ChangeDue ==
  \/ \E w \in Maintainers : job[w] \in {"reset", "install", "apply"}
  \/ \E a \in expiry : status[a] # "resting"

Served ==
  (\E r \in ToSet(waiters) : CanAcquire(r)) => (\E r \in woken : CanAcquire(r)) \/ ChangeDue

(* Who could acquire depends on the accounts, slots, limits and pauses.    *)
LEMMA AbleSame ==
  ASSUME NoQuotas, conf \in Settings, conf' \in Settings,
         UNCHANGED <<status, slotVars, closed, proxyPauses>>, NEW r \in Requests
  PROVE  CanAcquire(r)' <=> CanAcquire(r)
<1>1. \A a : Free(a)' <=> Free(a)
  BY DEF Free, RateLimited, DailyLimited, DailyOn, NoQuotas, slotVars
<1>2. Candidates(r)' = Candidates(r)
  BY DEF Candidates, slotVars
<1>3. (Blocked' <=> Blocked) /\ (TotalFull' <=> TotalFull)
  BY DEF Blocked, TotalFull, slotVars
<1> QED BY <1>1, <1>2, <1>3 DEF CanAcquire

(* Waking the first who could acquire serves all who wait.                 *)
LEMMA WakeFirstServes ==
  ASSUME NEW ws \in Seq(Requests), NEW wk \in SUBSET Requests, WakeFirst(ws, wk)
  PROVE  Served'
<1> DEFINE able == {r \in Requests : CanAcquire(r)'}
           ready == {i \in DOMAIN ws : ws[i] \in able}
<1>1. CASE ready = {} /\ waiters' = ws
  <2>1. ASSUME NEW r \in ToSet(ws) PROVE ~CanAcquire(r)'
    <3>1. PICK i \in DOMAIN ws : r = ws[i]
      BY DEF ToSet
    <3>2. r \in Requests
      BY <3>1
    <3> QED BY <1>1, <3>1, <3>2
  <2> QED BY <1>1, <2>1 DEF Served
<1>2. CASE \E i \in ready : woken' = wk \cup {ws[i]}
  <2>1. PICK i \in ready : woken' = wk \cup {ws[i]}
    BY <1>2
  <2>2. CanAcquire(ws[i])' /\ ws[i] \in woken'
    BY <2>1
  <2> QED BY <2>2 DEF Served
<1> QED BY <1>1, <1>2 DEF WakeFirst

(* Nobody is left, or nobody could acquire.                                *)
LEMMA NobodyServes ==
  ASSUME waiters' = <<>> \/ Blocked' \/ ChangeDue'
  PROVE  Served'
<1>1. ToSet(<<>>) = {}
  BY DEF ToSet
<1> QED BY <1>1 DEF Served, CanAcquire

LEMMA WakeAllServes == WakeAll => Served'
BY NobodyServes DEF WakeAll

(* A step that concerns neither accounts nor waiters.                      *)
LEMMA StaysServed ==
  ASSUME NoQuotas, Shape, conf' \in Settings, Served,
         UNCHANGED <<slotVars, waitVars, adminVars, closed, proxyPauses>>
  PROVE  Served'
<1>1. \A r \in Requests : CanAcquire(r)' <=> CanAcquire(r)
  BY AbleSame DEF Shape, QuotaTypeOK, adminVars
<1>2. ToSet(waiters) \subseteq Requests /\ woken \subseteq Requests
  BY DEF Shape, WaitTypeOK, ToSet
<1>3. ChangeDue' <=> ChangeDue
  BY DEF ChangeDue, adminVars
<1> QED BY <1>1, <1>2, <1>3 DEF Served, waitVars

(* A request that attempts in vain takes no chance from anybody.           *)
LEMMA VainAttempt ==
  ASSUME NoQuotas, Shape, conf' \in Settings, Served,
         UNCHANGED <<slotVars, adminVars, closed, proxyPauses>>,
         NEW r \in Requests, ~CanAcquire(r), woken' = woken \ {r},
         waiters' \in {waiters, Append(waiters, r)}
  PROVE  Served'
<1>1. \A q \in Requests : CanAcquire(q)' <=> CanAcquire(q)
  BY AbleSame DEF Shape, QuotaTypeOK, adminVars
<1>2. ToSet(waiters) \subseteq Requests /\ woken \subseteq Requests
  BY DEF Shape, WaitTypeOK, ToSet
<1>3. ToSet(waiters') \subseteq ToSet(waiters) \cup {r}
  <2>1. waiters \in Seq(Requests)
    BY DEF Shape, WaitTypeOK
  <2>2. CASE waiters' = waiters
    BY <2>2
  <2>3. CASE waiters' = Append(waiters, r)
    <3>1. DOMAIN waiters = 1..Len(waiters) /\ DOMAIN waiters' = 1..(Len(waiters) + 1)
      BY <2>1, <2>3
    <3>2. \A i \in 1..(Len(waiters) + 1) :
            waiters'[i] = IF i = Len(waiters) + 1 THEN r ELSE waiters[i]
      BY <2>1, <2>3
    <3>3. Len(waiters) \in Nat
      BY <2>1
    <3> HIDE DEF Served
    <3>4. ASSUME NEW q \in ToSet(waiters') PROVE q \in ToSet(waiters) \cup {r}
      <4>1. PICK i \in 1..(Len(waiters) + 1) : q = waiters'[i]
        BY <3>1 DEF ToSet
      <4>2. i = Len(waiters) + 1 \/ i \in 1..Len(waiters)
        BY <3>3
      <4> QED BY <3>1, <3>2, <4>1, <4>2 DEF ToSet
    <3> QED BY <3>4
  <2> QED BY <2>2, <2>3
<1>4. ChangeDue' <=> ChangeDue
  BY DEF ChangeDue, adminVars
<1> QED BY <1>1, <1>2, <1>3, <1>4 DEF Served

(* Every step of the pool.                                                 *)
LEMMA ServedStep ==
  ASSUME NoQuotas, OneMaintainer, Probes = {}, Shape, Shape', CurrentInv, Served, [Next]_vars
  PROVE  Served'
<1>0. /\ conf' \in Settings /\ waiters \in Seq(Requests) /\ woken \in SUBSET Requests
      /\ job \in [Maintainers -> Jobs] /\ status \in [Accounts -> Statuses]
      /\ proxyPauses \in Nat
  BY PausesNatural DEF Shape, QuotaTypeOK, WaitTypeOK, AdminTypeOK
<1>1. ASSUME NEW r \in Requests, AcquireWait(r) PROVE Served'
  <2>1. woken \ {r} \in SUBSET Requests
    BY <1>0
  <2>2. CASE WakeFirst(waiters, woken \ {r})
    BY <1>0, <2>1, <2>2, WakeFirstServes
  <2>3. CASE /\ ~CanAcquire(r) /\ woken' = woken \ {r}
             /\ waiters' = IF CanQueue(r) THEN Append(waiters, r) ELSE waiters
             /\ UNCHANGED <<slotVars, held>>
    <3>1. waiters' \in {waiters, Append(waiters, r)}
      BY <2>3
    <3>2. UNCHANGED <<slotVars, adminVars, closed, proxyPauses>>
      BY <1>1, <2>3 DEF AcquireWait, pauseVars
    <3> QED BY <1>0, <2>3, <3>1, <3>2, VainAttempt
  <2> QED BY <1>1, <2>2, <2>3 DEF AcquireWait
<1>2. ASSUME NEW r \in Requests, Cancel(r) PROVE Served'
  <2>1. CASE WakeFirst(waiters, woken \ {r})
    <3>1. woken \ {r} \in SUBSET Requests
      BY <1>0
    <3> QED BY <1>0, <2>1, <3>1, WakeFirstServes
  <2>2. ASSUME NEW i \in DOMAIN waiters, WakeFirst(RemoveAt(waiters, i), woken) PROVE Served'
    BY <1>0, <2>2, RemoveAtType, WakeFirstServes
  <2> QED BY <1>2, <2>1, <2>2 DEF Cancel
<1>3. ASSUME NEW c \in Callers, Release(c) PROVE Served'
  <2>1. CASE WakeFirst(waiters, woken)
    BY <1>0, <2>1, WakeFirstServes
  <2>2. CASE UNCHANGED <<inUse, inUseTotal, waitVars>>
    <3>1. UNCHANGED <<slotVars, waitVars, adminVars, closed, proxyPauses>>
      BY <1>3, <2>2 DEF Release, slotVars
    <3> QED BY <1>0, <3>1, StaysServed
  <2> QED BY <1>3, <2>1, <2>2 DEF Release
<1>4. ASSUME NEW w \in Maintainers, MaintainerStep(w) PROVE Served'
  <2>1. CASE \/ \E a \in Accounts, s \in Statuses : ChangeStatus(w, a, s)
             \/ \E c \in Settings : ChangeSettings(w, c)
             \/ ExpiryTimer(w) \/ ResetRead(w)
    <3>1. job'[w] \in {"reset", "install", "apply"}
      BY <1>0, <2>1 DEF ChangeStatus, ChangeSettings, ExpiryTimer, ResetRead
    <3> QED BY <3>1, NobodyServes DEF ChangeDue
  <2>2. CASE ResetInstall(w)
    BY <2>2, NobodyServes, WakeAllServes DEF ResetInstall, Blocked
  <2>3. CASE ApplyRuntimeLimits(w)
    BY <1>0, <2>3, WakeFirstServes DEF ApplyRuntimeLimits
  <2>4. CASE SyncRateLimits(w) \/ SyncDailyLimits(w)
    <3>1. CASE WakeAll
      BY <3>1, WakeAllServes
    <3>2. CASE UNCHANGED waitVars
      <4>1. UNCHANGED <<status, expiry, slotVars, closed, proxyPauses>>
        BY <2>4 DEF SyncRateLimits, SyncDailyLimits, pauseVars
      <4>2. job[w] \in {"syncRate", "syncDaily"} /\ job' = [job EXCEPT ![w] = job'[w]]
            /\ job'[w] \in {"syncDaily", "idle"}
        BY <1>0, <2>4 DEF SyncRateLimits, SyncDailyLimits
      <4>3. ChangeDue => ChangeDue'
        BY <1>0, <4>1, <4>2 DEF OneMaintainer, ChangeDue
      <4>4. \A r \in Requests : CanAcquire(r)' <=> CanAcquire(r)
        BY <1>0, <4>1, AbleSame DEF Shape, QuotaTypeOK
      <4>5. ToSet(waiters) \subseteq Requests
        BY <1>0 DEF ToSet
      <4> QED BY <1>0, <3>2, <4>3, <4>4, <4>5 DEF Served, waitVars
    <3> QED BY <2>4, <3>1, <3>2 DEF SyncRateLimits, SyncDailyLimits
  <2> QED BY <1>4, <2>1, <2>2, <2>3, <2>4 DEF MaintainerStep, ResetStep, ApplyStep
<1>5. ASSUME NEW d \in Drainers, DrainerStep(d) PROVE Served'
  <2>1. CASE PauseForProxyUpdate(d)
    <3>1. proxyPauses' > 0
      BY <1>0, <2>1 DEF PauseForProxyUpdate
    <3> QED BY <3>1, NobodyServes DEF Blocked
  <2>2. CASE BeginUpdate(d)
    <3>1. UNCHANGED <<slotVars, waitVars, adminVars, closed, proxyPauses>>
      BY <2>2 DEF BeginUpdate
    <3> QED BY <1>0, <3>1, StaysServed
  <2>3. CASE FinishUpdate(d)
    <3>1. CASE proxyPauses = 1
      BY <1>0, <2>3, <3>1, WakeFirstServes DEF FinishUpdate
    <3>2. CASE proxyPauses # 1
      <4>1. proxyPauses' = proxyPauses - 1 /\ proxyPauses' \in Nat
        BY <2>3, PausesNatural DEF FinishUpdate, Shape
      <4>2. proxyPauses' > 0
        BY <1>0, <3>2, <4>1
      <4> QED BY <4>2, NobodyServes DEF Blocked
    <3> QED BY <3>1, <3>2
  <2> QED BY <1>5, <2>1, <2>2, <2>3 DEF DrainerStep
<1>6. ASSUME NEW a \in Accounts, DeadlinePasses(a) PROVE Served'
  <2>1. /\ status[a] = "resting" /\ status' = [status EXCEPT ![a] = "ready"]
        /\ UNCHANGED <<job, expiry, closed>>
    BY <1>6 DEF DeadlinePasses
  <2>2. CASE closed
    BY <2>1, <2>2, NobodyServes DEF Blocked
  <2>3. CASE ResetUnderWay
    BY <2>1, <2>3, NobodyServes DEF ResetUnderWay, ChangeDue
  <2>4. CASE ~closed /\ ~ResetUnderWay
    <3>1. a \in expiry
      BY <2>1, <2>4 DEF CurrentInv, InStep, Resting
    <3>2. status'[a] = "ready"
      BY <1>0, <2>1
    <3> QED BY <2>1, <3>1, <3>2, NobodyServes DEF ChangeDue
  <2> QED BY <2>2, <2>3, <2>4
<1>7. ASSUME NEW a \in Accounts, RateTimer(a) PROVE Served'
  BY <1>7, WakeAllServes DEF RateTimer
<1>8. CASE DailyFlush \/ Clock \/ Query \/ UNCHANGED vars
  <2>1. UNCHANGED <<slotVars, waitVars, adminVars, closed, proxyPauses>>
    BY <1>8 DEF DailyFlush, Clock, Query, vars, pauseVars
  <2> QED BY <1>0, <2>1, StaysServed
<1>9. CASE Close
  BY <1>9, NobodyServes DEF Close, Blocked
<1>10. CASE Restart
  BY <1>10, NobodyServes DEF Restart
<1> QED BY <1>1, <1>2, <1>3, <1>4, <1>5, <1>6, <1>7, <1>8, <1>9, <1>10
        DEF Next, RequestStep, ProbeStep

(* No waiter is stranded while both quotas are off, everybody who acquires *)
(* waits and changes reach the pool one after the other, for any number of *)
(* waiters and whatever accounts they accept: a wake-up of one waiter is   *)
(* passed on until nobody is left who could acquire.                       *)
THEOREM NoStrandedWaiterHolds ==
  ASSUME NoQuotas, OneMaintainer, Probes = {}
  PROVE  Spec => []NoStrandedWaiter
<1>1. Init => Served
  <2> SUFFICES ASSUME Init PROVE Served
    OBVIOUS
  <2>1. ToSet(waiters) = {}
    BY DEF Init, ToSet
  <2> QED BY <2>1 DEF Served
<1>2. Shape /\ Shape' /\ CurrentInv /\ Served /\ [Next]_vars => Served'
  BY ServedStep
<1>3. Spec => []CurrentInv
  BY CurrentInvariant
<1>4. Served => NoStrandedWaiter
  BY DEF Served, ChangeDue, NoStrandedWaiter, NotificationDue
<1> QED BY <1>1, <1>2, <1>3, <1>4, ShapeInvariant, PTL DEF Spec
=============================================================================
