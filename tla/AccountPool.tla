----------------------------- MODULE AccountPool -----------------------------
(***************************************************************************)
(* The account pool (internal/account): requests lease slots on accounts,  *)
(* wait in a queue when none is free, and give the slots back.  Admin      *)
(* handlers, upstream verdicts and an expiry timer change accounts in the  *)
(* configuration store and rebuild the pool; the proxy reconciler pauses   *)
(* it to restart its kernel between leases.                                *)
(*                                                                         *)
(* Every exported method of Pool is one action: it runs under p.mu.  What  *)
(* is not under p.mu is a step of its own: a waiter between its wake-up    *)
(* and its next attempt, and Reset between reading the store and           *)
(* installing what it read.                                                *)
(***************************************************************************)
EXTENDS AccountQuota, Sequences, SequencesExt

CONSTANTS
  Requests,      \* goroutines that call AcquireWait
  Probes,        \* goroutines that do not wait: Acquire, AcquireKeepAlive
  Maintainers,   \* goroutines that change the store, then notify the pool
  Drainers,      \* callers of PauseForProxyUpdate
  None,          \* no account, no target, no snapshot
  Target,        \* Target[c]: the account the caller insists on, or None
  Accepts,       \* Accepts[c]: accounts its filter and exclude set let pass
  Statuses,      \* the statuses accounts take in this instance
  Volatile,      \* accounts the admin adds and deletes while the pool runs
  Sticky,        \* runtime.account_sticky: leave the rotation order alone
  MayStop        \* whether the process may be closed or crash

Callers == Requests \cup Probes

(* What the pool can tell of a configured account: "ready" is              *)
(* IsSchedulable; "resting" is muted or cooling, with a deadline; "off" is *)
(* disabled, banned or in authentication failure.                          *)
AllStatuses == {"ready", "resting", "off", "absent"}

ASSUME PoolAssumption ==
  /\ IsFiniteSet(Callers) /\ IsFiniteSet(Drainers)
  /\ Requests \cap Probes = {}
  /\ None \notin Accounts
  /\ Target \in [Callers -> Accounts \cup {None}]
  /\ Accepts \in [Callers -> SUBSET Accounts]
  /\ "ready" \in Statuses /\ Statuses \subseteq AllStatuses
  /\ Volatile \subseteq Accounts
  /\ Sticky \in BOOLEAN /\ MayStop \in BOOLEAN

VARIABLES
  status,       \* the accounts in the configuration store
  queue,        \* the rotation, in logical order
  inUse,        \* slots in use per account
  inUseTotal,   \* their sum, maintained separately
  limits,       \* the pool's copy of the limits [per, queue, total]
  waiters,      \* requests parked in AcquireWait, oldest first
  woken,        \* requests whose ready channel is closed, not yet running
  held,         \* held[c]: the account caller c has leased, or None
  proxyPauses,  \* outstanding pauses
  proxyIdle,    \* the proxyIdle channel is closed
  drain,        \* drain[d]: "off", "waiting" for idle, "updating" the proxy
  expiry,       \* resting accounts whose deadlines armed the expiry timer
  closed,
  job,          \* job[w]: what maintainer w does next
  seen          \* seen[w]: what Reset read from the store, or None

slotVars == <<queue, inUse, inUseTotal, limits>>
waitVars == <<waiters, woken>>
pauseVars == <<proxyPauses, proxyIdle, drain>>
adminVars == <<status, job, seen, expiry>>
envVars == <<conf, today>>
vars == <<slotVars, waitVars, held, pauseVars, adminVars, closed,
          quotaVars, envVars>>

Jobs == {"idle", "reset", "install", "apply", "syncRate", "syncDaily"}
Snapshot == [status : [Accounts -> Statuses], conf : Settings]
Limits == [per : Nat \ {0}, queue : Nat, total : Nat]

-----------------------------------------------------------------------------
(***************************************************************************)
(* Predicates of the pool.                                                 *)
(***************************************************************************)

Holders(a) == {c \in Callers : held[c] = a}

(* Sum of a counter over accounts, as the number of its units.             *)
Units(f, S) == UNION {{<<a, i>> : i \in 1..f[a]} : a \in S}
Total(f, S) == Cardinality(Units(f, S))

\* Faulty variant: a pause does not block.
BlockedIfClosed == closed
Blocked == closed \/ proxyPauses > 0

\* Faulty variant: off by one.
TotalFullPastLimit == limits.total > 0 /\ inUseTotal > limits.total
TotalFull == limits.total > 0 /\ inUseTotal >= limits.total

(* canAcquireIDCheckedLocked and IsSchedulable, the global limit apart.    *)
Free(a) ==
  /\ status[a] = "ready"
  /\ inUse[a] < limits.per
  /\ ~RateLimited(a)
  /\ ~DailyLimited(a)

(* A caller with a target takes it wherever it is; the others rotate.      *)
Candidates(c) ==
  Accepts[c] \cap (IF Target[c] = None THEN ToSet(queue) ELSE {Target[c]})

CanAcquire(c) ==
  ~Blocked /\ ~TotalFull /\ \E a \in Candidates(c) : Free(a)

(* The account acquireLocked settles on: the first free one in rotation.   *)
Picks(c, a) ==
  /\ CanAcquire(c)
  /\ a \in Candidates(c) /\ Free(a)
  /\ Target[c] = None =>
       \E i \in DOMAIN queue :
          /\ queue[i] = a
          /\ \A j \in 1..(i - 1) : ~(queue[j] \in Accepts[c] /\ Free(queue[j]))

(* Whether waiting makes sense: slots and minute windows do not matter,    *)
(* a spent daily quota does.                                               *)
CanQueue(r) ==
  /\ ~closed
  /\ Len(waiters) < limits.queue
  /\ \E a \in Candidates(r) : status[a] = "ready" /\ ~DailyLimited(a)

Parked(r) == r \in ToSet(waiters)
Running(r) == held[r] = None /\ ~Parked(r)

(* bumpQueue, on the logical order, in which an account occurs once.       *)
Bump(q, a) ==
  LET i == CHOOSE i \in DOMAIN q : q[i] = a
  IN  IF a \in ToSet(q) THEN Append(RemoveAt(q, i), a) ELSE q

-----------------------------------------------------------------------------
(***************************************************************************)
(* Fragments of actions.                                                   *)
(***************************************************************************)

\* Faulty variant: only the head of the line is considered.
WakeOldest(ws, wk) ==
  IF ws # <<>> /\ Head(ws) \in {r \in Requests : CanAcquire(r)'}
  THEN waiters' = Tail(ws) /\ woken' = wk \cup {Head(ws)}
  ELSE waiters' = ws /\ woken' = wk

(* notifyWaiterLocked on the state the action leaves behind: the first     *)
(* waiter that could acquire now is woken, and only that one.              *)
WakeFirst(ws, wk) ==
  LET able == {r \in Requests : CanAcquire(r)'}
      ready == {i \in DOMAIN ws : ws[i] \in able}
  IN  \/ ready = {} /\ waiters' = ws /\ woken' = wk
      \/ \E i \in ready :
            /\ \A j \in ready : i <= j
            /\ waiters' = RemoveAt(ws, i)
            /\ woken' = wk \cup {ws[i]}

(* drainWaitersLocked.                                                     *)
WakeAll == waiters' = <<>> /\ woken' = woken \cup ToSet(waiters)

\* Faulty variant: the last release does not signal.
SignalOnPause(signalled) ==
  proxyIdle' = (signalled \/ (proxyPauses' > proxyPauses /\ inUseTotal' <= 0))

(* signalProxyIdleLocked, after the new values of what it reads.           *)
SignalIdle(signalled) ==
  proxyIdle' = (signalled \/ (proxyPauses' > 0 /\ (closed' \/ inUseTotal' <= 0)))

Occupy(c, a) ==
  /\ held' = [held EXCEPT ![c] = a]
  /\ inUse' = [inUse EXCEPT ![a] = @ + 1]
  /\ inUseTotal' = inUseTotal + 1
  /\ UNCHANGED limits

\* Faulty variant: accounts the store has forgotten are skipped.
GiveBackKnown(a) ==
  IF status[a] = "absent" THEN UNCHANGED <<inUse, inUseTotal>>
  ELSE inUse' = [inUse EXCEPT ![a] = @ - 1] /\ inUseTotal' = inUseTotal - 1

GiveBack(a) ==
  inUse' = [inUse EXCEPT ![a] = @ - 1] /\ inUseTotal' = inUseTotal - 1

\* Faulty variant: inUseTotal is not corrected.
WriteOffUncounted(gone) ==
  /\ inUse' = [a \in Accounts |-> IF a \in gone THEN 0 ELSE inUse[a]]
  /\ UNCHANGED inUseTotal

(* Reset drops the slots of accounts that left the configuration.          *)
WriteOff(gone) ==
  /\ inUse' = [a \in Accounts |-> IF a \in gone THEN 0 ELSE inUse[a]]
  /\ inUseTotal' = inUseTotal - Total(inUse, gone)

\* Faulty variant: an armed timer is left alone.
ArmExpiryOnce(st) ==
  expiry' = IF expiry # {} THEN expiry ELSE {a \in Accounts : st[a] = "resting"}

(* scheduleExpiryLocked: the deadlines of the snapshot that lie ahead.     *)
ArmExpiry(st) ==
  expiry' = {a \in Accounts : st[a] = "resting" /\ status[a] = "resting"}

(* acquireLocked when it succeeds.                                         *)
Take(c, a) ==
  /\ Picks(c, a)
  /\ Occupy(c, a)
  /\ RecordRequest(a)
  /\ queue' = IF Sticky THEN queue ELSE Bump(queue, a)

-----------------------------------------------------------------------------
(***************************************************************************)
(* Leases.                                                                 *)
(***************************************************************************)

(* AcquireWait, one turn of its loop, for a new caller or a woken one.  On *)
(* success it passes the wake-up on.                                       *)
AcquireWait(r) ==
  /\ Running(r)
  /\ UNCHANGED <<pauseVars, adminVars, closed, envVars>>
  /\ \/ /\ \E a \in Accounts : Take(r, a)
        /\ WakeFirst(waiters, woken \ {r})
     \/ /\ ~CanAcquire(r)
        /\ woken' = woken \ {r}
        /\ waiters' = IF CanQueue(r) THEN Append(waiters, r) ELSE waiters
        /\ Glance
        /\ UNCHANGED <<slotVars, held>>

(* The context ends, before the attempt, while parked or after a wake-up.  *)
Cancel(r) ==
  /\ held[r] = None
  /\ Glance
  /\ UNCHANGED <<slotVars, held, pauseVars, adminVars, closed, envVars>>
  /\ \/ ~Parked(r) /\ WakeFirst(waiters, woken \ {r})
     \/ \E i \in DOMAIN waiters :
          waiters[i] = r /\ WakeFirst(RemoveAt(waiters, i), woken)

(* Acquire: no waiting, and no wake-up passed on.                          *)
Acquire(k) ==
  /\ held[k] = None
  /\ \E a \in Accounts : Take(k, a)
  /\ UNCHANGED <<waitVars, pauseVars, adminVars, closed, envVars>>

(* AcquireKeepAlive: a slot of the target account, off the record.         *)
AcquireKeepAlive(k, a) ==
  /\ held[k] = None
  /\ ~Blocked /\ ~TotalFull
  /\ status[a] = "ready" /\ inUse[a] < limits.per
  /\ Occupy(k, a)
  /\ UNCHANGED <<queue, waitVars, pauseVars, adminVars, closed, quotaVars, envVars>>

(* Release.  A slot Reset has written off is not there to be given back.   *)
Release(c) ==
  LET a == held[c] IN
  /\ a # None
  /\ held' = [held EXCEPT ![c] = None]
  /\ UNCHANGED <<queue, limits, proxyPauses, drain, adminVars, closed, envVars>>
  /\ IF inUse[a] = 0
     THEN UNCHANGED <<inUse, inUseTotal, proxyIdle, waitVars, quotaVars>>
     ELSE /\ GiveBack(a)
          /\ Glance
          /\ SignalIdle(proxyIdle)
          /\ WakeFirst(waiters, woken)

(* Status, IsAccountRateLimited and the other queries: they change nothing *)
(* but what a look at the quotas changes.                                  *)
Query ==
  /\ Glance
  /\ UNCHANGED <<slotVars, waitVars, held, pauseVars, adminVars, closed, envVars>>

-----------------------------------------------------------------------------
(***************************************************************************)
(* Store changes and Reset.                                                *)
(***************************************************************************)

\* Faulty variant: the handler does not reset the pool.
ChangeStatusQuietly(w, a, s) ==
  /\ job[w] = "idle"
  /\ s # status[a]
  /\ "absent" \in {s, status[a]} => a \in Volatile
  /\ status' = [status EXCEPT ![a] = s]
  /\ UNCHANGED <<slotVars, waitVars, held, pauseVars, job, seen, expiry, closed,
                 quotaVars, envVars>>

(* Store.Update by an admin handler, an upstream verdict or an import: an  *)
(* account changes its status.  The caller resets the pool next.           *)
ChangeStatus(w, a, s) ==
  /\ job[w] = "idle"
  /\ s # status[a]
  /\ "absent" \in {s, status[a]} => a \in Volatile
  /\ status' = [status EXCEPT ![a] = s]
  /\ job' = [job EXCEPT ![w] = "reset"]
  /\ UNCHANGED <<slotVars, waitVars, held, pauseVars, seen, expiry, closed,
                 quotaVars, envVars>>

(* A mute or cooldown deadline passes.                                     *)
DeadlinePasses(a) ==
  /\ status[a] = "resting"
  /\ status' = [status EXCEPT ![a] = "ready"]
  /\ UNCHANGED <<slotVars, waitVars, held, pauseVars, job, seen, expiry, closed,
                 quotaVars, envVars>>

(* The expiry timer fires at the earliest deadline it was armed with.      *)
ExpiryTimer(w) ==
  /\ ~closed
  /\ \E a \in expiry : status[a] # "resting"
  /\ job[w] = "idle"
  /\ job' = [job EXCEPT ![w] = "reset"]
  /\ expiry' = {}
  /\ UNCHANGED <<slotVars, waitVars, held, pauseVars, status, seen, closed,
                 quotaVars, envVars>>

(* Reset reads the store before it takes the pool's lock ...               *)
ResetRead(w) ==
  /\ job[w] = "reset"
  /\ job' = [job EXCEPT ![w] = "install"]
  /\ seen' = [seen EXCEPT ![w] = [status |-> status, conf |-> conf]]
  /\ UNCHANGED <<slotVars, waitVars, held, pauseVars, status, expiry, closed,
                 quotaVars, envVars>>

\* Faulty variant: disabled accounts count as gone.
ConfiguredIfUsable(st) == {a \in Accounts : st[a] \in {"ready", "resting"}}

Listed(st) == {a \in Accounts : st[a] \in {"ready", "resting"}}
Configured(st) == {a \in Accounts : st[a] # "absent"}
OrDefault(n, default) == IF n > 0 THEN n ELSE default
ResetLimits(n, c) ==
  [per |-> c.per, queue |-> OrDefault(c.queue, n * c.per),
   total |-> OrDefault(c.total, n * c.per)]

(* ... and installs what it read: every waiter retries, the rotation is    *)
(* rebuilt (token holders first; which accounts hold a token is not        *)
(* modelled, so any order), and what belongs to accounts the snapshot does *)
(* not know is dropped.                                                    *)
ResetInstall(w) ==
  /\ job[w] = "install"
  /\ job' = [job EXCEPT ![w] = "idle"]
  /\ seen' = [seen EXCEPT ![w] = None]
  /\ UNCHANGED <<held, proxyPauses, drain, status, closed, envVars>>
  /\ IF closed
     THEN UNCHANGED <<slotVars, waitVars, proxyIdle, expiry, quotaVars>>
     ELSE LET st == seen[w].status
              gone == Accounts \ Configured(st)
          IN /\ queue' \in SetToSeqs(Listed(st))
             /\ WriteOff(gone)
             /\ limits' = ResetLimits(Cardinality(Listed(st)), seen[w].conf)
             /\ ArmExpiry(st)
             /\ PruneQuota(Configured(st))
             /\ SignalIdle(proxyIdle)
             /\ WakeAll

(* Saving the runtime section, then applyRuntimeSettings in three calls.   *)
ChangeSettings(w, c) ==
  /\ job[w] = "idle" /\ c # conf
  /\ conf' = c
  /\ job' = [job EXCEPT ![w] = "apply"]
  /\ UNCHANGED <<slotVars, waitVars, held, pauseVars, status, seen, expiry, closed,
                 quotaVars, today>>

ApplyRuntimeLimits(w) ==
  LET n == Cardinality({a \in ToSet(queue) : status[a] = "ready"})
      default == IF n > 0 THEN n * conf.per ELSE conf.per
  IN /\ job[w] = "apply"
     /\ job' = [job EXCEPT ![w] = "syncRate"]
     /\ limits' = [per |-> conf.per, queue |-> OrDefault(conf.queue, default),
                   total |-> OrDefault(conf.total, default)]
     /\ UNCHANGED <<queue, inUse, inUseTotal, held, pauseVars, status, seen, expiry,
                    closed, envVars>>
     /\ Glance
     /\ WakeFirst(waiters, woken)

SyncRateLimits(w) ==
  /\ job[w] = "syncRate"
  /\ job' = [job EXCEPT ![w] = "syncDaily"]
  /\ rate' = ResyncedRate
  /\ IF RateRecovers THEN WakeAll ELSE UNCHANGED waitVars
  /\ UNCHANGED <<slotVars, held, pauseVars, status, seen, expiry, closed,
                 daily, disk, stale, flush, recent, envVars>>

SyncDailyLimits(w) ==
  /\ job[w] = "syncDaily"
  /\ job' = [job EXCEPT ![w] = "idle"]
  /\ ResyncDaily
  /\ IF DailyOn \/ ForgetsCounts THEN WakeAll ELSE UNCHANGED waitVars
  /\ UNCHANGED <<slotVars, held, pauseVars, status, seen, expiry, closed,
                 rate, flush, recent, envVars>>

-----------------------------------------------------------------------------
(***************************************************************************)
(* Quota timers.                                                           *)
(***************************************************************************)

(* resetAccountRateLimit: the callback of the window it was started for.   *)
RateTimer(a) ==
  /\ ~closed /\ rate[a].win = "elapsed"
  /\ rate' = [rate EXCEPT ![a] = NoWindow]
  /\ WakeAll
  /\ UNCHANGED <<slotVars, held, pauseVars, adminVars, closed,
                 daily, disk, stale, flush, recent, envVars>>

(* The trailing flush of the daily file.                                   *)
DailyFlush ==
  /\ flush = "due"
  /\ flush' = "off" /\ recent' = TRUE
  /\ Persist(daily)
  /\ UNCHANGED <<slotVars, waitVars, held, pauseVars, adminVars, closed,
                 rate, daily, envVars>>

Clock ==
  /\ NextDay \/ PersistIntervalElapses \/ \E a \in Accounts : RateWindowElapses(a)
  /\ UNCHANGED <<slotVars, waitVars, held, pauseVars, adminVars, closed>>

-----------------------------------------------------------------------------
(***************************************************************************)
(* Pausing for a proxy update, closing and restarting.                     *)
(***************************************************************************)

PauseForProxyUpdate(d) ==
  /\ drain[d] = "off"
  /\ drain' = [drain EXCEPT ![d] = "waiting"]
  /\ proxyPauses' = proxyPauses + 1
  /\ UNCHANGED <<slotVars, waitVars, held, adminVars, closed, quotaVars, envVars>>
  /\ SignalIdle(proxyPauses > 0 /\ proxyIdle)

(* prepareReconcile proceeds once the ready channel is closed.             *)
BeginUpdate(d) ==
  /\ drain[d] = "waiting" /\ proxyIdle
  /\ drain' = [drain EXCEPT ![d] = "updating"]
  /\ UNCHANGED <<slotVars, waitVars, held, proxyPauses, proxyIdle, adminVars, closed,
                 quotaVars, envVars>>

\* Faulty variant: finish is not idempotent.
FinishAgain(d) ==
  /\ drain' = [drain EXCEPT ![d] = "off"]
  /\ proxyPauses' = proxyPauses - 1
  /\ UNCHANGED <<slotVars, waitVars, held, proxyIdle, adminVars, closed, quotaVars, envVars>>

(* finish(): after the update, or because the drainer is stopped.          *)
FinishUpdate(d) ==
  /\ drain[d] # "off"
  /\ drain' = [drain EXCEPT ![d] = "off"]
  /\ proxyPauses' = proxyPauses - 1
  /\ UNCHANGED <<slotVars, held, proxyIdle, adminVars, closed, envVars>>
  /\ IF proxyPauses = 1 THEN Glance /\ WakeFirst(waiters, woken)
     ELSE UNCHANGED <<waitVars, quotaVars>>

Close ==
  /\ MayStop /\ ~closed
  /\ closed' = TRUE
  /\ expiry' = {}
  /\ CloseQuota
  /\ WakeAll
  /\ UNCHANGED <<slotVars, held, proxyPauses, drain, status, job, seen, envVars>>
  /\ SignalIdle(proxyIdle)

(* The process ends, orderly or not, and NewPool starts over from the      *)
(* store and the daily file.                                               *)
Restart ==
  /\ MayStop
  /\ queue' \in SetToSeqs(Listed(status))
  /\ limits' = ResetLimits(Cardinality(Listed(status)), conf)
  /\ inUse' = NoCounts /\ inUseTotal' = 0
  /\ waiters' = <<>> /\ woken' = {}
  /\ held' = [c \in Callers |-> None]
  /\ proxyPauses' = 0 /\ proxyIdle' = FALSE
  /\ drain' = [d \in Drainers |-> "off"]
  /\ expiry' = {a \in Accounts : status[a] = "resting"}
  /\ closed' = FALSE
  /\ job' = [w \in Maintainers |-> "idle"]
  /\ seen' = [w \in Maintainers |-> None]
  /\ StartQuota
  /\ UNCHANGED <<status, envVars>>

-----------------------------------------------------------------------------

Init ==
  /\ QuotaInit
  /\ status \in [Accounts -> Statuses]
  /\ \A a \in Accounts \ Volatile : status[a] # "absent"
  /\ queue \in SetToSeqs(Listed(status))
  /\ limits = ResetLimits(Cardinality(Listed(status)), conf)
  /\ inUse = NoCounts /\ inUseTotal = 0
  /\ waiters = <<>> /\ woken = {}
  /\ held = [c \in Callers |-> None]
  /\ proxyPauses = 0 /\ proxyIdle = FALSE
  /\ drain = [d \in Drainers |-> "off"]
  /\ expiry = {a \in Accounts : status[a] = "resting"}
  /\ closed = FALSE
  /\ job = [w \in Maintainers |-> "idle"]
  /\ seen = [w \in Maintainers |-> None]

RequestStep(r) == AcquireWait(r) \/ Cancel(r)
ProbeStep(k) == Acquire(k) \/ \E a \in Accounts : AcquireKeepAlive(k, a)
ResetStep(w) == ResetRead(w) \/ ResetInstall(w)
ApplyStep(w) == ApplyRuntimeLimits(w) \/ SyncRateLimits(w) \/ SyncDailyLimits(w)
MaintainerStep(w) ==
  \/ \E a \in Accounts, s \in Statuses : ChangeStatus(w, a, s)
  \/ \E c \in Settings : ChangeSettings(w, c)
  \/ ExpiryTimer(w)
  \/ ResetStep(w)
  \/ ApplyStep(w)
DrainerStep(d) == PauseForProxyUpdate(d) \/ BeginUpdate(d) \/ FinishUpdate(d)

Next ==
  \/ \E r \in Requests : RequestStep(r)
  \/ \E k \in Probes : ProbeStep(k)
  \/ \E c \in Callers : Release(c)
  \/ \E w \in Maintainers : MaintainerStep(w)
  \/ \E d \in Drainers : DrainerStep(d)
  \/ \E a \in Accounts : DeadlinePasses(a) \/ RateTimer(a)
  \/ DailyFlush \/ Clock \/ Query
  \/ Close \/ Restart

Spec == Init /\ [][Next]_vars

(* Woken goroutines run, leases end (requests and keep-alives run under    *)
(* deadlines), handlers and reconciliations finish.                        *)
CallerFairness ==
  /\ \A r \in Requests : WF_vars(r \in woken /\ AcquireWait(r))
  /\ \A c \in Callers : WF_vars(Release(c))
  /\ \A w \in Maintainers : WF_vars(ResetStep(w) \/ ApplyStep(w) \/ ExpiryTimer(w))
  /\ \A d \in Drainers : WF_vars(BeginUpdate(d) \/ (drain[d] = "updating" /\ FinishUpdate(d)))

(* Time passes and the runtime's timers fire.                              *)
TimerFairness ==
  \A a \in Accounts : WF_vars((RateWindowElapses(a) /\ Clock) \/ RateTimer(a))

FairSpec == Spec /\ CallerFairness /\ TimerFairness
TimerFairSpec == Spec /\ TimerFairness
=============================================================================
