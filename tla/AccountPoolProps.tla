-------------------------- MODULE AccountPoolProps --------------------------
(***************************************************************************)
(* The properties of the account pool.                                     *)
(***************************************************************************)
EXTENDS AccountPool

Stable == Accounts \ Volatile

(* The shape of the pool's state.                                          *)
TypeOK ==
  /\ QuotaTypeOK
  /\ status \in [Accounts -> Statuses]
  /\ queue \in Seq(Accounts)
  /\ inUse \in [Accounts -> Nat]
  /\ inUseTotal \in Nat
  /\ limits \in Limits
  /\ waiters \in Seq(Requests)
  /\ woken \subseteq Requests
  /\ held \in [Callers -> Accounts \cup {None}]
  /\ proxyPauses \in Nat
  /\ proxyIdle \in BOOLEAN
  /\ drain \in [Drainers -> {"off", "waiting", "updating"}]
  /\ expiry \subseteq Accounts
  /\ closed \in BOOLEAN
  /\ job \in [Maintainers -> Jobs]
  /\ seen \in [Maintainers -> Snapshot \cup {None}]
  /\ \A w \in Maintainers : job[w] = "install" => seen[w] \in Snapshot

-----------------------------------------------------------------------------
(***************************************************************************)
(* Slots.                                                                  *)
(***************************************************************************)

(* "inUseTotal mirrors sum(inUse.values())": through leases given back     *)
(* after Reset has written their account off, through accounts that leave  *)
(* and come back, and through stale Resets.                                *)
InUseMirror == inUseTotal = Total(inUse, Accounts)

(* The slots in use on an account the admin does not add or delete are     *)
(* exactly the leases callers hold on it, across every rebuild of the      *)
(* pool, disabling of the account and switch of limits.                    *)
SlotsExact == \A a \in Stable : inUse[a] = Cardinality(Holders(a))

(* An account never counts more slots than callers hold on it, deleted and *)
(* re-added accounts included: no slot is leaked.                          *)
NoSlotLeak == \A a \in Accounts : inUse[a] <= Cardinality(Holders(a))

(* The proxy kernel is restarted only while nobody holds a lease, however  *)
(* many drains overlap and whatever else happens to the pool.  (Closing    *)
(* the pool releases the drains at once.)                                  *)
UpdateExclusive ==
  \A d \in Drainers : drain[d] = "updating" /\ ~closed =>
     \A c \in Callers : held[c] \in Volatile \cup {None}

(* The pool as a ledger of leases.                                         *)
LedgerView ==
  INSTANCE SlotLedger WITH
    lease <- held, perAccount <- limits.per, total <- limits.total, shut <- Blocked

(* The pool implements the abstract ledger: every lease is granted within  *)
(* the limits counted over the callers that really hold one, and none      *)
(* while the pool is closed or paused.  (Instances without Volatile.)      *)
ImplementsLedger == LedgerView!Spec

-----------------------------------------------------------------------------
(***************************************************************************)
(* Waiters.                                                                *)
(***************************************************************************)

(* Somebody will still look at the queue: a change on its way to the pool, *)
(* a deadline the expiry timer is armed for, or an elapsed minute window.  *)
NotificationDue ==
  \/ \E w \in Maintainers : job[w] # "idle"
  \/ \E a \in expiry : status[a] # "resting"
  \/ \E a \in Accounts : rate[a].win = "elapsed"

(* No stranded waiter: whenever a parked request could acquire an account, *)
(* some woken request that could acquire one is on its way, whose success  *)
(* passes the wake-up on, or a notification is due.  notifyWaiterLocked    *)
(* wakes one waiter at a time, so this rests on the whole chain.           *)
NoStrandedWaiter ==
  (\E r \in ToSet(waiters) : CanAcquire(r)) =>
    (\E r \in woken : CanAcquire(r)) \/ NotificationDue

(* Whoever waits is woken, to acquire or to fail, as long as leases end.   *)
WaiterWoken == \A r \in Requests : Parked(r) ~> ~Parked(r)

(* A pause is never waited for forever: leases end, no new one is granted, *)
(* and the last release signals idle.                                      *)
DrainCompletes == \A d \in Drainers : drain[d] = "waiting" ~> drain[d] # "waiting"

(* Nobody waits for ever, for an account or for the pool to be idle.       *)
WaitsEnd == WaiterWoken /\ DrainCompletes

(* Once every change has reached the pool, the rotation holds exactly the  *)
(* accounts the store lists, and every deadline of a resting account is    *)
(* covered by the expiry timer or has just passed.                         *)
PoolCurrent ==
  (\A w \in Maintainers : job[w] = "idle") /\ ~closed =>
    /\ ToSet(queue) = Listed(status)
    /\ {a \in Accounts : status[a] = "resting"} \subseteq expiry

-----------------------------------------------------------------------------
(***************************************************************************)
(* Quotas.                                                                 *)
(***************************************************************************)

(* What the daily file lacks, a pending flush will write: with no flush    *)
(* pending and the last write successful, the file holds the counts.       *)
QuotaDurable ==
  flush = "off" /\ ~stale =>
    \A a \in Stable : disk.date = daily.date /\ disk.counts[a] = daily.counts[a]

(* "A spent quota must still hold after a restart": unless the disk failed *)
(* an account that is spent in memory is spent on disk.                    *)
SpentQuotaSurvives ==
  ~stale => \A a \in Stable :
    DailyLimited(a) => disk.date = today /\ disk.counts[a] >= conf.daily

(* The daily quota is safe on disk, its counts in time, its end at once.   *)
QuotaKept == QuotaDurable /\ SpentQuotaSurvives

(* A request waits only while there is something to wait for today: an     *)
(* account with quota left among those it accepts, or a lease or a change  *)
(* of the pool in progress.  "When every candidate has reached the limit"  *)
(* a request fails at once "instead of hanging until the next day".        *)
NoWaitOnSpentQuota ==
  \A r \in ToSet(waiters) :
     \/ \E a \in Candidates(r) : ~DailyLimited(a)
     \/ \E c \in Callers : held[c] # None
     \/ woken # {}
     \/ \E w \in Maintainers : job[w] # "idle"

(* A minute-limited account comes back: its window ends by timer or by a   *)
(* look, whatever happens to the settings meanwhile.                       *)
RateBlockLifts == \A a \in Accounts : RateLimited(a) ~> ~RateLimited(a)
=============================================================================
