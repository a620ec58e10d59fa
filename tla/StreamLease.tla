----------------------------- MODULE StreamLease -----------------------------
(***************************************************************************)
(* Leases of the split deployment (chat/vercel_stream.go): the Go side     *)
(* prepares a stream, takes an account's slot for it and hands a lease to  *)
(* the Node side, which streams, may ask for another account ("switch"),   *)
(* and releases the lease with its report.  A lease nobody releases        *)
(* expires; the next request of any kind sweeps it.                        *)
(*                                                                         *)
(* leaseMu is held for each pop, lookup and insertion; slots are returned  *)
(* after it.  The account of a lease is a field of the RequestAuth that    *)
(* the lease, its switch and its release share: each reads what it is then.*)
(* What makes a request recover, and in which order, is ManagedRequest's.  *)
(***************************************************************************)
EXTENDS Naturals, FiniteSets

CONSTANTS
  Leases,          \* streams that are prepared, each with its lease
  LeaseAccounts,   \* managed accounts
  NoAccount,       \* before Determine
  SlotsEach,       \* slots of an account
  MaxLeaseSwitches \* MaxAccountSwitches

ASSUME LeaseAssumption ==
  /\ NoAccount \notin LeaseAccounts
  /\ IsFiniteSet(Leases)
  /\ SlotsEach \in Nat \ {0} /\ MaxLeaseSwitches \in Nat

VARIABLES
  slots,     \* slots[a]: how many the pool counts as taken
  account,   \* account[l]: AccountID of the stream's RequestAuth
  took,      \* took[l]: accounts it has acquired
  returned,  \* returned[l]: releasedAccounts
  prepare,   \* prepare[l]: where its prepare handler is
  lease,     \* lease[l]: "none", "live", "expired" (in the map) or "gone"
  owed,      \* leases that were popped and whose Release is still to come
  switch,    \* switch[l]: its switch handler, or a recovery in a preparation
  late       \* history: switches that acquired after their lease was gone

leaseVars == <<slots, account, took, returned, prepare, lease, owed, switch, late>>

Preparations == {"new", "queued", "busy", "held", "failed", "delivered", "over"}
Switches == {"idle", "recover", "waiting", "token", "payload"}

LeaseTypeOK ==
  /\ slots \in [LeaseAccounts -> 0..SlotsEach]
  /\ account \in [Leases -> LeaseAccounts \cup {NoAccount}]
  /\ took \in [Leases -> SUBSET LeaseAccounts]
  /\ returned \in [Leases -> SUBSET LeaseAccounts]
  /\ prepare \in [Leases -> Preparations]
  /\ lease \in [Leases -> {"none", "live", "expired", "gone"}]
  /\ owed \subseteq Leases /\ late \subseteq Leases
  /\ switch \in [Leases -> Switches]

LeaseInit ==
  /\ slots = [a \in LeaseAccounts |-> 0]
  /\ account = [l \in Leases |-> NoAccount]
  /\ took = [l \in Leases |-> {}] /\ returned = [l \in Leases |-> {}]
  /\ prepare = [l \in Leases |-> "new"]
  /\ lease = [l \in Leases |-> "none"]
  /\ owed = {} /\ late = {}
  /\ switch = [l \in Leases |-> "idle"]

-----------------------------------------------------------------------------

Prepares(l, place) == prepare' = [prepare EXCEPT ![l] = place]
SwitchesTo(l, place) == switch' = [switch EXCEPT ![l] = place]

(* AcquireWait, when an account has a slot.                                *)
Takes(l, a) ==
  /\ slots[a] < SlotsEach
  /\ slots' = [slots EXCEPT ![a] = @ + 1]
  /\ account' = [account EXCEPT ![l] = a]
  /\ took' = [took EXCEPT ![l] = @ \cup {a}]

\* Faulty variant: whoever comes along returns the slot.
HoldsForEver(l) == account[l] # NoAccount

Holds(l) == account[l] # NoAccount /\ account[l] \notin returned[l]

(* releaseAccountSlot: once per stream and account.                        *)
Returns(l) ==
  IF Holds(l) THEN /\ slots' = [slots EXCEPT ![account[l]] = @ - 1]
                   /\ returned' = [returned EXCEPT ![l] = @ \cup {account[l]}]
  ELSE UNCHANGED <<slots, returned>>

\* Faulty variant: expired leases leave the map, and that is all.
PopsAndForgets(more) ==
  /\ lease' = [l \in Leases |-> IF lease[l] = "expired" \/ l \in more THEN "gone"
                                ELSE lease[l]]
  /\ owed' = owed \cup more

(* popExpiredLeasesLocked, and the leases "more" beside them.              *)
Pops(more) ==
  LET popped == more \cup {l \in Leases : lease[l] = "expired"}
  IN /\ lease' = [l \in Leases |-> IF l \in popped THEN "gone" ELSE lease[l]]
     /\ owed' = owed \cup popped

(* Any request to prepare, switch or release sweeps first, before it is    *)
(* even authenticated; a release may be a mere preview of the usage.       *)
Sweep == Pops({}) /\ UNCHANGED <<slots, account, took, returned, prepare, switch, late>>

(* releaseExpiredAuths, and the deferred Release of the release handler.   *)
ReleaseOwed(l) ==
  /\ l \in owed /\ Returns(l)
  /\ owed' = owed \ {l}
  /\ UNCHANGED <<account, took, prepare, lease, switch, late>>

Expire(l) ==
  /\ lease[l] = "live"
  /\ lease' = [lease EXCEPT ![l] = "expired"]
  /\ UNCHANGED <<slots, account, took, returned, prepare, owed, switch, late>>

-----------------------------------------------------------------------------
(***************************************************************************)
(* Prepare and release.                                                    *)
(***************************************************************************)

PrepareArrives(l) ==
  /\ prepare[l] = "new" /\ Prepares(l, "queued") /\ Pops({})
  /\ UNCHANGED <<slots, account, took, returned, switch, late>>

Determine(l) ==
  /\ prepare[l] = "queued"
  /\ \/ (\E a \in LeaseAccounts : Takes(l, a)) /\ Prepares(l, "busy")
     \/ Prepares(l, "over") /\ UNCHANGED <<slots, account, took>>
  /\ UNCHANGED <<returned, lease, owed, switch, late>>

(* Uploads, the session, the proof of work and the payload.                *)
PreparationFails(l) ==
  /\ prepare[l] = "busy" /\ switch[l] = "idle" /\ Prepares(l, "failed")
  /\ UNCHANGED <<slots, account, took, returned, lease, owed, switch, late>>

HoldStreamLease(l) ==
  /\ prepare[l] = "busy" /\ switch[l] = "idle" /\ Prepares(l, "held")
  /\ LET popped == {k \in Leases : lease[k] = "expired"}
     IN /\ lease' = [k \in Leases |-> CASE k = l -> "live"
                                        [] k \in popped -> "gone"
                                        [] OTHER -> lease[k]]
        /\ owed' = owed \cup popped
  /\ UNCHANGED <<slots, account, took, returned, switch, late>>

Deliver(l) ==
  /\ prepare[l] = "held" /\ Prepares(l, "delivered")
  /\ UNCHANGED <<slots, account, took, returned, lease, owed, switch, late>>

(* The reply does not get through: the lease is taken back.  Its slot is   *)
(* for the deferred Release, below; the expired ones that are popped with  *)
(* it are released here.                                                   *)
DeliveryFails(l) ==
  /\ prepare[l] = "held" /\ Prepares(l, "failed")
  /\ LET popped == {k \in Leases \ {l} : lease[k] = "expired"}
     IN /\ lease' = [k \in Leases |-> IF k = l \/ k \in popped THEN "gone" ELSE lease[k]]
        /\ owed' = owed \cup popped
  /\ UNCHANGED <<slots, account, took, returned, switch, late>>

PrepareReleases(l) ==
  /\ prepare[l] = "failed" /\ Prepares(l, "over") /\ Returns(l)
  /\ UNCHANGED <<account, took, lease, owed, switch, late>>

(* The Node side reports the end of the stream, or that its client left,   *)
(* also while its own request for a switch is under way.                   *)
ReleaseLease(l) ==
  /\ prepare[l] = "delivered" /\ lease[l] \in {"live", "expired"}
  /\ Pops({l})
  /\ UNCHANGED <<slots, account, took, returned, prepare, switch, late>>

-----------------------------------------------------------------------------
(***************************************************************************)
(* Switch.                                                                 *)
(***************************************************************************)

SwitchArrives(l) ==
  /\ prepare[l] = "delivered" /\ switch[l] = "idle" /\ lease[l] = "live"
  /\ Pops({}) /\ SwitchesTo(l, "recover")
  /\ UNCHANGED <<slots, account, took, returned, prepare, late>>

(* A call upstream is refused, of the payload or of the preparation.       *)
Recovers(l) ==
  /\ switch[l] = "payload" \/ (switch[l] = "idle" /\ prepare[l] = "busy")
  /\ SwitchesTo(l, "recover")
  /\ UNCHANGED <<slots, account, took, returned, prepare, lease, owed, late>>

(* RefreshTokenOnce has helped: the account stays.                         *)
Refreshed(l) ==
  /\ switch[l] = "recover" /\ SwitchesTo(l, "payload")
  /\ UNCHANGED <<slots, account, took, returned, prepare, lease, owed, late>>

MaySwitch(l) == Cardinality(took[l]) <= MaxLeaseSwitches

(* SwitchAccount returns the old account's slot before it looks for a new  *)
(* one, which takes up to 30 s.                                            *)
GiveUpOld(l) ==
  /\ switch[l] = "recover"
  /\ IF MaySwitch(l) THEN SwitchesTo(l, "waiting") /\ Returns(l)
     ELSE SwitchesTo(l, "idle") /\ UNCHANGED <<slots, returned>>
  /\ UNCHANGED <<account, took, prepare, lease, owed, late>>

AcquireNew(l) ==
  /\ switch[l] = "waiting" /\ MaySwitch(l) /\ SwitchesTo(l, "token")
  /\ \E a \in LeaseAccounts \ took[l] : Takes(l, a)
  /\ late' = IF lease[l] = "gone" THEN late \cup {l} ELSE late
  /\ UNCHANGED <<returned, prepare, lease, owed>>

(* No account in time, the budget is spent, or the caller has gone.        *)
NoneFound(l) ==
  /\ switch[l] = "waiting" /\ SwitchesTo(l, "idle")
  /\ UNCHANGED <<slots, account, took, returned, prepare, lease, owed, late>>

TokenFails(l) ==
  /\ switch[l] = "token" /\ SwitchesTo(l, "waiting") /\ Returns(l)
  /\ UNCHANGED <<account, took, prepare, lease, owed, late>>
TokenReady(l) ==
  /\ switch[l] = "token" /\ SwitchesTo(l, "payload")
  /\ UNCHANGED <<slots, account, took, returned, prepare, lease, owed, late>>

(* updateStreamLeaseState leaves a lease alone that is no longer there.    *)
SwitchEnds(l) ==
  /\ switch[l] = "payload" /\ SwitchesTo(l, "idle")
  /\ UNCHANGED <<slots, account, took, returned, prepare, lease, owed, late>>

LeaseNext ==
  \/ Sweep
  \/ \E l \in Leases :
       \/ ReleaseOwed(l) \/ Expire(l)
       \/ PrepareArrives(l) \/ Determine(l) \/ PreparationFails(l)
       \/ HoldStreamLease(l) \/ Deliver(l) \/ DeliveryFails(l) \/ PrepareReleases(l)
       \/ ReleaseLease(l)
       \/ SwitchArrives(l) \/ Recovers(l) \/ Refreshed(l) \/ GiveUpOld(l) \/ AcquireNew(l)
       \/ NoneFound(l) \/ TokenFails(l) \/ TokenReady(l) \/ SwitchEnds(l)

LeaseSpec == LeaseInit /\ [][LeaseNext]_leaseVars

-----------------------------------------------------------------------------
(***************************************************************************)
(* Properties.                                                             *)
(***************************************************************************)

Held(l) == took[l] \ returned[l]

(* The pool's count is the number of streams that have not returned the    *)
(* slot: a release, a sweep, a failed delivery and a switch that all end   *)
(* the same stream return it once.  A stream holds at most its present     *)
(* account, and somebody will return that slot: its prepare handler, its   *)
(* lease in the map, or whoever popped it.  Only a switch that outlives    *)
(* its lease keeps one nobody knows of.                                    *)
SlotsOwned ==
  /\ \A a \in LeaseAccounts : slots[a] = Cardinality({l \in Leases : a \in Held(l)})
  /\ \A l \in Leases :
       /\ Held(l) \subseteq {account[l]}
       /\ Held(l) # {} => \/ prepare[l] \in {"busy", "held", "failed"}
                          \/ lease[l] \in {"live", "expired"}
                          \/ l \in owed \cup late
=============================================================================
