---------------------------- MODULE BridgeRegistry ----------------------------
(***************************************************************************)
(* The helper processes that speak TURN and SSTP (internal/proxybridge).   *)
(* One instance per proxy is registered and shared by its connections; the *)
(* helper is started by the first dialer that needs it, under the          *)
(* instance's own mutex, and stopped by the reaper, by an eviction when    *)
(* the registry is full, or by CloseAll.                                   *)
(*                                                                         *)
(* The registry's lock is held for one step each.  What a dialer does with *)
(* an instance's mutex takes several: a helper needs up to 35 seconds to   *)
(* become ready.  The other three take the mutex with TryLock, except      *)
(* CloseAll, which waits for it.  The end of an instance's lifetime        *)
(* reaches its dialers at their next look at their context.  Time is       *)
(* abstract: an idle instance may be due for the reaper at any moment, and *)
(* a start may fail because the last one did less than 3 seconds ago.      *)
(***************************************************************************)
EXTENDS Naturals, FiniteSets

CONSTANTS
  Proxies,        \* ProxyIdentity of the proxies
  Dialers,        \* goroutines that dial (bound on those at a time)
  Instances,      \* instances that are made (bound on those at a time)
  NoInstance,
  MaxRegistered   \* 128 in the code

ASSUME BridgeAssumption ==
  /\ NoInstance \notin Instances /\ Proxies # {}
  /\ MaxRegistered \in Nat \ {0}
  /\ IsFiniteSet(Dialers) /\ Dialers \cap {"none", "reaper", "closer"} = {}

VARIABLES
  items,      \* registry.items
  instance,   \* of each instance: its helper, who holds its mutex, whether its
              \* lifetime has ended
  dialer,     \* of each dialer: where it is, for which proxy, on what
  reaping,    \* instances the reaper has taken out and is stopping
  closing     \* CloseAll: "none", "stopping" or "done", and what it stops

bridgeVars == <<items, instance, dialer, reaping, closing>>

Helpers == {"none", "starting", "up", "exited"}
HelperRuns == {"starting", "up"}
MutexHolders == Dialers \cup {"none", "reaper", "closer"}
FreshInstance == [helper |-> "none", mu |-> "none", ended |-> FALSE]

DialingPlaces == {"lock", "ensure", "wait", "open"}
NotDialing == [at |-> "rest", proxy |-> CHOOSE p \in Proxies : TRUE, on |-> NoInstance,
            retired |-> NoInstance]

BridgeTypeOK ==
  /\ items \in [Proxies -> Instances \cup {NoInstance}]
  /\ instance \in [Instances -> [helper : Helpers, mu : MutexHolders, ended : BOOLEAN]]
  /\ dialer \in [Dialers -> [at : {"rest", "evict", "discard"} \cup DialingPlaces,
                             proxy : Proxies, on : Instances \cup {NoInstance},
                             retired : Instances \cup {NoInstance}]]
  /\ reaping \subseteq Instances
  /\ closing \in [at : {"none", "stopping", "done"}, left : SUBSET Instances]

BridgeInit ==
  /\ items = [p \in Proxies |-> NoInstance]
  /\ instance = [i \in Instances |-> FreshInstance]
  /\ dialer = [d \in Dialers |-> NotDialing]
  /\ reaping = {} /\ closing = [at |-> "none", left |-> {}]

-----------------------------------------------------------------------------

(* e.refs: dialers between their look-up and their release.                *)
HasReference(d, i) == dialer[d].on = i /\ dialer[d].at \in DialingPlaces \cup {"evict"}
References(i) == Cardinality({d \in Dialers : HasReference(d, i)})
RegisteredInstances == {items[p] : p \in Proxies} \ {NoInstance}
MadeInstances ==
  RegisteredInstances \cup reaping \cup closing.left
    \cup UNION {{dialer[d].on, dialer[d].retired} : d \in Dialers}
NewInstance == CHOOSE i \in Instances : i \notin MadeInstances
CanMake == Instances \ MadeInstances # {}
WithoutInstances(is) ==
  [p \in Proxies |-> IF items[p] \in is THEN NoInstance ELSE items[p]]
Dialing(p, i) == [at |-> "lock", proxy |-> p, on |-> i, retired |-> NoInstance]
DialerAt(d, place) == dialer[d].at = place
DialerGoes(d, place) == [dialer EXCEPT ![d].at = place]

\* Faulty variant: what is taken out may be in use.
IdleIfUnlocked(i) == instance[i].mu = "none"
IdleNow(i) == instance[i].mu = "none" /\ References(i) = 0

(* stop: the input is closed and the helper killed unless it exits.        *)
HelperStopped(b) == [b EXCEPT !.helper = "none", !.mu = "none"]

(* Which instance is evicted depends on when each was last used; any may   *)
(* be the oldest.                                                          *)
DialBridge(d, p) ==
  /\ DialerAt(d, "rest")
  /\ \/ /\ items[p] # NoInstance
        /\ dialer' = [dialer EXCEPT ![d] = Dialing(p, items[p])]
        /\ UNCHANGED <<items, instance>>
     \/ /\ items[p] = NoInstance /\ Cardinality(RegisteredInstances) < MaxRegistered
        /\ CanMake /\ LET i == NewInstance IN
             /\ items' = [items EXCEPT ![p] = i]
             /\ instance' = [instance EXCEPT ![i] = FreshInstance]
             /\ dialer' = [dialer EXCEPT ![d] = Dialing(p, i)]
     \/ /\ items[p] = NoInstance /\ Cardinality(RegisteredInstances) = MaxRegistered
        /\ CanMake
        /\ \E old \in {e \in RegisteredInstances : IdleNow(e)} : LET i == NewInstance IN
             /\ items' = [WithoutInstances({old}) EXCEPT ![p] = i]
             /\ instance' = [instance EXCEPT ![i] = FreshInstance,
                                             ![old].mu = d, ![old].ended = TRUE]
             /\ dialer' = [dialer EXCEPT ![d] = [Dialing(p, i) EXCEPT !.at = "evict",
                                                                      !.retired = old]]
  /\ UNCHANGED <<reaping, closing>>

EvictedStops(d) ==
  /\ DialerAt(d, "evict")
  /\ instance' = [instance EXCEPT ![dialer[d].retired] = HelperStopped(@)]
  /\ dialer' = [dialer EXCEPT ![d].at = "lock", ![d].retired = NoInstance]
  /\ UNCHANGED <<items, reaping, closing>>

LifetimeEnded(d) == instance[dialer[d].on].ended

\* Faulty variant: the mutex is taken without another look at the context.
MayLockLate(d) == LifetimeEnded(d) \/ ~LifetimeEnded(d)
MayLock(d) == ~LifetimeEnded(d)

LockInstance(d) ==
  /\ DialerAt(d, "lock") /\ MayLock(d) /\ instance[dialer[d].on].mu = "none"
  /\ instance' = [instance EXCEPT ![dialer[d].on].mu = d]
  /\ dialer' = DialerGoes(d, "ensure")
  /\ UNCHANGED <<items, reaping, closing>>

(* The caller's context may end at any time, the lifetime by CloseAll.     *)
LockGivenUp(d) ==
  /\ DialerAt(d, "lock")
  /\ dialer' = DialerGoes(d, "discard")
  /\ UNCHANGED <<items, instance, reaping, closing>>

(* The mutex is unlocked as the dialer leaves ensure, with or without a    *)
(* port; only then is a failure released.                                  *)
Ensured(d, helper, place) ==
  /\ instance' = [instance EXCEPT ![dialer[d].on].mu = "none",
                                  ![dialer[d].on].helper = helper]
  /\ dialer' = DialerGoes(d, place)

ReuseHelper(d) ==
  /\ DialerAt(d, "ensure")
  /\ instance[dialer[d].on].helper = "up"
  /\ Ensured(d, "up", "open")
  /\ UNCHANGED <<items, reaping, closing>>

StartHelper(d) ==
  /\ DialerAt(d, "ensure")
  /\ instance[dialer[d].on].helper \in {"none", "exited"}
  /\ instance' = [instance EXCEPT ![dialer[d].on].helper = "starting"]
  /\ dialer' = DialerGoes(d, "wait")
  /\ UNCHANGED <<items, reaping, closing>>

(* A context that ended, a failure remembered, or one before the process   *)
(* runs.                                                                   *)
EnsureFails(d) ==
  /\ DialerAt(d, "ensure")
  /\ LET was == instance[dialer[d].on].helper IN
     Ensured(d, IF was = "exited" THEN "none" ELSE was, "discard")
  /\ UNCHANGED <<items, reaping, closing>>

HelperReady(d) ==
  /\ DialerAt(d, "wait") /\ instance[dialer[d].on].helper = "starting"
  /\ Ensured(d, "up", "open")
  /\ UNCHANGED <<items, reaping, closing>>

(* It exits while it starts, or takes too long, or the context ends.       *)
StartFails(d) ==
  /\ DialerAt(d, "wait")
  /\ Ensured(d, "none", "discard")
  /\ UNCHANGED <<items, reaping, closing>>

(* The local connection fails or the leased connection is closed: the      *)
(* reference goes first, the registry is looked at after.                  *)
ReleaseLocal(d) ==
  /\ DialerAt(d, "open")
  /\ dialer' = DialerGoes(d, "discard")
  /\ UNCHANGED <<items, instance, reaping, closing>>

HelperDead(i) == instance[i].helper \in {"none", "exited"}

DiscardStopped(d) ==
  /\ DialerAt(d, "discard")
  /\ LET i == dialer[d].on IN
     IF i \in RegisteredInstances /\ IdleNow(i) /\ HelperDead(i)
     THEN /\ items' = WithoutInstances({i})
          /\ instance' = [instance EXCEPT ![i] = [HelperStopped(@) EXCEPT !.ended = TRUE]]
     ELSE UNCHANGED <<items, instance>>
  /\ dialer' = [dialer EXCEPT ![d] = NotDialing]
  /\ UNCHANGED <<reaping, closing>>

-----------------------------------------------------------------------------

ReapIdle ==
  /\ reaping = {}
  /\ \E retired \in SUBSET {i \in RegisteredInstances : IdleNow(i)} :
     /\ retired # {}
     /\ items' = WithoutInstances(retired)
     /\ instance' = [i \in Instances |->
          IF i \in retired THEN [instance[i] EXCEPT !.mu = "reaper", !.ended = TRUE]
          ELSE instance[i]]
     /\ reaping' = retired
  /\ UNCHANGED <<dialer, closing>>

ReapedStops ==
  /\ \E i \in reaping :
       /\ instance' = [instance EXCEPT ![i] = HelperStopped(@)]
       /\ reaping' = reaping \ {i}
  /\ UNCHANGED <<items, dialer, closing>>

CloseAll ==
  /\ closing.at = "none"
  /\ instance' = [i \in Instances |->
       IF i \in RegisteredInstances THEN [instance[i] EXCEPT !.ended = TRUE]
       ELSE instance[i]]
  /\ items' = [p \in Proxies |-> NoInstance]
  /\ closing' = [at |-> "stopping", left |-> RegisteredInstances]
  /\ UNCHANGED <<dialer, reaping>>

CloserLocks ==
  /\ \A i \in closing.left : instance[i].mu # "closer"
  /\ \E i \in closing.left :
       /\ instance[i].mu = "none"
       /\ instance' = [instance EXCEPT ![i].mu = "closer"]
  /\ UNCHANGED <<items, dialer, reaping, closing>>

ClosedStops ==
  /\ \E i \in closing.left :
       /\ instance[i].mu = "closer"
       /\ instance' = [instance EXCEPT ![i] = HelperStopped(@)]
       /\ closing' = [closing EXCEPT !.left = @ \ {i}]
  /\ UNCHANGED <<items, dialer, reaping>>

ClosesAll ==
  /\ closing.at = "stopping" /\ closing.left = {}
  /\ closing' = [closing EXCEPT !.at = "done"]
  /\ UNCHANGED <<items, instance, dialer, reaping>>

HelperExits ==
  /\ \E i \in Instances :
       /\ instance[i].helper \in HelperRuns
       /\ instance' = [instance EXCEPT ![i].helper = "exited"]
  /\ UNCHANGED <<items, dialer, reaping, closing>>

DialerEnds(d) ==
  \/ EvictedStops(d) \/ LockInstance(d) \/ LockGivenUp(d) \/ ReuseHelper(d) \/ StartHelper(d)
  \/ EnsureFails(d) \/ HelperReady(d) \/ StartFails(d) \/ DiscardStopped(d)
CloserSteps == CloserLocks \/ ClosedStops \/ ClosesAll

BridgeNext ==
  \/ \E d \in Dialers : \/ \E p \in Proxies : DialBridge(d, p)
                        \/ DialerEnds(d) \/ ReleaseLocal(d)
  \/ ReapIdle \/ ReapedStops
  \/ CloseAll \/ CloserSteps
  \/ HelperExits

BridgeSpec ==
  /\ BridgeInit /\ [][BridgeNext]_bridgeVars
  /\ \A d \in Dialers : WF_bridgeVars(DialerEnds(d))
  /\ WF_bridgeVars(CloserSteps) /\ WF_bridgeVars(ReapedStops)

-----------------------------------------------------------------------------

(* A helper that runs is somebody's to stop: its instance is registered,   *)
(* or its mutex is held by whoever took it out, or CloseAll still waits    *)
(* for that mutex.                                                         *)
HelperOwned(i) ==
  instance[i].helper \in HelperRuns =>
    i \in RegisteredInstances \cup closing.left \/ instance[i].mu # "none"

(* A connection keeps its helper: the registry forgets an instance that is *)
(* in use only when everything is closed, and nobody else stops it.        *)
LeaseKept(d) ==
  DialerAt(d, "open") =>
    \/ /\ dialer[d].on \in RegisteredInstances
       /\ instance[dialer[d].on].mu \in Dialers \cup {"none"}
    \/ closing.at # "none"

(* No helper outlives its owner and no connection loses its helper to the  *)
(* reaper, to an eviction or to another dialer's failure, whatever the     *)
(* order of dials, exits, timeouts and CloseAll.                           *)
HelpersOwned ==
  /\ \A i \in Instances : HelperOwned(i)
  /\ \A d \in Dialers : LeaseKept(d)
  /\ Cardinality(RegisteredInstances) <= MaxRegistered

(* CloseAll comes to an end: whoever holds the mutex it waits for gives it *)
(* back.                                                                   *)
ClosingEnds == []<>(closing.at # "stopping")
=============================================================================
