---------------------------- MODULE ProxyBinding ----------------------------
(***************************************************************************)
(* Which exit node each account uses (mihomo/binding.go, autoassign.go,    *)
(* health.go, reconcile_guard.go, manager.go).                             *)
(*                                                                         *)
(* Nodes come from a subscription.  A node that some account uses has a    *)
(* local port in PortMap and a managed proxy, a record that names that     *)
(* port; a child process listens on the ports and sends each to its node.  *)
(* The administrator binds by hand; the watcher's reconcile moves accounts *)
(* off dead nodes, binds new ones and frees those of sleeping accounts.    *)
(*                                                                         *)
(* The configuration is one record: a handler's Store.Update is one step   *)
(* that maps it to the next one.  A reconcile reads a snapshot, drains the *)
(* account pool, re-checks and updates, and re-applies, in four steps.     *)
(* Apply is serialised and reads the newest configuration: it is one step. *)
(***************************************************************************)
EXTENDS Naturals, FiniteSets, Functions

CONSTANTS
  ProxyAccounts,   \* managed accounts
  Nodes,           \* node keys of the one subscription
  BasePort, APIPort,   \* the defaults of base_port and api_port
  BasePorts, APIPorts, \* what an administrator may set them to (bounds)
  Margin,          \* how far past the ports in use a collision is looked for
  Threshold,       \* DS2API_MIHOMO_FAIL_THRESHOLD
  MaxEvents        \* administrators' changes and failures (bound)

ASSUME ProxyAssumption ==
  /\ IsFiniteSet(ProxyAccounts) /\ IsFiniteSet(Nodes)
  /\ BasePorts \subseteq Nat \ {0} /\ BasePort \in BasePorts
  /\ APIPorts \subseteq Nat \ {0} /\ APIPort \in APIPorts
  /\ Margin \in Nat /\ Threshold \in Nat \ {0} /\ MaxEvents \in Nat
  /\ \A special \in {"unbound", "direct", "own"} : special \notin Nodes

VARIABLES
  mihomo,    \* the configuration, see Configurations
  streak,    \* streak[n]: failStreak, consecutive failures (kept in memory)
  kernel,    \* the child process: alive; running, as the manager believes;
             \* api, its controller's port, and serves[n], the port of its
             \* listener for n, or 0
  applyDue,  \* a handler has still to call Apply
  reconcile, \* the reconcile in progress
  drain,     \* the goroutine prepareReconcile leaves behind
  busy,      \* some request holds an account
  events     \* how many of MaxEvents have happened

proxyVars == <<mihomo, streak, kernel, applyDue, reconcile, drain, busy, events>>

-----------------------------------------------------------------------------

(* Port 0 stands for none.                                                 *)
NoPorts == [n \in Nodes |-> 0]

(* ProxyID: empty ("unbound"), empty with NoProxy ("direct"), a proxy of   *)
(* the user's ("own"), or the managed proxy of a node.                     *)
Bindings == {"unbound", "direct", "own"} \cup Nodes

Configurations ==
  [enabled : BOOLEAN, auto : BOOLEAN,
   sub : {"none", "there", "deleted"},         \* the subscription
   base : BasePorts, api : APIPorts,           \* base_port, api_port
   nodes : SUBSET Nodes,                       \* its nodes
   failed : SUBSET Nodes,                      \* those with Status fail
   ports : [Nodes -> Nat],                     \* PortMap
   proxies : [Nodes -> Nat],                   \* Port of the managed proxies
   binding : [ProxyAccounts -> Bindings],
   manual : SUBSET ProxyAccounts,              \* ManualBinding
   cooling : SUBSET ProxyAccounts,             \* NodeCooldownUntil is ahead
   off : [ProxyAccounts -> {"on", "asleep", "banned"}]]

Users(c, n) == {a \in ProxyAccounts : c.binding[a] = n}
Candidates(c) == c.nodes \ c.failed
Dead(c) == {n \in c.nodes \cap c.failed : streak[n] >= Threshold}

(* The nodes that need a listener.                                         *)
ActiveBindings(c) ==
  {n \in c.nodes : /\ c.ports[n] # 0 /\ c.proxies[n] # 0
                   /\ \E a \in Users(c, n) : c.off[a] = "on"}
Listeners(c) == [n \in Nodes |-> IF n \in ActiveBindings(c) THEN c.ports[n] ELSE 0]
PortSet(f) == {f[n] : n \in Nodes} \ {0}

(* ValidateMihomoConfig: the controller's port is no node's.  It looks no  *)
(* farther than Margin past as many ports as are in use; ports given back  *)
(* leave gaps, so that a node may have one beyond that.                    *)
PortCount(c) == Cardinality({n \in Nodes : c.ports[n] # 0})
Valid(c) ==
  c.base <= c.api /\ c.api < c.base + PortCount(c) + Margin => c.api \notin PortSet(c.ports)

(* gcLocked: ports of vanished nodes, proxies nobody uses, bindings to     *)
(* proxies that do not exist, ports without a proxy.                       *)
Gc(c) ==
  LET proxies == [n \in Nodes |-> IF Users(c, n) = {} THEN 0 ELSE c.proxies[n]]
      dangling == {a \in ProxyAccounts :
                     c.binding[a] \in {n \in Nodes : proxies[n] = 0}}
  IN [c EXCEPT
        !.proxies = proxies,
        !.binding = [a \in ProxyAccounts |->
                       IF a \in dangling THEN "unbound" ELSE c.binding[a]],
        !.manual = @ \ dangling,
        !.ports = [n \in Nodes |-> IF n \in c.nodes /\ proxies[n] # 0
                                   THEN c.ports[n] ELSE 0]]

(* Ports are tried upwards from base_port.                                 *)
Ports(c) == c.base..(c.base + Cardinality(Nodes))

\* Faulty variant: a port is free as soon as its own node has none.
FreePortsIgnoringOthers(c) == Ports(c) \ {c.api}

(* AllocateMihomoPort takes the lowest of these.                           *)
FreePorts(c) == Ports(c) \ (PortSet(c.ports) \cup {c.api})
Lowest(free, k) == {p \in free : Cardinality({q \in free : q < p}) < k}

(* The ways to bind each account a of DOMAIN f to the node f[a]: a port for *)
(* every node that has none, in the order they are met, and its proxy.     *)
Assignments(c, f) ==
  LET used == {f[a] : a \in DOMAIN f}
      new == {n \in used : c.ports[n] = 0}
      Numberings == Injection(new, Lowest(FreePorts(c), Cardinality(new)))
      port(g) == [n \in Nodes |-> IF n \in new THEN g[n] ELSE c.ports[n]]
  IN {[c EXCEPT !.ports = port(g),
                !.proxies = [n \in Nodes |-> IF n \in used THEN port(g)[n]
                                             ELSE c.proxies[n]],
                !.binding = [a \in ProxyAccounts |-> IF a \in DOMAIN f THEN f[a]
                                                     ELSE c.binding[a]]]
        : g \in Numberings}

-----------------------------------------------------------------------------

NoReconcile == [phase |-> "idle"]
Plans == [kind : {"rebind", "relisten"},
          expected : [ProxyAccounts -> Bindings],
          unbinds : SUBSET ProxyAccounts,
          rebinds : SUBSET ProxyAccounts,
          backfills : SUBSET ProxyAccounts,
          candidates : SUBSET Nodes,
          load : [Nodes -> 0..Cardinality(ProxyAccounts)]]
Reconciles == {NoReconcile}
  \cup [phase : {"ready", "apply"}, by : {"watcher", "drain"}, plan : Plans]

ProxyTypeOK ==
  /\ mihomo \in Configurations
  /\ streak \in [Nodes -> 0..Threshold]
  /\ kernel \in [alive : BOOLEAN, running : BOOLEAN, api : APIPorts \cup {0},
                 serves : [Nodes -> Nat]]
  /\ applyDue \in BOOLEAN /\ busy \in BOOLEAN
  /\ reconcile = NoReconcile \/ reconcile \in Reconciles
  /\ drain \in {"no", "waiting", "running"}
  /\ events \in 0..MaxEvents

(* A first start, or a start with a saved configuration in which a sleeping*)
(* account is bound by hand, at a port p handed out when more or fewer     *)
(* were in use, and the others are yet to be bound.                        *)
FirstStart(sub) ==
  [enabled |-> TRUE, auto |-> TRUE, base |-> BasePort, api |-> APIPort,
   sub |-> sub, nodes |-> IF sub = "there" THEN Nodes ELSE {},
   failed |-> {}, ports |-> NoPorts, proxies |-> NoPorts,
   binding |-> [a \in ProxyAccounts |-> "unbound"],
   manual |-> {}, cooling |-> {},
   off |-> [a \in ProxyAccounts |-> "on"]]
SavedStart(a, n, p) ==
  LET one == [NoPorts EXCEPT ![n] = p]
  IN [FirstStart("there") EXCEPT !.binding[a] = n, !.manual = {a}, !.off[a] = "asleep",
                                 !.ports = one, !.proxies = one]

Stopped == [alive |-> FALSE, running |-> FALSE, api |-> 0, serves |-> NoPorts]

ProxyInit ==
  /\ mihomo \in {FirstStart("none")}
                \cup {SavedStart(a, n, p) : a \in ProxyAccounts, n \in Nodes,
                                            p \in FreePorts(FirstStart("there"))}
  /\ streak = [n \in Nodes |-> 0]
  /\ kernel = Stopped
  /\ applyDue = TRUE
  /\ reconcile = NoReconcile /\ drain = "no"
  /\ busy = FALSE /\ events = 0

-----------------------------------------------------------------------------
(***************************************************************************)
(* Administrators.  A handler that ends in applyBestEffort leaves an Apply *)
(* to be made; the pool is reset with the change.  What does not pass the  *)
(* validation is not saved (validateMutation).                             *)
(***************************************************************************)

Event == events < MaxEvents /\ events' = events + 1
Unmoved == UNCHANGED <<streak, kernel, reconcile, drain, busy>>
Saved(c) == Valid(c) /\ mihomo' = c /\ applyDue' = TRUE /\ Event /\ Unmoved
SavedOnly(c) == mihomo' = c /\ UNCHANGED applyDue /\ Event /\ Unmoved

BindAccount(a, n) ==
  /\ n \in mihomo.nodes
  /\ \E c \in Assignments(mihomo, [x \in {a} |-> n]) :
       Saved(Gc([c EXCEPT !.manual = @ \cup {a}, !.cooling = @ \ {a}]))

UnbindAccount(a) ==
  Saved(Gc([mihomo EXCEPT !.binding[a] = "direct",
                          !.manual = @ \ {a}, !.cooling = @ \ {a}]))

(* Accounts are dealt over the nodes of the list in turn.                  *)
Dealt(f, list) ==
  \A m, n \in list : Cardinality({a \in DOMAIN f : f[a] = m})
                       <= Cardinality({a \in DOMAIN f : f[a] = n}) + 1

AssignAccounts ==
  \E list \in SUBSET Candidates(mihomo) \ {{}} :
    LET freed == [mihomo EXCEPT !.binding = [a \in ProxyAccounts |->
                    IF a \notin mihomo.manual /\ mihomo.binding[a] \in Nodes
                    THEN "unbound" ELSE mihomo.binding[a]]]
        moved == {a \in ProxyAccounts \ mihomo.manual :
                    mihomo.off[a] # "asleep" /\ mihomo.binding[a] # "direct"}
    IN \E f \in {g \in [moved -> list] : Dealt(g, list)} :
       \E c \in Assignments(Gc(freed), f) :
         Saved(Gc([c EXCEPT !.cooling = @ \ moved]))

AddSubscription(nodes) ==
  /\ mihomo.sub = "none"
  /\ Saved([mihomo EXCEPT !.sub = "there", !.nodes = nodes, !.failed = {}])

(* The new nodes come without results of tests.                            *)
RefreshSubscription(nodes) ==
  /\ mihomo.sub = "there"
  /\ Saved(Gc([mihomo EXCEPT !.nodes = nodes, !.failed = {}]))

(* The accounts of nodes that have a port are freed first.                 *)
DeleteSubscription ==
  LET freed == {a \in ProxyAccounts : \E n \in Nodes :
                  mihomo.ports[n] # 0 /\ mihomo.binding[a] = n}
  IN /\ mihomo.sub = "there"
     /\ Saved(Gc([mihomo EXCEPT
                    !.sub = "deleted", !.nodes = {}, !.failed = {},
                    !.binding = [a \in ProxyAccounts |-> IF a \in freed THEN "unbound"
                                                         ELSE mihomo.binding[a]],
                    !.manual = @ \ freed]))

ClearManagedBindings(c) ==
  LET managed == {a \in ProxyAccounts : c.binding[a] \in Nodes}
  IN Gc([c EXCEPT !.binding = [a \in ProxyAccounts |-> IF a \in managed THEN "unbound"
                                                       ELSE c.binding[a]],
                  !.manual = @ \ managed, !.cooling = @ \ managed])

(* base_port stays while any port is handed out; api_port need not.        *)
UpdateSettings(enabled, auto, base, api) ==
  LET set == [mihomo EXCEPT !.enabled = enabled, !.auto = auto, !.base = base, !.api = api]
  IN /\ set # mihomo
     /\ base # mihomo.base => mihomo.ports = NoPorts
     /\ Saved(IF enabled THEN set ELSE ClearManagedBindings(set))

(* The accounts page: a proxy of the user's, a managed proxy that exists,  *)
(* no proxy, or back to the scheduler.  None of these calls Apply.         *)
UpdateAccountProxy(a, id) ==
  /\ id \in Nodes => mihomo.proxies[id] # 0
  /\ id # "unbound"
  /\ SavedOnly([mihomo EXCEPT
       !.binding[a] = id,
       !.manual = IF id = "direct" THEN @ \ {a} ELSE @ \cup {a}])
AutoMode(a) ==
  SavedOnly([mihomo EXCEPT !.binding[a] = "unbound", !.manual = @ \ {a}])
DeleteOwnProxy ==
  /\ Users(mihomo, "own") # {}
  /\ SavedOnly([mihomo EXCEPT
       !.binding = [a \in ProxyAccounts |-> IF mihomo.binding[a] = "own" THEN "unbound"
                                            ELSE mihomo.binding[a]],
       !.manual = @ \ Users(mihomo, "own")])

(* The elastic pool, an administrator or a ban.                            *)
SetOff(a, off) ==
  /\ mihomo.off[a] # off
  /\ SavedOnly([mihomo EXCEPT !.off[a] = off])

-----------------------------------------------------------------------------
(***************************************************************************)
(* Health.                                                                 *)
(***************************************************************************)

(* The controller answers where the configuration says it listens.         *)
Answers == kernel.alive /\ kernel.api = mihomo.api

Marked(n, failed) ==
  [mihomo EXCEPT !.failed = IF n \in mihomo.nodes /\ failed THEN @ \cup {n} ELSE @ \ {n}]

(* One result of a sweep; the node may have gone since the sweep began.    *)
ApplyHealthResult(n, failed) ==
  /\ mihomo.enabled /\ mihomo.auto /\ Answers
  /\ mihomo.sub = "there"
  /\ failed \/ n \in mihomo.failed \/ streak[n] > 0
  /\ mihomo' = Marked(n, failed)
  /\ streak' = [streak EXCEPT ![n] = IF ~failed THEN 0
                                     ELSE IF @ < Threshold THEN @ + 1 ELSE @]
  /\ Event
  /\ UNCHANGED <<kernel, applyDue, reconcile, drain, busy>>

(* Requests through the node have failed Threshold times in a row.         *)
MarkNodeFailByTraffic(n) ==
  /\ busy /\ mihomo.ports[n] # 0
  /\ mihomo' = Marked(n, TRUE)
  /\ streak' = [streak EXCEPT ![n] = Threshold]
  /\ Event
  /\ UNCHANGED <<kernel, applyDue, reconcile, drain, busy>>

CooldownEnds(a) ==
  /\ a \in mihomo.cooling
  /\ mihomo' = [mihomo EXCEPT !.cooling = @ \ {a}]
  /\ UNCHANGED <<streak, kernel, applyDue, reconcile, drain, busy, events>>

-----------------------------------------------------------------------------
(***************************************************************************)
(* The child process.                                                      *)
(***************************************************************************)

(* doApply: stop; start or keep the child with today's listeners; fail     *)
(* before the old child is stopped, or after.                              *)
Apply ==
  \/ ~mihomo.enabled /\ kernel' = Stopped /\ UNCHANGED events
  \/ /\ mihomo.enabled
     /\ kernel' = [alive |-> TRUE, running |-> TRUE, api |-> mihomo.api,
                   serves |-> Listeners(mihomo)]
     /\ UNCHANGED events
  \/ mihomo.enabled /\ kernel' = [kernel EXCEPT !.running = FALSE] /\ Event
  \/ mihomo.enabled /\ kernel' = Stopped /\ Event

ApplyBestEffort ==
  /\ applyDue
  /\ Apply
  /\ applyDue' = FALSE
  /\ UNCHANGED <<mihomo, streak, reconcile, drain, busy>>

(* The watcher's tick: the controller does not answer.                     *)
TrySelfHeal ==
  /\ mihomo.enabled /\ mihomo.auto /\ ~Answers
  /\ Apply
  /\ UNCHANGED <<mihomo, streak, applyDue, reconcile, drain, busy>>

Crash ==
  /\ kernel.alive
  /\ kernel' = Stopped
  /\ Event
  /\ UNCHANGED <<mihomo, streak, applyDue, reconcile, drain, busy>>

-----------------------------------------------------------------------------
(***************************************************************************)
(* Reconciling (reconcileBindings), by the watcher or by the goroutine     *)
(* that has waited for the pool; reconcileMu admits one at a time.         *)
(***************************************************************************)

(* PauseForProxyUpdate is in force: no request gets an account.            *)
Paused == drain # "no" \/ reconcile.phase \in {"ready", "apply"}

(* The decision, from one snapshot.  Accounts bound by hand are left out.  *)
Automatic == ProxyAccounts \ mihomo.manual
Unbinds == {a \in Automatic : mihomo.off[a] = "asleep" /\ mihomo.binding[a] \in Nodes}
Rebinds ==
  {a \in Automatic : /\ mihomo.off[a] # "asleep" /\ a \notin mihomo.cooling
                     /\ \E n \in Dead(mihomo) : mihomo.binding[a] = n /\ mihomo.ports[n] # 0}
Unplaced == {a \in Automatic : mihomo.off[a] # "asleep" /\ mihomo.binding[a] = "unbound"}
BoundCounts ==
  [n \in Nodes |-> IF mihomo.ports[n] = 0 THEN 0
                   ELSE Cardinality({a \in Users(mihomo, n) : mihomo.off[a] # "asleep"})]

Plan(kind) ==
  LET some == Candidates(mihomo) # {}
  IN [kind |-> kind, expected |-> mihomo.binding, unbinds |-> Unbinds,
      rebinds |-> IF some THEN Rebinds ELSE {},
      backfills |-> IF some THEN Unplaced ELSE {},
      candidates |-> Candidates(mihomo), load |-> BoundCounts]
HasChanges(plan) == plan.unbinds \cup plan.rebinds \cup plan.backfills # {}

(* The applied listeners lag behind the configuration (missingListeners).  *)
MissingListeners ==
  kernel.running /\ ~(PortSet(Listeners(mihomo)) \subseteq PortSet(kernel.serves))

(* What there is to do, if anything.                                       *)
WorkFound ==
  IF ~(mihomo.enabled /\ mihomo.auto) THEN {}
  ELSE IF HasChanges(Plan("rebind")) THEN {Plan("rebind")}
  ELSE IF MissingListeners THEN {Plan("relisten")} ELSE {}

Ready(by, plan) == reconcile' = [phase |-> "ready", by |-> by, plan |-> plan]

(* The watcher's tick, or a signal from the request path.  prepareReconcile*)
(* pauses the pool and goes on if it is idle; else it leaves one goroutine *)
(* that waits for that, and returns.  (Snapshot and pause are one step: a  *)
(* change between them might as well come after both.)                     *)
WatcherReconciles ==
  /\ reconcile = NoReconcile
  /\ \E plan \in WorkFound :
       \/ ~busy /\ Ready("watcher", plan) /\ UNCHANGED drain
       \/ busy /\ drain = "no" /\ drain' = "waiting" /\ UNCHANGED reconcile
  /\ UNCHANGED <<mihomo, streak, kernel, applyDue, busy, events>>

(* The goroutine's turn, with the pool idle and paused.                    *)
DrainReconciles ==
  /\ drain = "waiting" /\ ~busy /\ reconcile = NoReconcile
  /\ \/ (\E plan \in WorkFound : Ready("drain", plan)) /\ drain' = "running"
     \/ WorkFound = {} /\ drain' = "no" /\ UNCHANGED reconcile
  /\ UNCHANGED <<mihomo, streak, kernel, applyDue, busy, events>>

Ended == /\ reconcile' = NoReconcile
         /\ drain' = IF reconcile.by = "drain" THEN "no" ELSE drain

\* Faulty variant: the second look forgets that the user may have chosen.
EligibleIfUnmoved(a, expected) ==
  mihomo.off[a] = "on" /\ mihomo.binding[a] = expected

(* eligibleReconcileAccount: the account is still as the snapshot had it.  *)
Eligible(a, expected) ==
  /\ mihomo.off[a] = "on" /\ a \notin mihomo.manual
  /\ mihomo.binding[a] = expected

(* pickLeastLoaded, one account after another.                             *)
LeastLoaded(f, plan) ==
  LET after(n) == plan.load[n] + Cardinality({a \in DOMAIN f : f[a] = n})
  IN \A a \in DOMAIN f, m \in plan.candidates : after(f[a]) <= after(m) + 1

(* The outcomes of the transaction, {} when a chosen node has gone or the  *)
(* validation refuses the result.                                          *)
Reconciled(plan) ==
  LET freed == {a \in plan.unbinds : /\ mihomo.off[a] = "asleep" /\ a \notin mihomo.manual
                                     /\ mihomo.binding[a] = plan.expected[a]}
      moved == {a \in plan.rebinds : Eligible(a, plan.expected[a])}
      filled == {a \in plan.backfills : Eligible(a, "unbound")}
      c == [mihomo EXCEPT !.binding = [a \in ProxyAccounts |->
                IF a \in freed THEN "unbound" ELSE mihomo.binding[a]],
                          !.cooling = @ \cup moved]
      choices == {f \in [moved \cup filled -> plan.candidates] : LeastLoaded(f, plan)}
  IN [f \in choices |->
        IF \A a \in DOMAIN f : f[a] \in mihomo.nodes
        THEN {d \in {Gc(e) : e \in Assignments(c, f)} : Valid(d)} ELSE {}]

(* An error ends the reconcile without Apply.                              *)
UpdateBindings ==
  /\ reconcile.phase = "ready" /\ reconcile.plan.kind = "rebind"
  /\ \/ /\ mihomo.enabled /\ mihomo.auto
        /\ LET outcomes == Reconciled(reconcile.plan)
           IN \E f \in DOMAIN outcomes :
                \/ /\ mihomo' \in outcomes[f]
                   /\ reconcile' = [reconcile EXCEPT !.phase = "apply"]
                   /\ UNCHANGED drain
                \/ outcomes[f] = {} /\ Ended /\ UNCHANGED mihomo
     \/ /\ ~(mihomo.enabled /\ mihomo.auto)
        /\ reconcile' = [reconcile EXCEPT !.phase = "apply"]
        /\ UNCHANGED <<mihomo, drain>>
  /\ UNCHANGED <<streak, kernel, applyDue, busy, events>>

ReconcileApplies ==
  /\ \/ reconcile.phase = "apply"
     \/ reconcile.phase = "ready" /\ reconcile.plan.kind = "relisten"
  /\ Apply /\ Ended
  /\ UNCHANGED <<mihomo, streak, applyDue, busy>>

-----------------------------------------------------------------------------

RequestStarts ==
  /\ ~busy /\ ~Paused
  /\ busy' = TRUE
  /\ UNCHANGED <<mihomo, streak, kernel, applyDue, reconcile, drain, events>>
RequestsEnd ==
  /\ busy /\ busy' = FALSE
  /\ UNCHANGED <<mihomo, streak, kernel, applyDue, reconcile, drain, events>>

Administer ==
  /\ events < MaxEvents
  /\ \/ \E a \in ProxyAccounts :
          \/ \E n \in Nodes : BindAccount(a, n)
          \/ UnbindAccount(a) \/ AutoMode(a)
          \/ \E id \in Bindings : UpdateAccountProxy(a, id)
          \/ \E off \in {"on", "asleep", "banned"} : SetOff(a, off)
     \/ AssignAccounts \/ DeleteOwnProxy \/ DeleteSubscription
     \/ \E nodes \in SUBSET Nodes \ {{}} :
          AddSubscription(nodes) \/ RefreshSubscription(nodes)
     \/ \E enabled, auto \in BOOLEAN, base \in BasePorts, api \in APIPorts :
          UpdateSettings(enabled, auto, base, api)
Health ==
  \/ \E n \in Nodes : \/ \E failed \in BOOLEAN : ApplyHealthResult(n, failed)
                      \/ MarkNodeFailByTraffic(n)
  \/ \E a \in ProxyAccounts : CooldownEnds(a)
Reconcile ==
  WatcherReconciles \/ DrainReconciles \/ UpdateBindings \/ ReconcileApplies

ProxyNext ==
  \/ Administer \/ Health \/ Reconcile
  \/ ApplyBestEffort \/ TrySelfHeal \/ Crash
  \/ RequestStarts \/ RequestsEnd

ProxySpec == ProxyInit /\ [][ProxyNext]_proxyVars

(* Goroutines run, the watcher ticks, requests end, and a waiter gets      *)
(* reconcileMu in the end (Go's mutex does not starve).                    *)
FairProxySpec ==
  /\ ProxySpec
  /\ WF_proxyVars(ApplyBestEffort \/ TrySelfHeal)
  /\ WF_proxyVars(RequestsEnd)
  /\ WF_proxyVars(WatcherReconciles)
  /\ WF_proxyVars(UpdateBindings \/ ReconcileApplies)
  /\ SF_proxyVars(DrainReconciles)

-----------------------------------------------------------------------------
(***************************************************************************)
(* Properties.                                                             *)
(***************************************************************************)

(* PortMap, the managed proxies and the bindings agree: no two nodes share *)
(* a port, a port belongs to a node that exists and is the one its proxy   *)
(* names, and whoever is bound has a proxy, whatever was bound, freed,     *)
(* refreshed or set before.  A node has the controller's port only when    *)
(* the settings moved the controller to where the validation does not look:*)
(* no port is handed out, no binding added and no base_port set into that. *)
PortsAndProxiesAgree ==
  /\ \A n \in Nodes : mihomo.ports[n] # 0 =>
       /\ n \in mihomo.nodes
       /\ mihomo.ports[n] = mihomo.api
            => mihomo.api >= mihomo.base + PortCount(mihomo) + Margin
       /\ mihomo.proxies[n] = mihomo.ports[n]
       /\ \A m \in Nodes \ {n} : mihomo.ports[m] # mihomo.ports[n]
  /\ \A a \in ProxyAccounts : mihomo.binding[a] \in Nodes
       => mihomo.proxies[mihomo.binding[a]] # 0

(* "Accounts bound by hand take part in nothing of the above": nothing but *)
(* an administrator's command moves one, even if it was bound by hand      *)
(* after the scheduler's snapshot, and to the very node of the snapshot,   *)
(* and whatever the scheduler's clean-up takes away around it.             *)
ManualBindingKept ==
  [][events' = events =>
       \A a \in mihomo.manual : /\ a \in mihomo'.manual
                                /\ mihomo'.binding[a] = mihomo.binding[a]]_proxyVars

(* An Apply has failed before it stopped the child: the manager believes   *)
(* that nothing runs, the controller answers, and nobody calls Apply again.*)
Stalled == Answers /\ ~kernel.running

(* A node has the controller's port: whichever of the two listens first,   *)
(* the other cannot, and the validation refuses the next binding.          *)
Collided == mihomo.api \in PortSet(mihomo.ports)

(* "Otherwise the account would stay with a binding whose port nobody      *)
(* listens on": with the scheduler on, every active binding is served,     *)
(* whatever was bound, put to sleep, woken, restarted or crashed before,   *)
(* unless the manager has stalled or the settings make ports collide.      *)
Served ==
  \A n \in ActiveBindings(mihomo) : kernel.alive /\ kernel.serves[n] = mihomo.ports[n]
BindingsServed ==
  <>[](mihomo.enabled /\ mihomo.auto /\ ~Collided) => []<>(Served \/ Stalled)
=============================================================================
