------------------------ MODULE AccountServicesProofs ------------------------
(***************************************************************************)
(* What holds of the components that take, ping and rank accounts: Vercel  *)
(* leases for any number of streams and accounts, keep-alive pings for any *)
(* number of jobs, and the elastic pool for any accounts and any count.    *)
(***************************************************************************)
EXTENDS StreamLease, KeepAlive, AccountRoster, FiniteSetTheorems, SequenceTheorems, TLAPS

-----------------------------------------------------------------------------
(***************************************************************************)
(* VERCEL STREAM LEASES                                                    *)
(***************************************************************************)

Holders(a) == {l \in Leases : a \in Held(l)}
SlotsCounted == \A a \in LeaseAccounts : slots[a] = Cardinality(Holders(a))

(* What a stream has taken and given back, by where its handlers are.      *)
Accounted(l) ==
  /\ returned[l] \subseteq took[l]
  /\ account[l] = NoAccount => took[l] = {}
  /\ account[l] # NoAccount => account[l] \in took[l]
  /\ Held(l) \subseteq {account[l]}
  /\ switch[l] = "waiting" => Held(l) = {}
  /\ switch[l] # "idle" => prepare[l] \in {"busy", "delivered"}
  /\ prepare[l] \in {"new", "queued"} => took[l] = {}
  /\ prepare[l] \in {"new", "queued", "busy"} => lease[l] = "none"
  /\ prepare[l] \in {"held", "delivered"} => lease[l] # "none"

(* Who will give its slot back.                                            *)
Owner(l) ==
  Held(l) # {} =>
    /\ \/ prepare[l] \in {"busy", "held", "failed"}
       \/ lease[l] \in {"live", "expired"}
       \/ l \in owed \cup late
    /\ lease[l] = "gone" => prepare[l] = "failed" \/ l \in owed \cup late

Owned(l) == Accounted(l) /\ Owner(l)
LeaseInv == LeaseTypeOK /\ SlotsCounted /\ \A l \in Leases : Owned(l)

-----------------------------------------------------------------------------
(***************************************************************************)
(* Taking and returning a slot.                                            *)
(***************************************************************************)

LEMMA HoldersFinite == \A a : IsFiniteSet(Holders(a))
BY LeaseAssumption, FS_Subset DEF Holders

(* Taking a slot for a stream that holds none.                             *)
LEMMA TakesEffect ==
  ASSUME LeaseTypeOK, SlotsCounted, NEW l \in Leases, Accounted(l),
         NEW a \in LeaseAccounts \ took[l], Takes(l, a), Held(l) = {}, returned' = returned
  PROVE  /\ slots' \in [LeaseAccounts -> 0..SlotsEach]
         /\ account' \in [Leases -> LeaseAccounts \cup {NoAccount}]
         /\ took' \in [Leases -> SUBSET LeaseAccounts]
         /\ SlotsCounted'
         /\ account'[l] = a /\ took'[l] = took[l] \cup {a} /\ Held(l)' = {a}
         /\ \A k \in Leases \ {l} : /\ account'[k] = account[k] /\ took'[k] = took[k]
                                    /\ Held(k)' = Held(k)
<1>1. /\ account' \in [Leases -> LeaseAccounts \cup {NoAccount}]
      /\ took' \in [Leases -> SUBSET LeaseAccounts]
      /\ account'[l] = a /\ took'[l] = took[l] \cup {a}
      /\ \A k \in Leases \ {l} : account'[k] = account[k] /\ took'[k] = took[k]
  BY DEF Takes, LeaseTypeOK
<1>2. slots' \in [LeaseAccounts -> 0..SlotsEach]
  BY LeaseAssumption DEF Takes, LeaseTypeOK
<1>3. Held(l)' = {a} /\ \A k \in Leases \ {l} : Held(k)' = Held(k)
  BY <1>1 DEF Held, Accounted
<1>4. ASSUME NEW b \in LeaseAccounts PROVE slots'[b] = Cardinality(Holders(b)')
  <2>1. CASE b = a
    <3>1. l \notin Holders(a) /\ Holders(a)' = Holders(a) \cup {l}
      BY <1>3 DEF Holders
    <3>2. Cardinality(Holders(a) \cup {l}) = Cardinality(Holders(a)) + 1
      BY <3>1, HoldersFinite, FS_AddElement
    <3>3. slots'[a] = slots[a] + 1
      BY DEF Takes, LeaseTypeOK
    <3> QED BY <2>1, <3>1, <3>2, <3>3 DEF SlotsCounted
  <2>2. CASE b # a
    <3>1. Holders(b)' = Holders(b)
      BY <1>3, <2>2 DEF Holders
    <3>2. slots'[b] = slots[b]
      BY <2>2 DEF Takes, LeaseTypeOK
    <3> QED BY <3>1, <3>2 DEF SlotsCounted
  <2> QED BY <2>1, <2>2
<1> QED BY <1>1, <1>2, <1>3, <1>4 DEF SlotsCounted

(* Returning the slot of a stream, or finding that it has none.            *)
LEMMA ReturnsEffect ==
  ASSUME LeaseTypeOK, SlotsCounted, NEW l \in Leases, Accounted(l), Returns(l),
         UNCHANGED <<account, took>>
  PROVE  /\ slots' \in [LeaseAccounts -> 0..SlotsEach]
         /\ returned' \in [Leases -> SUBSET LeaseAccounts]
         /\ SlotsCounted'
         /\ returned'[l] \subseteq took[l] /\ Held(l)' = {}
         /\ \A k \in Leases \ {l} : returned'[k] = returned[k] /\ Held(k)' = Held(k)
<1>1. CASE Holds(l)
  <2>0. PICK a \in LeaseAccounts : a = account[l]
    BY <1>1 DEF Holds, LeaseTypeOK
  <2>1. /\ a \in took[l] /\ Held(l) = {a}
        /\ slots' = [slots EXCEPT ![a] = @ - 1]
        /\ returned' = [returned EXCEPT ![l] = returned[l] \cup {a}]
    BY <1>1, <2>0 DEF Holds, Returns, Held, Accounted, LeaseTypeOK
  <2>2. /\ returned' \in [Leases -> SUBSET LeaseAccounts]
        /\ returned'[l] = returned[l] \cup {a}
        /\ \A k \in Leases \ {l} : returned'[k] = returned[k]
    BY <2>1 DEF LeaseTypeOK
  <2>3. Held(l)' = {} /\ \A k \in Leases \ {l} : Held(k)' = Held(k)
    BY <2>1, <2>2 DEF Held
  <2>4. /\ l \in Holders(a) /\ Holders(a)' = Holders(a) \ {l}
        /\ Cardinality(Holders(a) \ {l}) = Cardinality(Holders(a)) - 1
    <3>1. l \in Holders(a) /\ Holders(a)' = Holders(a) \ {l}
      BY <2>1, <2>3 DEF Holders
    <3> QED BY <3>1, HoldersFinite, FS_RemoveElement
  <2>5. Cardinality(Holders(a) \ {l}) \in Nat
    BY HoldersFinite, FS_Subset, FS_CardinalityType
  <2>6. slots' \in [LeaseAccounts -> 0..SlotsEach]
    <3>1. slots[a] \in 0..SlotsEach /\ slots[a] - 1 \in Nat
      BY <2>1, <2>4, <2>5 DEF SlotsCounted, LeaseTypeOK
    <3> QED BY <2>1, <3>1, LeaseAssumption DEF LeaseTypeOK
  <2>7. ASSUME NEW b \in LeaseAccounts PROVE slots'[b] = Cardinality(Holders(b)')
    <3>1. CASE b = a
      BY <2>1, <2>4, <3>1 DEF SlotsCounted, LeaseTypeOK
    <3>2. CASE b # a
      <4>1. Holders(b)' = Holders(b)
        BY <2>1, <2>3, <3>2 DEF Holders
      <4> QED BY <2>1, <3>2, <4>1 DEF SlotsCounted, LeaseTypeOK
    <3> QED BY <3>1, <3>2
  <2> QED BY <2>1, <2>2, <2>3, <2>6, <2>7 DEF SlotsCounted, Accounted
<1>2. CASE ~Holds(l)
  <2>1. slots' = slots /\ returned' = returned
    BY <1>2 DEF Returns
  <2>2. Held(l) = {}
    BY <1>2 DEF Holds, Held, Accounted
  <2> QED BY <2>1, <2>2 DEF LeaseTypeOK, SlotsCounted, Holders, Held, Accounted
<1> QED BY <1>1, <1>2

(* Steps that take and return nothing.                                     *)
LEMMA SlotsKept ==
  ASSUME SlotsCounted, UNCHANGED <<slots, took, returned>>
  PROVE  SlotsCounted' /\ \A l \in Leases : Held(l)' = Held(l)
BY DEF SlotsCounted, Holders, Held

(* Popping leases leaves each with the one who popped it.                  *)
LEMMA PopsEffect ==
  ASSUME LeaseTypeOK, NEW more \in SUBSET Leases, Pops(more)
  PROVE  /\ lease' \in [Leases -> {"none", "live", "expired", "gone"}]
         /\ owed' \subseteq Leases /\ owed \subseteq owed'
         /\ \A l \in Leases : \/ lease'[l] = lease[l] /\ l \notin more
                              \/ lease'[l] = "gone" /\ l \in owed' /\ lease[l] = "expired"
                              \/ lease'[l] = "gone" /\ l \in owed' /\ l \in more
BY DEF LeaseTypeOK, Pops

LEMMA PopsExpired ==
  ASSUME LeaseTypeOK, Pops({})
  PROVE  /\ lease' \in [Leases -> {"none", "live", "expired", "gone"}]
         /\ owed' \subseteq Leases /\ owed \subseteq owed'
         /\ \A l \in Leases : \/ lease'[l] = lease[l]
                              \/ lease'[l] = "gone" /\ l \in owed' /\ lease[l] = "expired"
<1>1. {} \in SUBSET Leases
  OBVIOUS
<1>2. /\ lease' \in [Leases -> {"none", "live", "expired", "gone"}]
      /\ owed' \subseteq Leases /\ owed \subseteq owed'
      /\ \A l \in Leases : \/ lease'[l] = lease[l] /\ l \notin {}
                           \/ lease'[l] = "gone" /\ l \in owed' /\ lease[l] = "expired"
                           \/ lease'[l] = "gone" /\ l \in owed' /\ l \in {}
  BY <1>1, PopsEffect
<1> QED BY <1>2

(* A stream of which nothing changes but that its lease may be popped.     *)
LEMMA OthersOwned ==
  ASSUME NEW l \in Leases, Owned(l), Held(l)' = Held(l),
         returned'[l] = returned[l], account'[l] = account[l], took'[l] = took[l],
         switch'[l] = switch[l], prepare'[l] = prepare[l],
         l \in owed => l \in owed', l \in late => l \in late',
         \/ lease'[l] = lease[l]
         \/ lease'[l] = "gone" /\ l \in owed' /\ lease[l] \in {"live", "expired"}
  PROVE  Owned(l)'
BY DEF Owned, Accounted, Owner

-----------------------------------------------------------------------------
(***************************************************************************)
(* The inductive invariant.                                                *)
(***************************************************************************)

LEMMA InitLeaseInv == LeaseInit => LeaseInv
<1> SUFFICES ASSUME LeaseInit PROVE LeaseInv
  OBVIOUS
<1>1. LeaseTypeOK
  BY LeaseAssumption DEF LeaseInit, LeaseTypeOK, Preparations, Switches
<1>2. \A l \in Leases : Held(l) = {}
  BY DEF LeaseInit, Held
<1>3. SlotsCounted
  <2>1. \A a \in LeaseAccounts : Holders(a) = {} /\ slots[a] = 0
    BY <1>2 DEF Holders, LeaseInit
  <2> QED BY <2>1, FS_EmptySet DEF SlotsCounted
<1>4. \A l \in Leases : Owned(l)
  BY <1>2 DEF LeaseInit, Owned, Accounted, Owner
<1> QED BY <1>1, <1>3, <1>4 DEF LeaseInv

(* Steps of one stream l that take and return no slot; the leases in more  *)
(* are popped with it.                                                     *)
LEMMA ControlStep ==
  ASSUME LeaseInv, NEW l \in Leases,
         UNCHANGED <<slots, account, took, returned, late>>,
         prepare' \in [Leases -> Preparations], switch' \in [Leases -> Switches],
         lease' \in [Leases -> {"none", "live", "expired", "gone"}],
         owed' \subseteq Leases, owed \subseteq owed',
         \A k \in Leases \ {l} :
           /\ prepare'[k] = prepare[k] /\ switch'[k] = switch[k]
           /\ \/ lease'[k] = lease[k]
              \/ lease'[k] = "gone" /\ k \in owed' /\ lease[k] = "expired",
         Owned(l)'
  PROVE  LeaseInv'
<1>1. SlotsCounted' /\ \A k \in Leases : Held(k)' = Held(k)
  BY SlotsKept DEF LeaseInv
<1>2. LeaseTypeOK'
  BY DEF LeaseInv, LeaseTypeOK
<1>3. ASSUME NEW k \in Leases \ {l} PROVE Owned(k)'
  BY <1>1, <1>3, OthersOwned DEF LeaseInv
<1> QED BY <1>1, <1>2, <1>3 DEF LeaseInv

(* Steps of one stream l that return its slot.                             *)
LEMMA ReturnStep ==
  ASSUME LeaseInv, NEW l \in Leases, Returns(l), UNCHANGED <<account, took, lease, late>>,
         prepare' \in [Leases -> Preparations], switch' \in [Leases -> Switches],
         owed' \subseteq owed, owed \ {l} \subseteq owed',
         \A k \in Leases \ {l} : prepare'[k] = prepare[k] /\ switch'[k] = switch[k],
         switch'[l] # "idle" => prepare'[l] \in {"busy", "delivered"},
         prepare'[l] = prepare[l] \/ prepare'[l] = "over"
  PROVE  LeaseInv'
<1> USE DEF LeaseInv
<1>1. /\ slots' \in [LeaseAccounts -> 0..SlotsEach]
      /\ returned' \in [Leases -> SUBSET LeaseAccounts]
      /\ SlotsCounted'
      /\ returned'[l] \subseteq took[l] /\ Held(l)' = {}
      /\ \A k \in Leases \ {l} : returned'[k] = returned[k] /\ Held(k)' = Held(k)
  BY ReturnsEffect DEF Owned
<1>2. LeaseTypeOK'
  BY <1>1 DEF LeaseTypeOK
<1>3. ASSUME NEW k \in Leases \ {l} PROVE Owned(k)'
  BY <1>1, <1>3, OthersOwned
<1>4. Owned(l)'
  BY <1>1 DEF Owned, Accounted, Owner
<1> QED BY <1>1, <1>2, <1>3, <1>4

(* Steps of one stream l that take a slot while it holds none.             *)
LEMMA TakeStep ==
  ASSUME LeaseInv, NEW l \in Leases, NEW a \in LeaseAccounts \ took[l],
         Takes(l, a), Held(l) = {},
         UNCHANGED <<returned, lease, owed>>,
         prepare' \in [Leases -> Preparations], switch' \in [Leases -> Switches],
         late' \subseteq Leases, late \subseteq late',
         \A k \in Leases \ {l} : prepare'[k] = prepare[k] /\ switch'[k] = switch[k],
         prepare'[l] \in {"busy", "delivered"}, switch'[l] # "waiting",
         prepare'[l] = "busy" => lease[l] = "none",
         prepare'[l] = "delivered" => lease[l] # "none",
         lease[l] = "gone" => l \in late'
  PROVE  LeaseInv'
<1> USE DEF LeaseInv
<1>1. /\ slots' \in [LeaseAccounts -> 0..SlotsEach]
      /\ account' \in [Leases -> LeaseAccounts \cup {NoAccount}]
      /\ took' \in [Leases -> SUBSET LeaseAccounts]
      /\ SlotsCounted'
      /\ account'[l] = a /\ took'[l] = took[l] \cup {a} /\ Held(l)' = {a}
      /\ \A k \in Leases \ {l} : /\ account'[k] = account[k] /\ took'[k] = took[k]
                                 /\ Held(k)' = Held(k)
  BY TakesEffect DEF Owned
<1>2. LeaseTypeOK'
  BY <1>1 DEF LeaseTypeOK
<1>3. ASSUME NEW k \in Leases \ {l} PROVE Owned(k)'
  BY <1>1, <1>3, OthersOwned
<1>4. Owned(l)'
  <2>1. lease'[l] \in {"none", "live", "expired", "gone"}
    BY <1>2 DEF LeaseTypeOK
  <2>2. returned'[l] \subseteq took'[l] /\ a # NoAccount
    BY <1>1, LeaseAssumption DEF Owned, Accounted
  <2> QED BY <1>1, <2>1, <2>2 DEF Owned, Accounted, Owner
<1> QED BY <1>1, <1>2, <1>3, <1>4

(* Steps in which leases may be popped.                                    *)
LEMMA PopSteps ==
  ASSUME LeaseInv, NEW l \in Leases,
         PrepareArrives(l) \/ DeliveryFails(l) \/ HoldStreamLease(l)
           \/ ReleaseLease(l) \/ SwitchArrives(l)
  PROVE  LeaseInv'
<1> USE DEF LeaseInv
<1>1. CASE PrepareArrives(l)
  <2>1. /\ prepare[l] = "new" /\ prepare' = [prepare EXCEPT ![l] = "queued"] /\ Pops({})
        /\ UNCHANGED <<slots, account, took, returned, switch, late>>
    BY <1>1 DEF PrepareArrives, Prepares
  <2>2. lease[l] = "none" /\ Held(l) = {}
    BY <2>1 DEF Owned, Accounted, Held
  <2>3. /\ lease' \in [Leases -> {"none", "live", "expired", "gone"}]
        /\ owed' \subseteq Leases /\ owed \subseteq owed'
        /\ \A k \in Leases : \/ lease'[k] = lease[k]
                             \/ lease'[k] = "gone" /\ k \in owed' /\ lease[k] = "expired"
    BY <2>1, PopsExpired
  <2>4. Held(l)' = {} /\ lease'[l] = "none" /\ prepare'[l] = "queued"
    BY <2>1, <2>2, <2>3 DEF Held, LeaseTypeOK
  <2>5. Owned(l)'
    BY <2>1, <2>2, <2>4 DEF Owned, Accounted, Owner
  <2> QED BY <2>1, <2>3, <2>5, ControlStep DEF LeaseTypeOK, Preparations
<1>2. CASE DeliveryFails(l)
  <2>1. /\ prepare[l] = "held" /\ prepare' = [prepare EXCEPT ![l] = "failed"]
        /\ UNCHANGED <<slots, account, took, returned, switch, late>>
    BY <1>2 DEF DeliveryFails, Prepares
  <2>2. /\ lease' \in [Leases -> {"none", "live", "expired", "gone"}]
        /\ owed' \subseteq Leases /\ owed \subseteq owed' /\ lease'[l] = "gone"
        /\ \A k \in Leases \ {l} :
              \/ lease'[k] = lease[k]
              \/ lease'[k] = "gone" /\ k \in owed' /\ lease[k] = "expired"
    BY <1>2 DEF DeliveryFails, LeaseTypeOK
  <2>3. Held(l)' = Held(l) /\ prepare'[l] = "failed"
    BY <2>1 DEF Held, LeaseTypeOK
  <2>4. Owned(l)'
    BY <2>1, <2>2, <2>3 DEF Owned, Accounted, Owner
  <2> QED BY <2>1, <2>2, <2>4, ControlStep DEF LeaseTypeOK, Preparations
<1>3. CASE HoldStreamLease(l)
  <2>1. /\ prepare[l] = "busy" /\ switch[l] = "idle"
        /\ prepare' = [prepare EXCEPT ![l] = "held"]
        /\ UNCHANGED <<slots, account, took, returned, switch, late>>
    BY <1>3 DEF HoldStreamLease, Prepares
  <2>2. /\ lease' \in [Leases -> {"none", "live", "expired", "gone"}]
        /\ owed' \subseteq Leases /\ owed \subseteq owed' /\ lease'[l] = "live"
        /\ \A k \in Leases \ {l} :
              \/ lease'[k] = lease[k]
              \/ lease'[k] = "gone" /\ k \in owed' /\ lease[k] = "expired"
    <3>1. /\ lease' = [k \in Leases |->
                        CASE k = l -> "live"
                          [] k \in {j \in Leases : lease[j] = "expired"} -> "gone"
                          [] OTHER -> lease[k]]
          /\ owed' = owed \cup {j \in Leases : lease[j] = "expired"}
      BY <1>3 DEF HoldStreamLease
    <3>2. lease[l] = "none" /\ lease'[l] = "live"
      BY <2>1, <3>1 DEF Owned, Accounted
    <3>3. ASSUME NEW k \in Leases \ {l}
          PROVE  \/ lease'[k] = lease[k] /\ lease[k] # "expired"
                 \/ lease'[k] = "gone" /\ k \in owed' /\ lease[k] = "expired"
      <4>1. CASE lease[k] = "expired"
        BY <3>1, <4>1
      <4>2. CASE lease[k] # "expired"
        BY <3>1, <4>2
      <4> QED BY <4>1, <4>2
    <3>4. lease' \in [Leases -> {"none", "live", "expired", "gone"}]
      <4>1. \A k \in Leases : lease'[k] \in {"none", "live", "expired", "gone"}
        BY <3>2, <3>3 DEF LeaseTypeOK
      <4> QED BY <3>1, <4>1
    <3> QED BY <3>1, <3>2, <3>3, <3>4 DEF LeaseTypeOK
  <2>3. Held(l)' = Held(l) /\ prepare'[l] = "held"
    BY <2>1 DEF Held, LeaseTypeOK
  <2>4. Owned(l)'
    BY <2>1, <2>2, <2>3 DEF Owned, Accounted, Owner
  <2> QED BY <2>1, <2>2, <2>4, ControlStep DEF LeaseTypeOK, Preparations
<1>4. CASE ReleaseLease(l)
  <2>1. /\ prepare[l] = "delivered" /\ Pops({l})
        /\ UNCHANGED <<slots, account, took, returned, prepare, switch, late>>
    BY <1>4 DEF ReleaseLease
  <2>2. /\ lease' \in [Leases -> {"none", "live", "expired", "gone"}]
        /\ owed' \subseteq Leases /\ owed \subseteq owed'
        /\ lease'[l] = "gone" /\ l \in owed'
        /\ \A k \in Leases \ {l} :
              \/ lease'[k] = lease[k]
              \/ lease'[k] = "gone" /\ k \in owed' /\ lease[k] = "expired"
    BY <2>1, PopsEffect
  <2>3. Held(l)' = Held(l)
    BY <2>1 DEF Held
  <2>4. Owned(l)'
    BY <2>1, <2>2, <2>3 DEF Owned, Accounted, Owner
  <2> QED BY <2>1, <2>2, <2>4, ControlStep DEF LeaseTypeOK
<1>5. CASE SwitchArrives(l)
  <2>1. /\ prepare[l] = "delivered" /\ switch[l] = "idle" /\ lease[l] = "live" /\ Pops({})
        /\ switch' = [switch EXCEPT ![l] = "recover"]
        /\ UNCHANGED <<slots, account, took, returned, prepare, late>>
    BY <1>5 DEF SwitchArrives, SwitchesTo
  <2>2. /\ lease' \in [Leases -> {"none", "live", "expired", "gone"}]
        /\ owed' \subseteq Leases /\ owed \subseteq owed'
        /\ \A k \in Leases : \/ lease'[k] = lease[k]
                             \/ lease'[k] = "gone" /\ k \in owed' /\ lease[k] = "expired"
    BY <2>1, PopsExpired
  <2>3. Held(l)' = Held(l) /\ switch'[l] = "recover" /\ lease'[l] = "live"
    BY <2>1, <2>2 DEF Held, LeaseTypeOK
  <2>4. Owned(l)'
    BY <2>1, <2>2, <2>3 DEF Owned, Accounted, Owner
  <2> QED BY <2>1, <2>2, <2>4, ControlStep DEF LeaseTypeOK, Switches
<1> QED BY <1>1, <1>2, <1>3, <1>4, <1>5

(* Steps that only move a handler, or let a lease expire.                  *)
LEMMA MoveSteps ==
  ASSUME LeaseInv, NEW l \in Leases,
         \/ Expire(l) \/ PreparationFails(l) \/ Deliver(l)
         \/ Recovers(l) \/ Refreshed(l) \/ NoneFound(l) \/ TokenReady(l) \/ SwitchEnds(l)
  PROVE  LeaseInv'
<1> USE DEF LeaseInv
<1>1. UNCHANGED <<slots, account, took, returned, owed, late>> /\ Held(l)' = Held(l)
  BY DEF Expire, PreparationFails, Deliver, Recovers, Refreshed, NoneFound, TokenReady,
         SwitchEnds, Held
<1>2. CASE Expire(l)
  <2>1. /\ lease[l] = "live" /\ lease' = [lease EXCEPT ![l] = "expired"]
        /\ prepare' = prepare /\ switch' = switch
    BY <1>2 DEF Expire
  <2>2. Owned(l)'
    BY <1>1, <2>1 DEF Owned, Accounted, Owner, LeaseTypeOK
  <2> QED BY <1>1, <2>1, <2>2, ControlStep DEF LeaseTypeOK
<1>3. CASE PreparationFails(l) \/ Deliver(l)
  <2>1. PICK place \in {"failed", "delivered"} :
          /\ prepare' = [prepare EXCEPT ![l] = place] /\ lease' = lease /\ switch' = switch
          /\ prepare[l] = IF place = "failed" THEN "busy" ELSE "held"
          /\ place = "failed" => switch[l] = "idle"
    BY <1>3 DEF PreparationFails, Deliver, Prepares
  <2>2. prepare'[l] = place
    BY <2>1 DEF LeaseTypeOK
  <2>3. Owned(l)'
    BY <1>1, <2>1, <2>2 DEF Owned, Accounted, Owner, LeaseTypeOK
  <2> QED BY <1>1, <2>1, <2>3, ControlStep DEF LeaseTypeOK, Preparations
<1>4. CASE Recovers(l) \/ Refreshed(l) \/ NoneFound(l) \/ TokenReady(l) \/ SwitchEnds(l)
  <2>1. PICK place \in {"recover", "payload", "idle"} :
          /\ switch' = [switch EXCEPT ![l] = place] /\ lease' = lease /\ prepare' = prepare
          /\ place # "idle" => switch[l] # "idle" \/ prepare[l] = "busy"
    BY <1>4 DEF Recovers, Refreshed, NoneFound, TokenReady, SwitchEnds, SwitchesTo
  <2>2. switch'[l] = place
    BY <2>1 DEF LeaseTypeOK
  <2>3. Owned(l)'
    BY <1>1, <2>1, <2>2 DEF Owned, Accounted, Owner
  <2> QED BY <1>1, <2>1, <2>3, ControlStep DEF LeaseTypeOK, Switches
<1> QED BY <1>2, <1>3, <1>4

(* Steps that return a slot, if the stream still holds one.                *)
LEMMA ReturnSteps ==
  ASSUME LeaseInv, NEW l \in Leases,
         ReleaseOwed(l) \/ PrepareReleases(l) \/ GiveUpOld(l) \/ TokenFails(l)
  PROVE  LeaseInv'
<1> USE DEF LeaseInv
<1>1. CASE ReleaseOwed(l)
  BY <1>1, ReturnStep DEF ReleaseOwed, LeaseTypeOK, Owned, Accounted
<1>2. CASE PrepareReleases(l)
  <2>1. switch[l] = "idle"
    BY <1>2 DEF PrepareReleases, Owned, Accounted
  <2> QED BY <1>2, <2>1, ReturnStep DEF PrepareReleases, Prepares, LeaseTypeOK, Preparations
<1>3. CASE GiveUpOld(l)
  <2>1. switch[l] = "recover" /\ prepare[l] \in {"busy", "delivered"}
    BY <1>3 DEF GiveUpOld, Owned, Accounted
  <2>2. CASE MaySwitch(l)
    BY <1>3, <2>1, <2>2, ReturnStep DEF GiveUpOld, SwitchesTo, LeaseTypeOK, Switches
  <2>3. CASE ~MaySwitch(l)
    <3>1. /\ switch' = [switch EXCEPT ![l] = "idle"]
          /\ UNCHANGED <<slots, account, took, returned, prepare, lease, owed, late>>
      BY <1>3, <2>3 DEF GiveUpOld, SwitchesTo
    <3>2. Owned(l)'
      BY <3>1 DEF Owned, Accounted, Owner, Held, LeaseTypeOK
    <3> QED BY <3>1, <3>2, ControlStep DEF LeaseTypeOK, Switches
  <2> QED BY <2>2, <2>3
<1>4. CASE TokenFails(l)
  <2>1. switch[l] = "token" /\ prepare[l] \in {"busy", "delivered"}
    BY <1>4 DEF TokenFails, Owned, Accounted
  <2> QED BY <1>4, <2>1, ReturnStep DEF TokenFails, SwitchesTo, LeaseTypeOK, Switches
<1> QED BY <1>1, <1>2, <1>3, <1>4

LEMMA DetermineStep == ASSUME LeaseInv, NEW l \in Leases, Determine(l) PROVE LeaseInv'
<1> USE DEF LeaseInv
<1>1. /\ prepare[l] = "queued" /\ took[l] = {} /\ Held(l) = {} /\ lease[l] = "none"
      /\ switch[l] = "idle"
  BY DEF Determine, Owned, Accounted, Held
<1>2. CASE \E a \in LeaseAccounts : Takes(l, a) /\ Prepares(l, "busy")
  <2>1. PICK a \in LeaseAccounts : Takes(l, a) /\ Prepares(l, "busy")
    BY <1>2
  <2>2. a \in LeaseAccounts \ took[l] /\ UNCHANGED <<returned, lease, owed, switch, late>>
    BY <1>1, <2>1 DEF Determine
  <2>3. /\ prepare' \in [Leases -> Preparations] /\ prepare'[l] = "busy"
        /\ \A k \in Leases \ {l} : prepare'[k] = prepare[k]
    BY <2>1 DEF Prepares, LeaseTypeOK, Preparations
  <2> QED BY <1>1, <2>1, <2>2, <2>3, TakeStep DEF LeaseTypeOK
<1>3. CASE Prepares(l, "over") /\ UNCHANGED <<slots, account, took>>
  <2>1. /\ prepare' \in [Leases -> Preparations] /\ prepare'[l] = "over"
        /\ \A k \in Leases \ {l} : prepare'[k] = prepare[k]
    BY <1>3 DEF Prepares, LeaseTypeOK, Preparations
  <2>2. UNCHANGED <<slots, account, took, returned, lease, owed, switch, late>>
    BY <1>3 DEF Determine
  <2>3. Owned(l)'
    BY <1>1, <2>1, <2>2 DEF Owned, Accounted, Owner, Held
  <2> QED BY <2>1, <2>2, <2>3, ControlStep DEF LeaseTypeOK
<1> QED BY <1>2, <1>3 DEF Determine

LEMMA AcquireStep == ASSUME LeaseInv, NEW l \in Leases, AcquireNew(l) PROVE LeaseInv'
<1> USE DEF LeaseInv
<1>1. /\ switch[l] = "waiting" /\ Held(l) = {} /\ prepare[l] \in {"busy", "delivered"}
      /\ prepare[l] = "busy" => lease[l] = "none"
      /\ prepare[l] = "delivered" => lease[l] # "none"
  BY DEF AcquireNew, Owned, Accounted
<1>2. PICK a \in LeaseAccounts \ took[l] : Takes(l, a)
  BY DEF AcquireNew
<1>3. /\ switch' \in [Leases -> Switches] /\ switch'[l] = "token"
      /\ \A k \in Leases \ {l} : switch'[k] = switch[k]
  BY DEF AcquireNew, SwitchesTo, LeaseTypeOK, Switches
<1>4. /\ UNCHANGED <<returned, prepare, lease, owed>>
      /\ late' \subseteq Leases /\ late \subseteq late'
      /\ (lease[l] = "gone" => l \in late')
  <2>1. CASE lease[l] = "gone"
    BY <2>1 DEF AcquireNew, LeaseTypeOK
  <2>2. CASE lease[l] # "gone"
    BY <2>2 DEF AcquireNew, LeaseTypeOK
  <2> QED BY <2>1, <2>2
<1> QED BY <1>1, <1>2, <1>3, <1>4, TakeStep DEF LeaseTypeOK

LEMMA SweepStep == ASSUME LeaseInv, Sweep PROVE LeaseInv'
<1> USE DEF LeaseInv
<1>1. Pops({}) /\ UNCHANGED <<slots, account, took, returned, prepare, switch, late>>
  BY DEF Sweep
<1>2. /\ lease' \in [Leases -> {"none", "live", "expired", "gone"}]
      /\ owed' \subseteq Leases /\ owed \subseteq owed'
      /\ \A k \in Leases : \/ lease'[k] = lease[k]
                           \/ lease'[k] = "gone" /\ k \in owed' /\ lease[k] = "expired"
  BY <1>1, PopsExpired
<1>3. SlotsCounted' /\ \A k \in Leases : Held(k)' = Held(k)
  BY <1>1, SlotsKept
<1>4. LeaseTypeOK'
  BY <1>1, <1>2 DEF LeaseTypeOK
<1>5. ASSUME NEW k \in Leases PROVE Owned(k)'
  BY <1>1, <1>2, <1>3, OthersOwned
<1> QED BY <1>3, <1>4, <1>5

LEMMA LeaseInvStep == ASSUME LeaseInv, [LeaseNext]_leaseVars PROVE LeaseInv'
<1>1. CASE Sweep
  BY <1>1, SweepStep
<1>2. ASSUME NEW l \in Leases,
             PrepareArrives(l) \/ DeliveryFails(l) \/ HoldStreamLease(l)
               \/ ReleaseLease(l) \/ SwitchArrives(l)
      PROVE  LeaseInv'
  BY <1>2, PopSteps
<1>3. ASSUME NEW l \in Leases,
             \/ Expire(l) \/ PreparationFails(l) \/ Deliver(l)
             \/ Recovers(l) \/ Refreshed(l) \/ NoneFound(l) \/ TokenReady(l)
             \/ SwitchEnds(l)
      PROVE  LeaseInv'
  BY <1>3, MoveSteps
<1>4. ASSUME NEW l \in Leases,
             ReleaseOwed(l) \/ PrepareReleases(l) \/ GiveUpOld(l) \/ TokenFails(l)
      PROVE  LeaseInv'
  BY <1>4, ReturnSteps
<1>5. ASSUME NEW l \in Leases, Determine(l) \/ AcquireNew(l) PROVE LeaseInv'
  BY <1>5, DetermineStep, AcquireStep
<1>6. CASE UNCHANGED leaseVars
  BY <1>6 DEF leaseVars, LeaseInv, LeaseTypeOK, SlotsCounted, Holders, Held, Owned, Accounted,
              Owner
<1> QED BY <1>1, <1>2, <1>3, <1>4, <1>5, <1>6 DEF LeaseNext

(* Every slot the pool counts is a stream's, and whoever is to return it   *)
(* is known, for any number of streams, accounts and slots: only a switch  *)
(* that outlives its lease keeps one.                                      *)
THEOREM SlotsOwnedHolds == LeaseSpec => []SlotsOwned
<1>1. LeaseInv => SlotsOwned
  BY DEF LeaseInv, SlotsOwned, SlotsCounted, Holders, Owned, Accounted, Owner
<1> QED BY InitLeaseInv, LeaseInvStep, <1>1, PTL DEF LeaseSpec

-----------------------------------------------------------------------------
(***************************************************************************)
(* KEEP-ALIVE PINGS                                                        *)
(***************************************************************************)

PingEntry == [known : BOOLEAN, active : BOOLEAN, job : Jobs \cup {NoJob},
          retries : 0..MaxRetries]
JobPlaces == {"free"} \cup Windows \cup Counted
PingJob == [at : JobPlaces, of : PingAccounts]

(* The jobs that have an account's window, and whether the entry knows.    *)
WindowJobs(a) == {j \in Jobs : jobs[j].of = a /\ jobs[j].at \in Windows}
EntryFits(a) == WindowJobs(a) = IF timers[a].active THEN {timers[a].job} ELSE {}

LEMMA Restated ==
  OneWindowPerAccount <=> /\ shutdown = "open" => \A a \in PingAccounts : EntryFits(a)
                          /\ shutdown = "closed" => \A j \in Jobs : jobs[j].at \notin Counted
BY DEF OneWindowPerAccount, EntryFits, WindowJobs

PingInv == KeepAliveTypeOK /\ OneWindowPerAccount

-----------------------------------------------------------------------------
(***************************************************************************)
(* Helpers.                                                                *)
(***************************************************************************)

LEMMA EntriesAreTyped ==
  NoEntry \in PingEntry /\ Idle \in PingEntry /\ ~NoEntry.active /\ ~Idle.active
<1>1. NoEntry = [known |-> FALSE, active |-> FALSE, job |-> NoJob, retries |-> 0]
  BY DEF NoEntry
<1>2. TRUE \in BOOLEAN /\ FALSE \in BOOLEAN
  BY Zenon
<1>3. NoEntry \in PingEntry /\ ~NoEntry.active
  BY <1>1, <1>2 DEF PingEntry, MaxRetries
<1>4. Idle \in PingEntry /\ Idle.active = NoEntry.active
  BY <1>2, <1>3 DEF Idle, PingEntry
<1> QED BY <1>3, <1>4

LEMMA PlacesDiffer ==
  /\ Windows \subseteq JobPlaces /\ Counted \subseteq JobPlaces
  /\ {"free", "reset", "armed"} \subseteq JobPlaces
  /\ "free" \notin Windows /\ "reset" \notin Windows
  /\ "free" \notin Counted /\ "armed" \notin Counted /\ "due" \notin Counted
BY DEF JobPlaces, Windows, Counted

(* A job that has a window is the one its account's entry names, and its   *)
(* account is known to be active.                                          *)
LEMMA WindowNamed ==
  ASSUME KeepAliveTypeOK, OneWindowPerAccount, shutdown = "open",
         NEW j \in Jobs, jobs[j].at \in Windows
  PROVE  /\ jobs[j].of \in PingAccounts
         /\ timers[jobs[j].of].active /\ timers[jobs[j].of].job = j
         /\ WindowJobs(jobs[j].of) = {j}
<1>1. jobs[j].of \in PingAccounts /\ EntryFits(jobs[j].of)
  BY Restated DEF KeepAliveTypeOK
<1>2. j \in WindowJobs(jobs[j].of)
  BY DEF WindowJobs
<1> QED BY <1>1, <1>2 DEF EntryFits

(* Stopping timers, and moving one job, change nothing else.               *)
LEMMA HaltedJobs ==
  ASSUME KeepAliveTypeOK, NEW halt, NEW i \in Jobs
  PROVE  /\ Halted(jobs, halt) \in [Jobs -> PingJob]
         /\ Halted(jobs, halt)[i].of = jobs[i].of
         /\ \/ Halted(jobs, halt)[i] = jobs[i]
            \/ i \in halt /\ jobs[i].at = "armed" /\ Halted(jobs, halt)[i].at = "free"
BY DEF KeepAliveTypeOK, Halted, PingJob, JobPlaces

LEMMA MovedJobs ==
  ASSUME NEW js \in [Jobs -> PingJob], NEW j \in Jobs, NEW place \in JobPlaces
  PROVE  /\ Moved(js, j, place) \in [Jobs -> PingJob]
         /\ Moved(js, j, place)[j].at = place /\ Moved(js, j, place)[j].of = js[j].of
         /\ \A i \in Jobs \ {j} : Moved(js, j, place)[i] = js[i]
BY DEF Moved, PingJob

-----------------------------------------------------------------------------
(***************************************************************************)
(* The steps of a job: it keeps its window, or gives it up together with   *)
(* its account's entry.                                                    *)
(***************************************************************************)

LEMMA Keeps ==
  ASSUME PingInv, NEW j \in Jobs, NEW place \in Windows, jobs[j].at \in Windows,
         jobs' = Moved(jobs, j, place), UNCHANGED <<timers, pingsOn, standing, shutdown>>,
         shutdown = "closed" => place \notin Counted
  PROVE  PingInv'
<1> USE DEF PingInv
<1>1. jobs \in [Jobs -> PingJob]
  BY DEF KeepAliveTypeOK, PingJob, JobPlaces
<1>2. /\ jobs' \in [Jobs -> PingJob]
      /\ jobs'[j].at = place /\ jobs'[j].of = jobs[j].of
      /\ \A i \in Jobs \ {j} : jobs'[i] = jobs[i]
  BY <1>1, MovedJobs, PlacesDiffer
<1>3. KeepAliveTypeOK'
  BY <1>2 DEF KeepAliveTypeOK, PingJob, JobPlaces
<1>4. ASSUME NEW a \in PingAccounts PROVE WindowJobs(a)' = WindowJobs(a)
  BY <1>2 DEF WindowJobs
<1>5. OneWindowPerAccount'
  BY <1>2, <1>4, Restated DEF OneWindowPerAccount, WindowJobs
<1> QED BY <1>3, <1>5

LEMMA GivesUp ==
  ASSUME PingInv, NEW j \in Jobs, jobs[j].at \in Windows, NEW entry \in PingEntry, ~entry.active,
         NEW place \in {"free", "reset"},
         timers' = [timers EXCEPT ![jobs[j].of] = entry],
         jobs' = Moved(Halted(jobs, {timers[jobs[j].of].job}), j, place),
         UNCHANGED <<pingsOn, standing, shutdown>>,
         shutdown = "closed" => place = "free"
  PROVE  PingInv'
<1> USE DEF PingInv
<1> DEFINE a == jobs[j].of
           halted == Halted(jobs, {timers[a].job})
<1>1. halted \in [Jobs -> PingJob] /\ a \in PingAccounts
  BY HaltedJobs DEF KeepAliveTypeOK, PingJob, JobPlaces
<1>2. /\ \A i \in Jobs : halted[i].of = jobs[i].of
      /\ \A i \in Jobs : halted[i] = jobs[i] \/ (i = timers[a].job /\ halted[i].at = "free")
  BY HaltedJobs
<1>0. jobs' = Moved(halted, j, place) /\ place \in JobPlaces
  BY PlacesDiffer
<1> HIDE DEF halted
<1>3. /\ jobs' \in [Jobs -> PingJob]
      /\ jobs'[j].at = place /\ jobs'[j].of = a
      /\ \A i \in Jobs \ {j} : jobs'[i] = halted[i]
  <2>1. /\ Moved(halted, j, place) \in [Jobs -> PingJob]
        /\ Moved(halted, j, place)[j].at = place
        /\ Moved(halted, j, place)[j].of = halted[j].of
        /\ \A i \in Jobs \ {j} : Moved(halted, j, place)[i] = halted[i]
    BY <1>0, <1>1, MovedJobs
  <2> QED BY <1>0, <1>2, <2>1
<1>4. KeepAliveTypeOK'
  <2>1. timers' \in [PingAccounts -> PingEntry]
    BY <1>1 DEF KeepAliveTypeOK, PingEntry
  <2> QED BY <1>3, <2>1 DEF KeepAliveTypeOK, PingEntry, PingJob, JobPlaces
<1>5. ASSUME shutdown = "open", NEW b \in PingAccounts PROVE EntryFits(b)'
  <2>1. timers[a].active /\ timers[a].job = j /\ WindowJobs(a) = {j}
    BY <1>5, WindowNamed
  <2>2. \A i \in Jobs \ {j} : jobs'[i] = jobs[i]
    <3>1. \A i \in Jobs \ {j} : jobs'[i] = halted[i]
      BY <1>3
    <3>2. \A i \in Jobs \ {j} : halted[i] = jobs[i]
      BY <1>2, <2>1
    <3> QED BY <3>1, <3>2
  <2>3. place \notin Windows
    BY PlacesDiffer
  <2>4. CASE b = a
    <3>1. WindowJobs(b)' = {}
      <4>1. ASSUME NEW i \in WindowJobs(b)' PROVE FALSE
        <5>1. i \in Jobs /\ i # j
          BY <1>3, <2>3, <4>1 DEF WindowJobs
        <5>2. i \in WindowJobs(a)
          BY <2>2, <2>4, <4>1, <5>1 DEF WindowJobs
        <5> QED BY <2>1, <5>1, <5>2
      <4> QED BY <4>1
    <3>2. timers'[b] = entry
      BY <1>1, <2>4 DEF KeepAliveTypeOK
    <3> QED BY <3>1, <3>2 DEF EntryFits
  <2>5. CASE b # a
    <3>1. WindowJobs(b)' = WindowJobs(b)
      BY <1>3, <2>2, <2>5 DEF WindowJobs
    <3>2. timers'[b] = timers[b]
      BY <2>5 DEF KeepAliveTypeOK
    <3> QED BY <1>5, <3>1, <3>2, Restated DEF EntryFits
  <2> QED BY <2>4, <2>5
<1>6. ASSUME shutdown = "closed", NEW i \in Jobs PROVE jobs'[i].at \notin Counted
  <2>1. CASE i = j
    BY <1>3, <1>6, <2>1, PlacesDiffer
  <2>2. CASE i # j
    <3>1. jobs'[i] = halted[i] /\ jobs[i].at \notin Counted
      BY <1>3, <1>6, <2>2 DEF OneWindowPerAccount
    <3> QED BY <1>2, <3>1, PlacesDiffer
  <2> QED BY <2>1, <2>2
<1>7. OneWindowPerAccount'
  BY <1>5, <1>6 DEF OneWindowPerAccount, EntryFits, WindowJobs
<1> QED BY <1>4, <1>7

(* After Close has returned nobody is there to take these steps.           *)
LEMMA NoneLeft ==
  ASSUME PingInv, NEW j \in Jobs, jobs[j].at \in Counted
  PROVE  shutdown # "closed"
BY DEF PingInv, OneWindowPerAccount

LEMMA ResetStep ==
  ASSUME PingInv, NEW j \in Jobs, jobs[j].at \in Windows, NEW place \in {"free", "reset"},
         ResetTo(j, place), UNCHANGED <<pingsOn, standing, shutdown>>,
         shutdown = "closed" => place = "free"
  PROVE  PingInv'
<1> DEFINE entry == IF timers[jobs[j].of].known THEN Idle ELSE NoEntry
<1>1. entry \in PingEntry /\ ~entry.active
  BY EntriesAreTyped
<1>2. /\ timers' = [timers EXCEPT ![jobs[j].of] = entry]
      /\ jobs' = Moved(Halted(jobs, {timers[jobs[j].of].job}), j, place)
  BY DEF ResetTo
<1> HIDE DEF entry
<1> QED BY <1>1, <1>2, GivesUp

LEMMA BusyStep == ASSUME PingInv, NEW j \in Jobs, Busy(j) PROVE PingInv'
<1> USE DEF PingInv
<1> DEFINE a == jobs[j].of
           tries == IF timers[a].retries < MaxRetries THEN timers[a].retries + 1
                    ELSE timers[a].retries
<1>1. jobs[j].at = "found" /\ jobs[j].at \in Windows /\ jobs[j].at \in Counted
  BY DEF Busy, At, Windows, Counted
<1>2. CASE RetriesLeft(timers[a])
  <2>1. shutdown = "open" /\ a \in PingAccounts /\ timers[a].job = j
    BY <1>1, <1>2, WindowNamed DEF RetriesLeft
  <2>2. timers[a] \in PingEntry /\ tries \in 0..MaxRetries
    BY <2>1 DEF KeepAliveTypeOK, PingEntry, MaxRetries
  <2>3. /\ timers' = [timers EXCEPT ![a] = [timers[a] EXCEPT !.job = j, !.retries = tries]]
        /\ jobs' = Moved(jobs, j, "armed") /\ UNCHANGED <<pingsOn, standing, shutdown>>
    BY <1>2 DEF Busy
  <2> HIDE DEF tries
  <2>4. /\ timers' \in [PingAccounts -> PingEntry]
        /\ \A b \in PingAccounts : /\ timers'[b].active = timers[b].active
                                   /\ timers'[b].job = timers[b].job
    BY <2>1, <2>2, <2>3 DEF KeepAliveTypeOK, PingEntry
  <2>5. /\ jobs' \in [Jobs -> PingJob]
        /\ jobs'[j].at = "armed" /\ jobs'[j].of = a
        /\ \A i \in Jobs \ {j} : jobs'[i] = jobs[i]
    <3>1. jobs \in [Jobs -> PingJob]
      BY DEF KeepAliveTypeOK, PingJob, JobPlaces
    <3> QED BY <2>3, <3>1, MovedJobs, PlacesDiffer
  <2>6. KeepAliveTypeOK'
    BY <2>3, <2>4, <2>5 DEF KeepAliveTypeOK, PingEntry, PingJob, JobPlaces
  <2>7. ASSUME NEW b \in PingAccounts PROVE EntryFits(b)'
    <3>1. WindowJobs(b)' = WindowJobs(b)
      BY <1>1, <2>5 DEF WindowJobs, Windows
    <3> QED BY <2>1, <2>4, <3>1, Restated DEF EntryFits
  <2>8. OneWindowPerAccount'
    BY <2>1, <2>3, <2>7 DEF OneWindowPerAccount, EntryFits, WindowJobs
  <2> QED BY <2>6, <2>8
<1>3. CASE ~RetriesLeft(timers[a])
  <2>1. ResetTo(j, "free") /\ UNCHANGED <<pingsOn, standing, shutdown>>
    BY <1>3 DEF Busy
  <2> QED BY <1>1, <2>1, ResetStep
<1> QED BY <1>2, <1>3

LEMMA FindStep == ASSUME PingInv, NEW j \in Jobs, FindAccount(j) PROVE PingInv'
<1> DEFINE a == jobs[j].of
<1>1. jobs[j].at = "enabled" /\ jobs[j].at \in Windows /\ jobs[j].at \in Counted
  BY DEF FindAccount, At, Windows, Counted
<1>2. UNCHANGED <<pingsOn, standing, shutdown>> /\ shutdown # "closed"
  BY <1>1, NoneLeft DEF FindAccount
<1>3. CASE standing[a] = "missing"
  <2>1. /\ timers' = [timers EXCEPT ![a] = NoEntry]
        /\ jobs' = Moved(Halted(jobs, {timers[a].job}), j, "free")
    BY <1>3 DEF FindAccount, ForgetAccount
  <2> QED BY <1>1, <1>2, <2>1, EntriesAreTyped, GivesUp
<1>4. CASE standing[a] = "off"
  <2>1. ResetTo(j, "free")
    BY <1>4 DEF FindAccount, Skipped
  <2> QED BY <1>1, <1>2, <2>1, ResetStep
<1>5. CASE standing[a] \notin {"missing", "off"}
  <2>1. jobs' = Moved(jobs, j, "found") /\ timers' = timers /\ "found" \in Windows
    BY <1>5 DEF FindAccount, MovesTo, Windows
  <2> QED BY <1>1, <1>2, <2>1, Keeps
<1> QED BY <1>3, <1>4, <1>5

LEMMA JobStep == ASSUME PingInv, NEW j \in Jobs, JobSteps(j) PROVE PingInv'
<1> USE DEF PingInv
<1>1. CASE Fire(j)
  <2>1. jobs[j].at \in Windows /\ "due" \in Windows
    BY <1>1 DEF Fire, At, Windows
  <2> QED BY <1>1, <2>1, Keeps, PlacesDiffer DEF Fire
<1>2. CASE Start(j)
  <2>1. jobs[j].at = "due" /\ jobs[j].at \in Windows /\ "counted" \in Windows
    BY <1>2 DEF Start, At, Windows
  <2>2. CASE shutdown = "open"
    <3>1. jobs' = Moved(jobs, j, "counted") /\ UNCHANGED <<timers, pingsOn, standing, shutdown>>
      BY <1>2, <2>2 DEF Start, Starts
    <3> QED BY <2>1, <2>2, <3>1, Keeps
  <2>3. CASE shutdown # "open"
    <3>1. jobs' = Moved(jobs, j, "free") /\ UNCHANGED <<timers, pingsOn, standing, shutdown>>
      BY <1>2, <2>3 DEF Start, Starts
    <3>2. jobs \in [Jobs -> PingJob]
      BY DEF KeepAliveTypeOK, PingJob, JobPlaces
    <3>3. /\ jobs' \in [Jobs -> PingJob] /\ jobs'[j].at = "free"
          /\ \A i \in Jobs \ {j} : jobs'[i] = jobs[i]
      BY <3>1, <3>2, MovedJobs, PlacesDiffer
    <3>4. KeepAliveTypeOK'
      BY <3>1, <3>3 DEF KeepAliveTypeOK, PingJob, JobPlaces
    <3> QED BY <2>3, <3>1, <3>3, <3>4, PlacesDiffer DEF OneWindowPerAccount
  <2> QED BY <2>2, <2>3
<1>3. CASE CheckEnabled(j)
  <2>1. /\ jobs[j].at \in Windows /\ jobs[j].at \in Counted /\ "enabled" \in Windows
        /\ UNCHANGED <<pingsOn, standing, shutdown>>
    BY <1>3 DEF CheckEnabled, At, Windows, Counted
  <2>2. CASE pingsOn
    <3>1. jobs' = Moved(jobs, j, "enabled") /\ timers' = timers
      BY <1>3, <2>2 DEF CheckEnabled, MovesTo
    <3> QED BY <2>1, <3>1, Keeps, NoneLeft
  <2>3. CASE ~pingsOn
    <3>1. ResetTo(j, "free")
      BY <1>3, <2>3 DEF CheckEnabled
    <3> QED BY <2>1, <3>1, ResetStep
  <2> QED BY <2>2, <2>3
<1>4. CASE FindAccount(j)
  BY <1>4, FindStep
<1>5. CASE AcquireKeepAlive(j)
  <2>1. /\ jobs[j].at \in Windows /\ jobs[j].at \in Counted /\ "sent" \in Windows
        /\ jobs' = Moved(jobs, j, "sent") /\ UNCHANGED <<timers, pingsOn, standing, shutdown>>
    BY <1>5 DEF AcquireKeepAlive, MovesTo, At, Windows, Counted
  <2> QED BY <2>1, Keeps, NoneLeft
<1>6. CASE Busy(j)
  BY <1>6, BusyStep
<1>7. CASE PingEnds(j)
  <2>1. /\ jobs[j].at \in Windows /\ jobs[j].at \in Counted
        /\ ResetTo(j, "reset") /\ UNCHANGED <<pingsOn, standing, shutdown>>
    BY <1>7 DEF PingEnds, At, Windows, Counted
  <2> QED BY <2>1, ResetStep, NoneLeft
<1>8. CASE ReleaseSlot(j)
  <2>1. /\ jobs[j].at = "reset" /\ jobs' = Moved(jobs, j, "free")
        /\ UNCHANGED <<timers, pingsOn, standing, shutdown>>
    BY <1>8 DEF ReleaseSlot, MovesTo, At
  <2>2. jobs \in [Jobs -> PingJob]
    BY DEF KeepAliveTypeOK, PingJob, JobPlaces
  <2>3. /\ jobs' \in [Jobs -> PingJob] /\ jobs'[j].at = "free"
        /\ \A i \in Jobs \ {j} : jobs'[i] = jobs[i]
    BY <2>1, <2>2, MovedJobs, PlacesDiffer
  <2>4. KeepAliveTypeOK'
    BY <2>1, <2>3 DEF KeepAliveTypeOK, PingJob, JobPlaces
  <2>5. \A a \in PingAccounts : WindowJobs(a)' = WindowJobs(a)
    BY <2>1, <2>3, PlacesDiffer DEF WindowJobs
  <2> QED BY <2>1, <2>3, <2>4, <2>5, PlacesDiffer DEF OneWindowPerAccount, WindowJobs
<1> QED BY <1>1, <1>2, <1>3, <1>4, <1>5, <1>6, <1>7, <1>8 DEF JobSteps

-----------------------------------------------------------------------------

LEMMA InitPingInv == KeepAliveInit => PingInv
<1> SUFFICES ASSUME KeepAliveInit PROVE PingInv
  OBVIOUS
<1>1. (CHOOSE a \in PingAccounts : TRUE) \in PingAccounts
  BY NoJobAssumption
<1>2. pingsOn \in BOOLEAN
  BY Zenon DEF KeepAliveInit
<1>3. KeepAliveTypeOK
  BY <1>1, <1>2, EntriesAreTyped DEF KeepAliveInit, KeepAliveTypeOK, PingEntry
<1>4. OneWindowPerAccount
  BY EntriesAreTyped, PlacesDiffer DEF KeepAliveInit, OneWindowPerAccount
<1> QED BY <1>3, <1>4 DEF PingInv

LEMMA RequestStep == ASSUME PingInv, NEW a \in PingAccounts, OnAccountRequest(a) PROVE PingInv'
<1> USE DEF PingInv
<1> DEFINE entry(j) == [Idle EXCEPT !.active = TRUE, !.job = j]
<1>1. PICK j \in Jobs : /\ At(j, "free")
                        /\ timers' = [timers EXCEPT ![a] = entry(j)]
                        /\ jobs' = [jobs EXCEPT ![j] = [at |-> "armed", of |-> a]]
  BY DEF OnAccountRequest
<1>2. entry(j) \in PingEntry /\ entry(j).active /\ entry(j).job = j
  <2>1. TRUE \in BOOLEAN
    BY Zenon
  <2> QED BY <2>1, EntriesAreTyped DEF PingEntry
<1> HIDE DEF entry
<1>3. shutdown = "open" /\ ~timers[a].active /\ UNCHANGED <<pingsOn, standing, shutdown>>
  BY DEF OnAccountRequest, MayArm
<1>4. KeepAliveTypeOK'
  <2>1. timers' \in [PingAccounts -> PingEntry] /\ jobs' \in [Jobs -> PingJob]
    BY <1>1, <1>2 DEF KeepAliveTypeOK, PingEntry, PingJob, JobPlaces, Windows
  <2> QED BY <1>3, <2>1 DEF KeepAliveTypeOK, PingEntry, PingJob, JobPlaces
<1>5. /\ jobs[j].at = "free" /\ jobs'[j].at = "armed" /\ jobs'[j].of = a
      /\ \A i \in Jobs \ {j} : jobs'[i] = jobs[i]
  BY <1>1 DEF At, KeepAliveTypeOK
<1>6. ASSUME NEW b \in PingAccounts PROVE EntryFits(b)'
  <2>1. CASE b = a
    <3>1. WindowJobs(a) = {}
      BY <1>3, Restated DEF EntryFits
    <3>2. WindowJobs(a)' = {j}
      BY <1>5, <3>1 DEF WindowJobs, Windows
    <3>3. timers'[a] = entry(j)
      BY <1>1 DEF KeepAliveTypeOK
    <3> QED BY <1>2, <2>1, <3>2, <3>3 DEF EntryFits
  <2>2. CASE b # a
    <3>1. WindowJobs(b)' = WindowJobs(b)
      BY <1>5, <2>2, PlacesDiffer DEF WindowJobs
    <3>2. timers'[b] = timers[b]
      BY <1>1, <2>2 DEF KeepAliveTypeOK
    <3> QED BY <1>3, <3>1, <3>2, Restated DEF EntryFits
  <2> QED BY <2>1, <2>2
<1>7. OneWindowPerAccount'
  BY <1>3, <1>6 DEF OneWindowPerAccount, EntryFits, WindowJobs
<1> QED BY <1>4, <1>7

LEMMA PingInvStep == ASSUME PingInv, [KeepAliveNext]_keepAliveVars PROVE PingInv'
<1> USE DEF PingInv
<1>1. ASSUME NEW a \in PingAccounts, OnAccountRequest(a) PROVE PingInv'
  BY <1>1, RequestStep
<1>2. ASSUME NEW j \in Jobs, JobSteps(j) PROVE PingInv'
  BY <1>2, JobStep
<1>3. CASE CloseBegins
  <2>1. jobs' \in [Jobs -> PingJob]
    BY <1>3, HaltedJobs DEF CloseBegins, Halted, KeepAliveTypeOK, PingJob, JobPlaces
  <2>2. KeepAliveTypeOK'
    BY <1>3, <2>1, EntriesAreTyped DEF CloseBegins, KeepAliveTypeOK, PingEntry, PingJob, JobPlaces
  <2> QED BY <1>3, <2>2 DEF CloseBegins, OneWindowPerAccount
<1>4. CASE CloseReturns
  BY <1>4 DEF CloseReturns, KeepAliveTypeOK, OneWindowPerAccount
<1>5. CASE Administers
  <2>1. pingsOn' \in BOOLEAN
    BY <1>5, Zenon DEF Administers, KeepAliveTypeOK
  <2>2. standing' \in [PingAccounts -> {"schedulable", "off", "missing"}]
    BY <1>5 DEF Administers, KeepAliveTypeOK
  <2>3. UNCHANGED <<timers, jobs, shutdown>>
    BY <1>5 DEF Administers
  <2> QED BY <2>1, <2>2, <2>3 DEF KeepAliveTypeOK, OneWindowPerAccount
<1>6. CASE UNCHANGED keepAliveVars
  BY <1>6 DEF keepAliveVars, KeepAliveTypeOK, OneWindowPerAccount
<1> QED BY <1>1, <1>2, <1>3, <1>4, <1>5, <1>6 DEF KeepAliveNext

(* An account is marked exactly as long as one job has its window, and     *)
(* nothing is under way after Close, for any number of accounts and of     *)
(* goroutines, and however late a timer fires.                             *)
THEOREM OneWindowHolds == KeepAliveSpec => []OneWindowPerAccount
<1>1. PingInv => OneWindowPerAccount
  BY DEF PingInv
<1> QED BY InitPingInv, PingInvStep, <1>1, PTL DEF KeepAliveSpec

-----------------------------------------------------------------------------
(***************************************************************************)
(* THE ELASTIC POOL                                                        *)
(*                                                                         *)
(* A reconciliation is a loop over the accounts; what it computes is shown *)
(* by induction over the list, which the well-ordering of the natural      *)
(* numbers gives.                                                          *)
(***************************************************************************)

(* Natural numbers are well-ordered: induction, stated without a predicate *)
(* as parameter.                                                           *)
LEMMA LeastElement ==
  ASSUME NEW T \in SUBSET Nat, T # {}
  PROVE  \E m \in T : \A n \in T : m <= n
<1>1. IsWellFoundedOn(OpToRel(<, Nat), Nat)
  BY NatLessThanWellFounded
<1>2. PICK m \in T : \A n \in T : ~ (<<n, m>> \in OpToRel(<, Nat))
  BY <1>1, WFMin
<1>3. \A n \in T : ~ (n < m)
  BY <1>2 DEF OpToRel
<1> QED BY <1>3

LEMMA UpTo ==
  ASSUME NEW n \in Nat, NEW S, 0 \in S, \A i \in 0..n : i # n /\ i \in S => i + 1 \in S
  PROVE  0..n \subseteq S
<1> DEFINE Missing == {i \in 0..n : i \notin S}
<1>1. CASE Missing = {}
  BY <1>1
<1>2. CASE Missing # {}
  <2>0. Missing \in SUBSET Nat
    OBVIOUS
  <2>1. PICK m \in Missing : \A i \in Missing : m <= i
    <3> HIDE DEF Missing
    <3> QED BY <1>2, <2>0, LeastElement
  <2>2. m # 0 /\ m - 1 \in 0..n /\ m - 1 # n
    BY <2>1
  <2>3. m - 1 \in S
    BY <2>1, <2>2
  <2>4. (m - 1) + 1 = m
    BY <2>1
  <2> QED BY <2>1, <2>2, <2>3, <2>4
<1> QED BY <1>1, <1>2

(* A roster names no account twice, so it is no longer than the accounts.  *)
LEMMA RosterFacts ==
  ASSUME NEW l \in Rosters
  PROVE  /\ l \in Seq(Members) /\ Len(l) \in Nat /\ DOMAIN l = 1..Len(l)
         /\ \A i \in 1..Len(l) : l[i] \in Members
         /\ \A i, j \in 1..Len(l) : l[i] = l[j] => i = j
         /\ ToSet(l) = {l[i] : i \in 1..Len(l)} /\ ToSet(l) \subseteq Members
<1>1. Cardinality(Members) \in Nat
  BY RosterAssumption, FS_CardinalityType
<1>2. PICK n \in 0..Cardinality(Members) : l \in [1..n -> Members]
  BY DEF Rosters, SeqOf
<1>3. l \in Seq(Members) /\ Len(l) = n
  BY <1>1, <1>2
<1>4. DOMAIN l = 1..Len(l)
  BY <1>2, <1>3
<1>5. IsInjective(l)
  BY DEF Rosters
<1>6. \A i, j \in 1..Len(l) : l[i] = l[j] => i = j
  BY <1>4, <1>5 DEF IsInjective
<1>7. ToSet(l) = {l[i] : i \in 1..Len(l)}
  BY <1>4 DEF ToSet
<1> QED BY <1>1, <1>2, <1>3, <1>4, <1>6, <1>7

LEMMA RosterIs ==
  ASSUME NEW l \in Seq(Members), \A i, j \in 1..Len(l) : l[i] = l[j] => i = j
  PROVE  l \in Rosters
<1>1. Len(l) \in Nat /\ l \in [1..Len(l) -> Members] /\ DOMAIN l = 1..Len(l)
  OBVIOUS
<1>2. IsFiniteSet(1..Len(l)) /\ Cardinality(1..Len(l)) = Len(l)
  <2>1. IsFiniteSet(1..Len(l)) /\ Cardinality(1..Len(l)) = IF 1 > Len(l) THEN 0 ELSE Len(l) - 1 + 1
    BY <1>1, FS_Interval
  <2> QED BY <1>1, <2>1
<1>3. l \in Injection(1..Len(l), Members)
  BY <1>1 DEF Injection, IsInjective
<1>4. Cardinality(1..Len(l)) <= Cardinality(Members)
  BY <1>2, <1>3, FS_Injection, RosterAssumption DEF ExistsInjection
<1>5. Cardinality(Members) \in Nat
  BY RosterAssumption, FS_CardinalityType
<1>6. l \in SeqOf(Members, Cardinality(Members))
  BY <1>1, <1>2, <1>4, <1>5 DEF SeqOf
<1> QED BY <1>1, <1>6 DEF Rosters, IsInjective

(* What the reconciliation counts on its way through a list.               *)
TakenStep(l, ms, count, busy, taken, i) ==
  taken[i - 1] + (IF Awake(ms, l[i], taken[i - 1], count, busy) THEN 1 ELSE 0)
CountsTaken(l, ms, count, busy, taken, n) ==
  taken = [i \in 0..n |-> IF i = 0 THEN 0 ELSE TakenStep(l, ms, count, busy, taken, i)]

LEMMA TakenExists ==
  ASSUME NEW l, NEW ms, NEW count, NEW busy, NEW n \in Nat
  PROVE  \E taken : CountsTaken(l, ms, count, busy, taken, n)
<1> DEFINE S == {i \in 0..n : \E taken : CountsTaken(l, ms, count, busy, taken, i)}
<1>1. 0 \in S
  <2> DEFINE t == [i \in 0..0 |-> 0]
  <2>1. CountsTaken(l, ms, count, busy, t, 0)
    BY DEF CountsTaken
  <2> QED BY <2>1
<1>2. \A i \in 0..n : i # n /\ i \in S => i + 1 \in S
  <2> SUFFICES ASSUME NEW i \in 0..n, i # n, i \in S
               PROVE  i + 1 \in S
    OBVIOUS
  <2>1. PICK t : CountsTaken(l, ms, count, busy, t, i)
    OBVIOUS
  <2> DEFINE u == [j \in 0..(i + 1) |-> IF j = i + 1
                                        THEN TakenStep(l, ms, count, busy, t, i + 1) ELSE t[j]]
  <2>2. \A j \in 0..i : u[j] = t[j]
    OBVIOUS
  <2>3. \A j \in 0..i : t[j] = IF j = 0 THEN 0 ELSE TakenStep(l, ms, count, busy, t, j)
    BY <2>1 DEF CountsTaken
  <2>4. \A j \in 1..(i + 1) :
          TakenStep(l, ms, count, busy, u, j) = TakenStep(l, ms, count, busy, t, j)
    <3> SUFFICES ASSUME NEW j \in 1..(i + 1)
                 PROVE  TakenStep(l, ms, count, busy, u, j) = TakenStep(l, ms, count, busy, t, j)
      OBVIOUS
    <3>1. u[j - 1] = t[j - 1]
      BY <2>2
    <3> HIDE DEF u
    <3> QED BY <3>1 DEF TakenStep
  <2>5. \A j \in 0..(i + 1) :
          u[j] = IF j = 0 THEN 0 ELSE TakenStep(l, ms, count, busy, u, j)
    <3> SUFFICES ASSUME NEW j \in 0..(i + 1)
                 PROVE  u[j] = IF j = 0 THEN 0 ELSE TakenStep(l, ms, count, busy, u, j)
      OBVIOUS
    <3>1. u[i + 1] = TakenStep(l, ms, count, busy, t, i + 1)
      OBVIOUS
    <3> HIDE DEF u
    <3>2. CASE j = i + 1
      BY <3>1, <3>2, <2>4
    <3>3. CASE j # i + 1
      BY <3>3, <2>2, <2>3, <2>4
    <3> QED BY <3>2, <3>3
  <2>6. u = [j \in 0..(i + 1) |-> u[j]]
    OBVIOUS
  <2> HIDE DEF u
  <2>7. CountsTaken(l, ms, count, busy, u, i + 1)
    BY <2>5, <2>6 DEF CountsTaken
  <2> QED BY <2>7
<1>3. 0..n \subseteq S
  <2> HIDE DEF S
  <2> QED BY <1>1, <1>2, UpTo
<1> QED BY <1>3

(* Those whom that count puts to sleep.                                    *)
PutToSleep(l, ms, count, busy, taken) ==
  {l[i] : i \in {j \in 1..Len(l) : ~Awake(ms, l[j], taken[j - 1], count, busy)}}

(* The loop of the reconciliation is a function of the list: its count     *)
(* starts at zero and grows with every account that stays awake.           *)
LEMMA TakenIsCount ==
  ASSUME NEW l, Len(l) \in Nat, NEW ms, NEW count, NEW busy
  PROVE  \E taken : /\ CountsTaken(l, ms, count, busy, taken, Len(l))
                    /\ Sleepers(l, ms, count, busy) = PutToSleep(l, ms, count, busy, taken)
<1> DEFINE taken[i \in 0..Len(l)] ==
             IF i = 0 THEN 0
             ELSE taken[i - 1] + (IF Awake(ms, l[i], taken[i - 1], count, busy) THEN 1 ELSE 0)
<1>1. PICK t : CountsTaken(l, ms, count, busy, t, Len(l))
  BY TakenExists
<1>2. taken = [i \in 0..Len(l) |->
                 IF i = 0 THEN 0
                 ELSE taken[i - 1] + (IF Awake(ms, l[i], taken[i - 1], count, busy) THEN 1 ELSE 0)]
  BY <1>1 DEF CountsTaken, TakenStep
<1>3. CountsTaken(l, ms, count, busy, taken, Len(l))
  <2> HIDE DEF taken
  <2> QED BY <1>2 DEF CountsTaken, TakenStep
<1>4. Sleepers(l, ms, count, busy) = PutToSleep(l, ms, count, busy, taken)
  BY DEF Sleepers, PutToSleep
<1> HIDE DEF taken
<1> QED BY <1>3, <1>4

(* Those awake among the first i accounts.                                 *)
AwakeUpTo(l, ms, count, busy, taken, i) ==
  {l[k] : k \in {j \in 1..i : Awake(ms, l[j], taken[j - 1], count, busy)}}

(* The count is the number of them, as no account is listed twice.         *)
LEMMA TakenCounts ==
  ASSUME NEW l \in Rosters, NEW ms, NEW count, NEW busy, NEW taken,
         CountsTaken(l, ms, count, busy, taken, Len(l))
  PROVE  \A i \in 0..Len(l) :
           /\ IsFiniteSet(AwakeUpTo(l, ms, count, busy, taken, i))
           /\ Cardinality(AwakeUpTo(l, ms, count, busy, taken, i)) = taken[i]
<1> DEFINE n == Len(l)
           Up(i) == AwakeUpTo(l, ms, count, busy, taken, i)
           S == {i \in 0..n : IsFiniteSet(Up(i)) /\ Cardinality(Up(i)) = taken[i]}
<1>1. n \in Nat /\ \A i, j \in 1..n : l[i] = l[j] => i = j
  BY RosterFacts
<1>2. taken[0] = 0 /\ \A i \in 1..n : taken[i] = TakenStep(l, ms, count, busy, taken, i)
  BY <1>1 DEF CountsTaken
<1>3. 0 \in S
  <2>1. Up(0) = {}
    BY DEF AwakeUpTo
  <2> HIDE DEF Up
  <2> QED BY <1>1, <1>2, <2>1, FS_EmptySet
<1>4. \A i \in 0..n : i # n /\ i \in S => i + 1 \in S
  <2> SUFFICES ASSUME NEW i \in 0..n, i # n, i \in S PROVE i + 1 \in S
    OBVIOUS
  <2>1. i + 1 \in 1..n /\ (i + 1) - 1 = i /\ i \in Nat /\ i + 1 \in 0..n
    BY <1>1
  <2>2. taken[i + 1] = taken[i]
          + (IF Awake(ms, l[i + 1], taken[i], count, busy) THEN 1 ELSE 0)
    BY <1>2, <2>1 DEF TakenStep
  <2>3. IsFiniteSet(Up(i)) /\ Cardinality(Up(i)) = taken[i]
    OBVIOUS
  <2>4. CASE Awake(ms, l[i + 1], taken[i], count, busy)
    <3>1. Up(i + 1) = Up(i) \cup {l[i + 1]}
      BY <2>1, <2>4 DEF AwakeUpTo
    <3>2. l[i + 1] \notin Up(i)
      BY <1>1, <2>1 DEF AwakeUpTo
    <3> HIDE DEF Up
    <3>3. IsFiniteSet(Up(i + 1)) /\ Cardinality(Up(i + 1)) = Cardinality(Up(i)) + 1
      BY <2>3, <3>1, <3>2, FS_AddElement
    <3> QED BY <2>1, <2>2, <2>3, <2>4, <3>3
  <2>5. CASE ~Awake(ms, l[i + 1], taken[i], count, busy)
    <3>1. Up(i + 1) = Up(i)
      BY <2>1, <2>5 DEF AwakeUpTo
    <3>2. taken[i] \in Nat
      <4> HIDE DEF Up
      <4> QED BY <2>3, FS_CardinalityType
    <3> HIDE DEF Up
    <3> QED BY <2>1, <2>2, <2>3, <2>5, <3>1, <3>2
  <2> QED BY <2>4, <2>5
<1>5. 0..n \subseteq S
  <2> HIDE DEF S
  <2> QED BY <1>1, <1>3, <1>4, UpTo
<1> QED BY <1>5

(* What a reconciliation leaves: the sleepers are of the list; a member is *)
(* awake exactly if it is fit and was generating or fewer than the count   *)
(* of those ahead of it are awake.                                         *)
AheadIn(l, awake, a) ==
  {b \in awake : \E i, j \in DOMAIN l : i < j /\ l[i] = b /\ l[j] = a}
OrderIn(l, ms, asleep, busy, count) ==
  \A a \in ToSet(l) :
    a \notin asleep <=>
      Fit(ms, a) /\ (a \in busy \/ Cardinality(AheadIn(l, ToSet(l) \ asleep, a)) < count)

LEMMA SleepersInOrder ==
  ASSUME NEW l \in Rosters, NEW ms, NEW count, NEW busy
  PROVE  /\ Sleepers(l, ms, count, busy) \subseteq ToSet(l)
         /\ OrderIn(l, ms, Sleepers(l, ms, count, busy), busy, count)
<1> DEFINE n == Len(l)
           asleep == Sleepers(l, ms, count, busy)
<1>1. /\ n \in Nat /\ \A i, j \in 1..n : l[i] = l[j] => i = j
      /\ DOMAIN l = 1..n /\ ToSet(l) = {l[i] : i \in 1..n}
  BY RosterFacts
<1>2. PICK taken : /\ CountsTaken(l, ms, count, busy, taken, Len(l))
                   /\ asleep = PutToSleep(l, ms, count, busy, taken)
  <2>1. Len(l) \in Nat
    BY <1>1
  <2> HIDE DEF n
  <2> QED BY <2>1, TakenIsCount
<1> HIDE DEF asleep
<1>3. asleep \subseteq ToSet(l)
  BY <1>1, <1>2 DEF PutToSleep
<1>4. \A i \in 1..n : l[i] \in asleep <=> ~Awake(ms, l[i], taken[i - 1], count, busy)
  BY <1>1, <1>2 DEF PutToSleep
<1>5. ASSUME NEW i \in 1..n
      PROVE  AheadIn(l, ToSet(l) \ asleep, l[i]) = AwakeUpTo(l, ms, count, busy, taken, i - 1)
  <2>1. ASSUME NEW b \in AheadIn(l, ToSet(l) \ asleep, l[i])
        PROVE  b \in AwakeUpTo(l, ms, count, busy, taken, i - 1)
    <3>1. PICK k \in 1..n, j \in 1..n : k < j /\ l[k] = b /\ l[j] = l[i] /\ b \notin asleep
      BY <1>1 DEF AheadIn
    <3>2. k \in 1..(i - 1)
      BY <1>1, <3>1
    <3>3. Awake(ms, l[k], taken[k - 1], count, busy)
      BY <1>4, <3>1
    <3> QED BY <3>1, <3>2, <3>3 DEF AwakeUpTo
  <2>2. ASSUME NEW b \in AwakeUpTo(l, ms, count, busy, taken, i - 1)
        PROVE  b \in AheadIn(l, ToSet(l) \ asleep, l[i])
    <3>1. PICK k \in 1..(i - 1) : l[k] = b /\ Awake(ms, l[k], taken[k - 1], count, busy)
      BY DEF AwakeUpTo
    <3>2. k \in 1..n /\ k < i
      BY <1>1
    <3>3. b \in ToSet(l) \ asleep
      BY <1>1, <1>4, <3>1, <3>2
    <3> QED BY <1>1, <3>1, <3>2, <3>3 DEF AheadIn
  <2> QED BY <2>1, <2>2
<1>6. ASSUME NEW i \in 1..n
      PROVE  Cardinality(AheadIn(l, ToSet(l) \ asleep, l[i])) = taken[i - 1]
  <2>1. i - 1 \in 0..n
    BY <1>1
  <2>2. Cardinality(AwakeUpTo(l, ms, count, busy, taken, i - 1)) = taken[i - 1]
    BY <1>2, <2>1, TakenCounts
  <2> QED BY <1>5, <2>2
<1>7. ASSUME NEW a \in ToSet(l)
      PROVE  a \notin asleep <=>
               /\ Fit(ms, a)
               /\ a \in busy \/ Cardinality(AheadIn(l, ToSet(l) \ asleep, a)) < count
  <2>1. PICK i \in 1..n : a = l[i]
    BY <1>1
  <2> QED BY <1>4, <1>6, <2>1 DEF Awake
<1> QED BY <1>3, <1>7 DEF asleep, OrderIn

-----------------------------------------------------------------------------
(* Taking members away, and placing one, leaves a roster.                  *)
KeptFrom(l, gone, kept, n) ==
  kept = [i \in 0..n |-> IF i = 0 THEN << >>
                         ELSE IF l[i] \in gone THEN kept[i - 1] ELSE Append(kept[i - 1], l[i])]

LEMMA KeptFromExists ==
  ASSUME NEW l, NEW gone, NEW n \in Nat
  PROVE  \E kept : KeptFrom(l, gone, kept, n)
<1> DEFINE Step(t, i) == IF l[i] \in gone THEN t[i - 1] ELSE Append(t[i - 1], l[i])
           S == {i \in 0..n : \E kept : KeptFrom(l, gone, kept, i)}
<1>1. 0 \in S
  <2> DEFINE t == [i \in 0..0 |-> << >>]
  <2>1. KeptFrom(l, gone, t, 0)
    BY DEF KeptFrom
  <2> QED BY <2>1
<1>2. \A i \in 0..n : i # n /\ i \in S => i + 1 \in S
  <2> SUFFICES ASSUME NEW i \in 0..n, i # n, i \in S
               PROVE  i + 1 \in S
    OBVIOUS
  <2>1. PICK t : KeptFrom(l, gone, t, i)
    OBVIOUS
  <2> DEFINE u == [j \in 0..(i + 1) |-> IF j = i + 1 THEN Step(t, i + 1) ELSE t[j]]
  <2>2. \A j \in 0..i : u[j] = t[j]
    OBVIOUS
  <2>3. \A j \in 0..i : t[j] = IF j = 0 THEN << >> ELSE Step(t, j)
    BY <2>1 DEF KeptFrom
  <2>4. \A j \in 1..(i + 1) : Step(u, j) = Step(t, j)
    <3> SUFFICES ASSUME NEW j \in 1..(i + 1) PROVE Step(u, j) = Step(t, j)
      OBVIOUS
    <3>1. u[j - 1] = t[j - 1]
      BY <2>2
    <3> HIDE DEF u
    <3> QED BY <3>1
  <2>5. \A j \in 0..(i + 1) : u[j] = IF j = 0 THEN << >> ELSE Step(u, j)
    <3> SUFFICES ASSUME NEW j \in 0..(i + 1)
                 PROVE  u[j] = IF j = 0 THEN << >> ELSE Step(u, j)
      OBVIOUS
    <3>1. u[i + 1] = Step(t, i + 1)
      OBVIOUS
    <3> HIDE DEF u, Step
    <3>2. CASE j = i + 1
      BY <3>1, <3>2, <2>4
    <3>3. CASE j # i + 1
      BY <3>3, <2>2, <2>3, <2>4
    <3> QED BY <3>2, <3>3
  <2>6. u = [j \in 0..(i + 1) |-> u[j]]
    OBVIOUS
  <2> HIDE DEF u
  <2>7. KeptFrom(l, gone, u, i + 1)
    BY <2>5, <2>6 DEF KeptFrom
  <2> QED BY <2>7
<1>3. 0..n \subseteq S
  <2> HIDE DEF S
  <2> QED BY <1>1, <1>2, UpTo
<1> QED BY <1>3

(* s is what is left of the first i of l.                                  *)
IsLeft(l, gone, s, i) ==
  /\ s \in Seq(Members)
  /\ \A j, k \in 1..Len(s) : s[j] = s[k] => j = k
  /\ {s[j] : j \in 1..Len(s)} = {l[j] : j \in 1..i} \ gone

LEMMA KeptInOrder ==
  ASSUME NEW l \in Rosters, NEW gone, NEW kept, KeptFrom(l, gone, kept, Len(l))
  PROVE  \A i \in 0..Len(l) : IsLeft(l, gone, kept[i], i)
<1> DEFINE n == Len(l)
           LeftAt(i) == IsLeft(l, gone, kept[i], i)
           S == {i \in 0..n : LeftAt(i)}
<1>1. n \in Nat /\ \A i, j \in 1..n : l[i] = l[j] => i = j
  BY RosterFacts
<1>2. kept[0] = << >>
      /\ \A i \in 1..n : kept[i] = IF l[i] \in gone THEN kept[i - 1] ELSE Append(kept[i - 1], l[i])
  <2> DEFINE Body(i) == IF i = 0 THEN << >>
                        ELSE IF l[i] \in gone THEN kept[i - 1] ELSE Append(kept[i - 1], l[i])
  <2>1. kept = [i \in 0..n |-> Body(i)]
    BY DEF KeptFrom
  <2> HIDE DEF Body
  <2>2. \A i \in 0..n : kept[i] = Body(i)
    BY <2>1
  <2> USE DEF Body
  <2>3. 0 \in 0..n /\ \A i \in 1..n : i \in 0..n /\ i # 0
    BY <1>1
  <2> QED BY <2>2, <2>3
<1>3. 0 \in S
  <2> DEFINE s == kept[0]
  <2>1. s = << >>
    BY <1>2
  <2> HIDE DEF s
  <2>2. s \in Seq(Members) /\ Len(s) = 0 /\ 1..Len(s) = {} /\ 1..0 = {}
    BY <2>1
  <2>3. {s[j] : j \in 1..Len(s)} = {l[j] : j \in 1..0} \ gone
    BY <2>2
  <2>4. IsLeft(l, gone, s, 0)
    BY <2>2, <2>3 DEF IsLeft
  <2> QED BY <1>1, <2>4 DEF s
<1>4. \A i \in 0..n : i # n /\ i \in S => i + 1 \in S
  <2> SUFFICES ASSUME NEW i \in 0..n, i # n, i \in S PROVE i + 1 \in S
    OBVIOUS
  <2>1. i + 1 \in 1..n /\ (i + 1) - 1 = i /\ i \in Nat /\ i + 1 \in 0..n
    BY <1>1
  <2>2. kept[i + 1] = IF l[i + 1] \in gone THEN kept[i] ELSE Append(kept[i], l[i + 1])
    BY <1>2, <2>1
  <2>3. {l[j] : j \in 1..(i + 1)} = {l[j] : j \in 1..i} \cup {l[i + 1]}
    BY <2>1
  <2>4. LeftAt(i)
    OBVIOUS
  <2>5. CASE l[i + 1] \in gone
    <3>1. {l[j] : j \in 1..(i + 1)} \ gone = {l[j] : j \in 1..i} \ gone
      BY <2>3, <2>5
    <3>2. LeftAt(i + 1)
      BY <2>2, <2>4, <2>5, <3>1 DEF IsLeft
    <3> QED BY <2>1, <3>2
  <2>6. CASE l[i + 1] \notin gone
    <3> DEFINE s == kept[i]
               t == Append(s, l[i + 1])
    <3>1. l[i + 1] \in Members /\ l[i + 1] \notin {l[j] : j \in 1..i}
      BY <1>1, <2>1, RosterFacts
    <3>2. s \in Seq(Members) /\ (\A j, k \in 1..Len(s) : s[j] = s[k] => j = k)
          /\ {s[j] : j \in 1..Len(s)} = {l[j] : j \in 1..i} \ gone
      BY <2>4 DEF IsLeft
    <3>3. kept[i + 1] = t
      BY <2>2, <2>6
    <3> HIDE DEF s
    <3>4. /\ t \in Seq(Members) /\ Len(t) = Len(s) + 1 /\ t[Len(s) + 1] = l[i + 1]
          /\ Len(s) \in Nat /\ \A j \in 1..Len(s) : t[j] = s[j]
      BY <3>1, <3>2
    <3> HIDE DEF t
    <3>5. {t[j] : j \in 1..Len(t)} = {s[j] : j \in 1..Len(s)} \cup {l[i + 1]}
      BY <3>4
    <3>6. \A j, k \in 1..Len(t) : t[j] = t[k] => j = k
      <4> SUFFICES ASSUME NEW j \in 1..Len(t), NEW k \in 1..Len(t), t[j] = t[k] PROVE j = k
        OBVIOUS
      <4>1. \A q \in 1..Len(s) : s[q] # l[i + 1]
        <5> TAKE q \in 1..Len(s)
        <5>1. s[q] \in {s[w] : w \in 1..Len(s)}
          OBVIOUS
        <5> QED BY <3>1, <3>2, <5>1
      <4>2. \A q \in 1..Len(t) : q \in 1..Len(s) \/ q = Len(s) + 1
        BY <3>4
      <4>3. CASE j \in 1..Len(s) /\ k \in 1..Len(s)
        BY <3>2, <3>4, <4>3
      <4>4. CASE j = Len(s) + 1 \/ k = Len(s) + 1
        BY <3>4, <4>1, <4>2, <4>4
      <4> QED BY <4>2, <4>3, <4>4
    <3>7. {t[j] : j \in 1..Len(t)} = {l[j] : j \in 1..(i + 1)} \ gone
      BY <2>3, <2>6, <3>2, <3>5
    <3>8. IsLeft(l, gone, t, i + 1)
      BY <3>4, <3>6, <3>7 DEF IsLeft
    <3> QED BY <2>1, <3>3, <3>8
  <2> QED BY <2>5, <2>6
<1>5. 0..n \subseteq S
  <2> HIDE DEF S
  <2> QED BY <1>1, <1>3, <1>4, UpTo
<1> QED BY <1>5

LEMMA WithoutRoster ==
  ASSUME list \in Rosters, NEW gone
  PROVE  Without(gone) \in Rosters /\ ToSet(Without(gone)) = Present \ gone
<1> DEFINE kept[i \in 0..Len(list)] ==
             IF i = 0 THEN << >>
             ELSE IF list[i] \in gone THEN kept[i - 1] ELSE Append(kept[i - 1], list[i])
<1>0. Len(list) \in Nat
  BY RosterFacts
<1>1. PICK t : KeptFrom(list, gone, t, Len(list))
  BY <1>0, KeptFromExists
<1>2. kept = [i \in 0..Len(list) |->
                IF i = 0 THEN << >>
                ELSE IF list[i] \in gone THEN kept[i - 1] ELSE Append(kept[i - 1], list[i])]
  BY <1>1 DEF KeptFrom
<1>3. KeptFrom(list, gone, kept, Len(list))
  <2> HIDE DEF kept
  <2> QED BY <1>2 DEF KeptFrom
<1>4. Without(gone) = kept[Len(list)]
  BY DEF Without
<1> HIDE DEF kept
<1> DEFINE w == kept[Len(list)]
<1>5. /\ w \in Seq(Members) /\ (\A j, k \in 1..Len(w) : w[j] = w[k] => j = k)
      /\ {w[j] : j \in 1..Len(w)} = {list[j] : j \in 1..Len(list)} \ gone
  <2>1. /\ Len(list) \in 0..Len(list) /\ list \in Rosters
    BY <1>0
  <2>2. IsLeft(list, gone, w, Len(list))
    BY <1>3, <2>1, KeptInOrder
  <2> HIDE DEF w
  <2> QED BY <2>2 DEF IsLeft
<1> HIDE DEF w
<1>6. w \in Rosters
  BY <1>5, RosterIs
<1>7. ToSet(w) = Present \ gone
  BY <1>5, <1>6, RosterFacts DEF Present
<1> QED BY <1>4, <1>6, <1>7 DEF w

LEMMA PlacedRoster ==
  ASSUME NEW l \in Rosters, NEW a \in Members, a \notin ToSet(l), NEW i \in 1..(Len(l) + 1)
  PROVE  Placed(a, l, i) \in Rosters /\ ToSet(Placed(a, l, i)) = ToSet(l) \cup {a}
<1> DEFINE n == Len(l)
           p == SubSeq(l, 1, i - 1)
           q == SubSeq(l, i, n)
           t == Placed(a, l, i)
<1>1. /\ l \in Seq(Members) /\ n \in Nat /\ \A j, k \in 1..n : l[j] = l[k] => j = k
      /\ ToSet(l) = {l[j] : j \in 1..n}
  BY RosterFacts
<1>2. p \in Seq(Members) /\ Len(p) = i - 1 /\ \A j \in 1..(i - 1) : p[j] = l[j]
  BY <1>1
<1>3. q \in Seq(Members) /\ Len(q) = n - i + 1 /\ \A j \in 1..(n - i + 1) : q[j] = l[i + j - 1]
  BY <1>1
<1>4. t = (p \o <<a>>) \o q
  BY DEF Placed, InsertAt
<1> HIDE DEF p, q, t
<1> DEFINE r == p \o <<a>>
<1>5. r \in Seq(Members) /\ Len(r) = i /\ (\A j \in 1..(i - 1) : r[j] = l[j]) /\ r[i] = a
  BY <1>1, <1>2
<1> HIDE DEF r
<1>6. t = r \o q
  BY <1>4 DEF r
<1>7. t \in Seq(Members) /\ Len(t) = n + 1
  <2>1. r \in Seq(Members) /\ q \in Seq(Members) /\ Len(r) = i /\ Len(q) = n - i + 1
    BY <1>3, <1>5
  <2>2. t \in Seq(Members) /\ Len(t) = Len(r) + Len(q)
    <3>1. r \o q \in Seq(Members) /\ Len(r \o q) = Len(r) + Len(q)
      BY <2>1, ConcatProperties
    <3> QED BY <1>6, <3>1
  <2>3. i \in Nat /\ n \in Nat
    BY <1>1
  <2> QED BY ONLY <2>1, <2>2, <2>3
<1>8. \A j \in 1..(n + 1) : t[j] = IF j < i THEN l[j] ELSE IF j = i THEN a ELSE l[j - 1]
  <2> SUFFICES ASSUME NEW j \in 1..(n + 1)
               PROVE  t[j] = IF j < i THEN l[j] ELSE IF j = i THEN a ELSE l[j - 1]
    OBVIOUS
  <2>1. CASE j <= i
    <3>1. t[j] = r[j]
      BY <1>1, <1>3, <1>5, <1>6, <2>1
    <3> QED BY <1>1, <1>5, <2>1, <3>1
  <2>2. CASE j > i
    <3>1. t[j] = q[j - i]
      BY <1>1, <1>3, <1>5, <1>6, <2>2
    <3>2. j - i \in 1..(n - i + 1) /\ i + (j - i) - 1 = j - 1
      BY <1>1, <2>2
    <3>3. q[j - i] = l[j - 1]
      BY <1>3, <3>2
    <3> QED BY <1>1, <2>2, <3>1, <3>3
  <2> QED BY <1>1, <2>1, <2>2
<1>9. \A j, k \in 1..Len(t) : t[j] = t[k] => j = k
  <2>1. \A j \in 1..n : l[j] # a
    BY <1>1
  <2> SUFFICES ASSUME NEW j \in 1..(n + 1), NEW k \in 1..(n + 1), t[j] = t[k]
               PROVE  j = k
    BY <1>7
  <2> DEFINE Old(m) == IF m < i THEN m ELSE m - 1
  <2>2. \A m \in 1..(n + 1) : m # i => Old(m) \in 1..n /\ t[m] = l[Old(m)]
    BY <1>1, <1>8
  <2>3. \A m \in 1..(n + 1) : m # i => t[m] # a
    BY <2>1, <2>2
  <2>4. t[i] = a
    BY <1>1, <1>8
  <2>5. CASE j = i \/ k = i
    BY <2>3, <2>4, <2>5
  <2>6. CASE j # i /\ k # i
    <3>1. l[Old(j)] = l[Old(k)] /\ Old(j) \in 1..n /\ Old(k) \in 1..n
      BY <2>2, <2>6
    <3>2. Old(j) = Old(k)
      <4> HIDE DEF Old
      <4> QED BY <1>1, <3>1
    <3> QED BY <1>1, <2>6, <3>2
  <2> QED BY <2>5, <2>6
<1>10. t \in Rosters
  BY <1>7, <1>9, RosterIs
<1>11. {t[j] : j \in 1..Len(t)} = ToSet(l) \cup {a}
  <2>1. ASSUME NEW j \in 1..n PROVE \E k \in 1..(n + 1) : t[k] = l[j]
    <3>1. CASE j < i
      BY <1>1, <1>8, <3>1
    <3>2. CASE j >= i
      <4>1. j + 1 \in 1..(n + 1) /\ ~(j + 1 < i) /\ j + 1 # i /\ (j + 1) - 1 = j
        BY <1>1, <3>2
      <4> QED BY <1>8, <4>1
    <3> QED BY <1>1, <3>1, <3>2
  <2>2. t[i] = a
    BY <1>1, <1>8
  <2>3. ASSUME NEW k \in 1..(n + 1) PROVE t[k] = a \/ \E j \in 1..n : t[k] = l[j]
    <3>1. k < i => k \in 1..n
      BY <1>1
    <3>2. k > i => k - 1 \in 1..n
      BY <1>1
    <3> QED BY <1>1, <1>8, <3>1, <3>2
  <2>4. Len(t) = n + 1 /\ i \in 1..(n + 1)
    BY <1>1, <1>7
  <2>5. ASSUME NEW x \in {t[j] : j \in 1..Len(t)} PROVE x \in ToSet(l) \cup {a}
    BY <1>1, <2>3, <2>4
  <2>6. ASSUME NEW x \in ToSet(l) \cup {a} PROVE x \in {t[j] : j \in 1..Len(t)}
    <3>1. CASE x = a
      BY <2>2, <2>4, <3>1
    <3>2. CASE x # a
      <4>1. PICK j \in 1..n : x = l[j]
        BY <1>1, <3>2
      <4> QED BY <2>1, <2>4, <4>1
    <3> QED BY <3>1, <3>2
  <2> QED BY <2>5, <2>6
<1> QED BY <1>10, <1>11, RosterFacts DEF t

LEMMA AppendRoster ==
  ASSUME NEW l \in Rosters, NEW a \in Members, a \notin ToSet(l)
  PROVE  Append(l, a) \in Rosters /\ ToSet(Append(l, a)) = ToSet(l) \cup {a}
<1> DEFINE n == Len(l)
           t == Append(l, a)
<1>1. /\ l \in Seq(Members) /\ n \in Nat /\ \A j, k \in 1..n : l[j] = l[k] => j = k
      /\ ToSet(l) = {l[j] : j \in 1..n}
  BY RosterFacts
<1>2. /\ t \in Seq(Members) /\ Len(t) = n + 1 /\ t[n + 1] = a
      /\ \A j \in 1..n : t[j] = l[j]
  BY <1>1
<1> HIDE DEF t
<1>3. \A j, k \in 1..Len(t) : t[j] = t[k] => j = k
  <2>1. \A j \in 1..n : l[j] # a
    BY <1>1
  <2> QED BY <1>1, <1>2, <2>1
<1>4. t \in Rosters
  BY <1>2, <1>3, RosterIs
<1>5. {t[j] : j \in 1..Len(t)} = ToSet(l) \cup {a}
  BY <1>1, <1>2
<1> QED BY <1>4, <1>5, RosterFacts DEF t

(* There is a roster of all accounts.                                      *)
LEMMA FullRoster ==
  \E l \in Rosters : ToSet(l) = Members
<1>1. PICK n \in Nat : ExistsBijection(1..n, Members)
  BY RosterAssumption, FS_NatBijection
<1>2. PICK f \in Bijection(1..n, Members) : TRUE
  BY <1>1 DEF ExistsBijection
<1>3. f \in [1..n -> Members] /\ (\A i, j \in 1..n : f[i] = f[j] => i = j)
      /\ \A m \in Members : \E i \in 1..n : f[i] = m
  BY <1>2 DEF Bijection, Injection, Surjection, IsInjective
<1>4. f \in Seq(Members) /\ Len(f) = n
  BY <1>3
<1>5. f \in Rosters
  BY <1>3, <1>4, RosterIs
<1>6. ToSet(f) = Members
  <2>1. ToSet(f) = {f[i] : i \in 1..n} /\ ToSet(f) \subseteq Members
    BY <1>4, <1>5, RosterFacts
  <2> QED BY <1>3, <2>1
<1> QED BY <1>5, <1>6

(* No account is counted twice: a roster is as long as it has members.     *)
LEMMA RosterLength ==
  ASSUME NEW l \in Rosters
  PROVE  IsFiniteSet(ToSet(l)) /\ Cardinality(ToSet(l)) = Len(l)
<1> DEFINE n == Len(l)
<1>1. /\ n \in Nat /\ (\A i, j \in 1..n : l[i] = l[j] => i = j)
      /\ ToSet(l) = {l[i] : i \in 1..n} /\ l \in Seq(Members)
  BY RosterFacts
<1>2. IsFiniteSet(1..n) /\ Cardinality(1..n) = n
  <2> HIDE DEF n
  <2>2. 1 \in Int /\ n \in Int
    BY <1>1
  <2>1. IsFiniteSet(1..n) /\ Cardinality(1..n) = IF 1 > n THEN 0 ELSE n - 1 + 1
    BY ONLY <2>2, FS_Interval
  <2> QED BY <1>1, <2>1
<1> DEFINE f == [i \in 1..n |-> l[i]]
<1>3. f \in Bijection(1..n, ToSet(l))
  <2>1. f \in [1..n -> ToSet(l)]
    BY <1>1
  <2>2. f \in Injection(1..n, ToSet(l))
    BY <1>1, <2>1 DEF Injection, IsInjective
  <2>3. f \in Surjection(1..n, ToSet(l))
    <3>1. \A x \in ToSet(l) : \E i \in 1..n : f[i] = x
      BY <1>1
    <3> QED BY <2>1, <3>1 DEF Surjection
  <2> QED BY <2>2, <2>3 DEF Bijection
<1>4. ExistsBijection(1..n, ToSet(l))
  BY <1>3 DEF ExistsBijection
<1> QED BY <1>2, <1>4, FS_Bijection

-----------------------------------------------------------------------------
(* The two halves of RosterInOrder.                                        *)
OrderOff(ms, asleep, free) == \A a \in asleep \ free : ms[a] \cap Lasting # {}

LEMMA OrderHalves ==
  RosterInOrder <=>
    /\ elastic.on /\ ~due /\ loose = {} => OrderIn(list, marks, disabled, guarded, elastic.count)
    /\ ~elastic.on => OrderOff(marks, disabled, loose)
BY Zenon DEF RosterInOrder, OrderIn, OrderOff, AheadOf, AheadIn, Present

LEMMA OrderHalvesNext ==
  RosterInOrder' <=>
    /\ elastic'.on /\ ~due' /\ loose' = {} =>
         OrderIn(list', marks', disabled', guarded', elastic'.count)
    /\ ~elastic'.on => OrderOff(marks', disabled', loose')
BY Zenon DEF RosterInOrder, OrderIn, OrderOff, AheadOf, AheadIn, Present, Fit, Lasting

LEMMA InitRoster ==
  RosterInit => RosterTypeOK /\ RosterInOrder
<1> SUFFICES ASSUME RosterInit PROVE RosterTypeOK /\ RosterInOrder
  OBVIOUS
<1> USE DEF RosterInit
<1>1. list \in Rosters /\ Present = Members
  BY FullRoster DEF Present
<1>2. elastic.on => disabled = Sleepers(list, marks, elastic.count, guarded)
  OBVIOUS
<1>3. disabled \subseteq Present
  BY <1>1, SleepersInOrder DEF Present
<1>4. RosterTypeOK
  <2>1. marks \in [Members -> SUBSET Marks]
    OBVIOUS
  <2>2. /\ list \in Rosters /\ disabled \subseteq Present /\ due \in BOOLEAN
        /\ elastic \in [on : BOOLEAN, count : 0..MaxCount] /\ loose \subseteq Present
    BY <1>1, <1>3
  <2>3. generating \subseteq Members /\ seen \subseteq Members /\ guarded \subseteq Members
    OBVIOUS
  <2>4. standings \in 0..MaxStandings
    BY RosterAssumption
  <2> HIDE DEF RosterInit
  <2> QED BY <2>1, <2>2, <2>3, <2>4 DEF RosterTypeOK
<1>5. elastic.on => OrderIn(list, marks, disabled, guarded, elastic.count)
  BY <1>1, <1>2, SleepersInOrder
<1>6. ~elastic.on => OrderOff(marks, disabled, loose)
  BY DEF OrderOff
<1> QED BY <1>4, <1>5, <1>6, OrderHalves

(* A reconciliation puts the roster in order.                              *)
LEMMA Regrouped ==
  ASSUME NEW l \in Rosters, NEW ms, NEW busy \in SUBSET Members,
         list' = l, marks' = ms, elastic'.on, Regroups(l, ms, elastic'.count, busy)
  PROVE  /\ disabled' \subseteq ToSet(l) /\ guarded' \subseteq Members
         /\ due' = FALSE /\ loose' = {} /\ RosterInOrder'
<1>1. disabled' = Sleepers(l, ms, elastic'.count, busy)
      /\ guarded' = busy /\ due' = FALSE /\ loose' = {}
  BY DEF Regroups
<1>2. OrderIn(list', marks', disabled', guarded', elastic'.count)
  BY <1>1, SleepersInOrder
<1> QED BY <1>1, <1>2, SleepersInOrder, OrderHalvesNext

(* So does a transaction, whose own hands leave no one asleep for nothing. *)
LEMMA Transacted ==
  ASSUME RosterTypeOK, RosterInOrder,
         NEW l \in Rosters, NEW ms \in [Members -> SUBSET Marks],
         NEW d \in SUBSET ToSet(l), NEW free \in SUBSET ToSet(l),
         ~elastic.on => OrderOff(ms, d, free),
         Transaction(l, ms, d, free)
  PROVE  RosterTypeOK' /\ RosterInOrder'
<1> USE DEF RosterTypeOK
<1>1. /\ list' = l /\ marks' = ms /\ Standing
      /\ elastic' = elastic /\ generating' = generating /\ seen' = seen
  BY DEF Transaction, Settles
<1>2. standings' \in 0..MaxStandings
  BY <1>1, RosterAssumption DEF Standing
<1>3. CASE elastic.on
  <2>1. PICK busy \in {generating, seen} : Regroups(l, ms, elastic.count, busy)
    BY <1>3 DEF Transaction, Settles
  <2>2. busy \in SUBSET Members
    OBVIOUS
  <2>3. /\ disabled' \subseteq ToSet(l) /\ guarded' \subseteq Members
        /\ due' = FALSE /\ loose' = {} /\ RosterInOrder'
    BY <1>1, <1>3, <2>1, <2>2, Regrouped
  <2> QED BY <1>1, <1>2, <2>3 DEF Present
<1>4. CASE ~elastic.on
  <2>1. disabled' = d /\ loose' = free /\ guarded' = guarded /\ due' = due
    BY <1>4 DEF Transaction, Settles
  <2>2. RosterInOrder'
    BY <1>1, <1>4, <2>1, OrderHalvesNext
  <2> QED BY <1>1, <1>2, <2>1, <2>2 DEF Present
<1> QED BY <1>3, <1>4

RosterInv == RosterTypeOK /\ RosterInOrder

(* The transactions, each with what it leaves while the pool is off.       *)
LEMMA TransactionSteps ==
  ASSUME RosterInv,
         \/ \E a \in Members :
              \/ Rest(a) \/ PasteToken(a)
              \/ \E mark \in {"banned", "failed"} : Condemn(a, mark) \/ LoginSucceeds(a, mark)
              \/ \E i \in 1..Cardinality(Members) : AddAccount(a, i) \/ MoveAccount(a, i)
         \/ \E chosen \in {{a} : a \in Present} \cup {Present}, enabled \in BOOLEAN :
              ToggleEnabled(chosen, enabled)
         \/ \E gone \in {{a} : a \in Present} \cup {{a \in Present : "banned" \in marks[a]}} :
              DeleteMembers(gone)
         \/ \E l \in Rosters : RewriteAccounts(l)
  PROVE  RosterInv'
<1> USE DEF RosterInv
<1>1. /\ list \in Rosters /\ marks \in [Members -> SUBSET Marks]
      /\ disabled \in SUBSET ToSet(list) /\ loose \in SUBSET ToSet(list)
      /\ Present = ToSet(list) /\ ToSet(list) \subseteq Members
  BY RosterFacts DEF RosterTypeOK, Present
<1>2. ~elastic.on => OrderOff(marks, disabled, loose)
  BY OrderHalves
<1>3. ASSUME NEW a \in Members, Rest(a) PROVE RosterInv'
  <2> DEFINE ms == [marks EXCEPT ![a] = @ \cup {"resting"}]
  <2>1. ms \in [Members -> SUBSET Marks] /\ \A b \in Members : marks[b] \subseteq ms[b]
    BY <1>1 DEF Marks
  <2>2. Transaction(list, ms, disabled, loose)
    BY <1>3 DEF Rest
  <2> HIDE DEF ms
  <2>3. ~elastic.on => OrderOff(ms, disabled, loose)
    BY <1>1, <1>2, <2>1 DEF OrderOff
  <2> QED BY <1>1, <2>1, <2>2, <2>3, Transacted
<1>4. ASSUME NEW a \in Members, PasteToken(a) PROVE RosterInv'
  <2> DEFINE ms == [marks EXCEPT ![a] = @ \ {"failed"}]
  <2>1. ms \in [Members -> SUBSET Marks] /\ \A b \in Members : b # a => ms[b] = marks[b]
    BY <1>1
  <2>2. Transaction(list, ms, disabled, loose \cup {a}) /\ a \in Present
    BY <1>4 DEF PasteToken
  <2> HIDE DEF ms
  <2>3. ~elastic.on => OrderOff(ms, disabled, loose \cup {a})
    BY <1>1, <1>2, <2>1 DEF OrderOff
  <2>4. loose \cup {a} \in SUBSET ToSet(list)
    BY <1>1, <2>2
  <2> QED BY <1>1, <2>1, <2>2, <2>3, <2>4, Transacted
<1>5. ASSUME NEW a \in Members, NEW mark \in {"banned", "failed"}, Condemn(a, mark)
      PROVE  RosterInv'
  <2> DEFINE ms == [marks EXCEPT ![a] = @ \cup {mark}]
             d == disabled \cup {a}
  <2>1. /\ ms \in [Members -> SUBSET Marks] /\ mark \in ms[a] /\ mark \in Lasting
        /\ \A b \in Members : b # a => ms[b] = marks[b]
    BY <1>1 DEF Marks, Lasting
  <2>2. Transaction(list, ms, d, loose) /\ a \in Present
    BY <1>5 DEF Condemn
  <2>3. d \in SUBSET ToSet(list)
    BY <1>1, <2>2
  <2> HIDE DEF ms
  <2>4. ~elastic.on => OrderOff(ms, d, loose)
    BY <1>1, <1>2, <2>1 DEF OrderOff
  <2> HIDE DEF d
  <2> QED BY <1>1, <2>1, <2>2, <2>3, <2>4, Transacted
<1>6. ASSUME NEW a \in Members, NEW mark \in {"banned", "failed"}, LoginSucceeds(a, mark)
      PROVE  RosterInv'
  <2> DEFINE ms == [marks EXCEPT ![a] = @ \ {mark}]
             d == IF "manual" \in marks[a] THEN disabled \cup {a} ELSE disabled \ {a}
             free == loose \ {a}
  <2>1. /\ ms \in [Members -> SUBSET Marks] /\ ("manual" \in marks[a] => "manual" \in ms[a])
        /\ \A b \in Members : b # a => ms[b] = marks[b]
    BY <1>1
  <2>2. Transaction(list, ms, d, free) /\ a \in Present
    BY <1>6 DEF LoginSucceeds, Cleared
  <2>3. d \in SUBSET ToSet(list) /\ free \in SUBSET ToSet(list)
    BY <1>1, <2>2
  <2> HIDE DEF ms
  <2>4. ~elastic.on => OrderOff(ms, d, free)
    BY <1>1, <1>2, <2>1 DEF OrderOff, Lasting
  <2> HIDE DEF d, free
  <2> QED BY <1>1, <2>1, <2>2, <2>3, <2>4, Transacted
<1>7. ASSUME NEW a \in Members, NEW i \in 1..Cardinality(Members), AddAccount(a, i)
      PROVE  RosterInv'
  <2> DEFINE l == Placed(a, list, i)
             ms == Unmarked({a})
  <2>1. a \notin Present /\ i \in 1..(Len(list) + 1) /\ Transaction(l, ms, disabled, loose)
    BY <1>7 DEF AddAccount
  <2>2. l \in Rosters /\ ToSet(l) = ToSet(list) \cup {a}
    BY <1>1, <2>1, PlacedRoster
  <2>3. ms \in [Members -> SUBSET Marks] /\ \A b \in Members : b # a => ms[b] = marks[b]
    BY <1>1 DEF Unmarked
  <2> HIDE DEF l, ms
  <2>4. ~elastic.on => OrderOff(ms, disabled, loose)
    BY <1>1, <1>2, <2>1, <2>3 DEF OrderOff
  <2>5. disabled \in SUBSET ToSet(l) /\ loose \in SUBSET ToSet(l)
    BY <1>1, <2>2
  <2> QED BY <2>1, <2>2, <2>3, <2>4, <2>5, Transacted
<1>8. ASSUME NEW a \in Members, NEW i \in 1..Cardinality(Members), MoveAccount(a, i)
      PROVE  RosterInv'
  <2> DEFINE w == Without({a})
             l == Placed(a, w, i)
  <2>1. a \in Present /\ i \in 1..Len(list) /\ Transaction(l, marks, disabled, loose)
    BY <1>8 DEF MoveAccount
  <2>2. w \in Rosters /\ ToSet(w) = ToSet(list) \ {a}
    BY <1>1, WithoutRoster
  <2> HIDE DEF w
  <2>3. Len(w) + 1 = Len(list) /\ Len(w) \in Nat
    <3>1. IsFiniteSet(ToSet(list)) /\ Cardinality(ToSet(list)) = Len(list) /\ Len(list) \in Nat
      BY <1>1, RosterLength, RosterFacts
    <3>2. Cardinality(ToSet(w)) = Len(w) /\ Len(w) \in Nat
      BY <2>2, RosterLength, RosterFacts
    <3>3. Cardinality(ToSet(list) \ {a}) = Cardinality(ToSet(list)) - 1
      BY <1>1, <2>1, <3>1, FS_RemoveElement
    <3> QED BY <2>2, <3>1, <3>2, <3>3
  <2>4. a \notin ToSet(w) /\ i \in 1..(Len(w) + 1)
    BY <2>1, <2>2, <2>3
  <2>5. l \in Rosters /\ ToSet(l) = ToSet(list)
    <3>1. l \in Rosters /\ ToSet(l) = ToSet(w) \cup {a}
      BY <2>2, <2>4, PlacedRoster
    <3> QED BY <1>1, <2>1, <2>2, <3>1
  <2> HIDE DEF l
  <2> QED BY <1>1, <1>2, <2>1, <2>5, Transacted
<1>9. ASSUME NEW chosen \in {{a} : a \in Present} \cup {Present}, NEW enabled \in BOOLEAN,
             ToggleEnabled(chosen, enabled)
      PROVE  RosterInv'
  <2> DEFINE ms == [a \in Members |-> IF a \notin chosen THEN marks[a]
                                      ELSE IF enabled THEN marks[a] \ {"manual", "failed"}
                                      ELSE marks[a] \cup {"manual"}]
             d == IF enabled THEN disabled \ chosen ELSE disabled \cup chosen
             free == loose \ chosen
  <2>1. /\ ms \in [Members -> SUBSET Marks] /\ \A b \in Members \ chosen : ms[b] = marks[b]
        /\ ~enabled => \A b \in chosen : b \in Members => "manual" \in ms[b]
    BY <1>1 DEF Marks, Lasting
  <2>2. Transaction(list, ms, d, free)
    BY <1>9 DEF ToggleEnabled
  <2>3. chosen \subseteq Present
    OBVIOUS
  <2>4. d \in SUBSET ToSet(list) /\ free \in SUBSET ToSet(list)
    BY <1>1, <2>3
  <2> HIDE DEF ms
  <2>5. ~elastic.on => OrderOff(ms, d, free)
    BY <1>1, <1>2, <2>1, <2>3 DEF OrderOff, Lasting
  <2> HIDE DEF d, free
  <2> QED BY <1>1, <2>1, <2>2, <2>4, <2>5, Transacted
<1>10. ASSUME NEW gone \in {{a} : a \in Present} \cup {{a \in Present : "banned" \in marks[a]}},
              DeleteMembers(gone)
       PROVE  RosterInv'
  <2> DEFINE l == Without(gone)
             ms == Unmarked(gone)
             d == disabled \ gone
             free == loose \ gone
  <2>1. Transaction(l, ms, d, free)
    BY <1>10 DEF DeleteMembers
  <2>2. l \in Rosters /\ ToSet(l) = ToSet(list) \ gone
    BY <1>1, WithoutRoster
  <2>3. ms \in [Members -> SUBSET Marks] /\ \A b \in Members \ gone : ms[b] = marks[b]
    BY <1>1 DEF Unmarked
  <2> HIDE DEF l, ms
  <2>4. d \in SUBSET ToSet(l) /\ free \in SUBSET ToSet(l)
    BY <1>1, <2>2
  <2>5. ~elastic.on => OrderOff(ms, d, free)
    BY <1>1, <1>2, <2>3 DEF OrderOff
  <2> HIDE DEF d, free
  <2> QED BY <2>1, <2>2, <2>3, <2>4, <2>5, Transacted
<1>11. ASSUME NEW l \in Rosters, RewriteAccounts(l) PROVE RosterInv'
  <2> DEFINE ms == [a \in Members |-> {}]
  <2>1. ms \in [Members -> SUBSET Marks]
    OBVIOUS
  <2>2. Transaction(l, ms, {}, {})
    BY <1>11 DEF RewriteAccounts
  <2> HIDE DEF ms
  <2>3. ~elastic.on => OrderOff(ms, {}, {})
    BY DEF OrderOff
  <2> QED BY <2>1, <2>2, <2>3, Transacted
<1> QED BY <1>3, <1>4, <1>5, <1>6, <1>7, <1>8, <1>9, <1>10, <1>11, Zenon

(* The others: the switch of the pool, an import, the ends of rests, the   *)
(* start of the process, and the requests.                                 *)
LEMMA OtherSteps ==
  ASSUME RosterInv,
         \/ \E a \in Members :
              \/ RestEnds(a) \/ Generates(a) \/ Finishes(a)
              \/ \E ms \in {{}, {"failed"}}, asleep \in BOOLEAN : ImportAccount(a, ms, asleep)
         \/ \E on \in BOOLEAN, count \in 0..MaxCount : SetElastic(on, count)
         \/ RecoverExpired \/ Restart \/ ReadsInUse
  PROVE  RosterInv'
<1> USE DEF RosterInv
<1>0. RosterTypeOK
  OBVIOUS
<1>1. /\ list \in Rosters /\ marks \in [Members -> SUBSET Marks]
      /\ disabled \in SUBSET ToSet(list) /\ loose \in SUBSET ToSet(list)
      /\ Present = ToSet(list) /\ ToSet(list) \subseteq Members
  BY RosterFacts DEF RosterTypeOK, Present
<1>2. /\ elastic.on /\ ~due /\ loose = {} =>
           OrderIn(list, marks, disabled, guarded, elastic.count)
      /\ ~elastic.on => OrderOff(marks, disabled, loose)
  BY OrderHalves
<1>3. ASSUME NEW a \in Members, RestEnds(a) PROVE RosterInv'
  <2> DEFINE ms == [marks EXCEPT ![a] = @ \ {"resting"}]
  <2>1. /\ ms \in [Members -> SUBSET Marks]
        /\ \A b \in Members : ms[b] \cap Lasting = marks[b] \cap Lasting
    BY <1>1 DEF Lasting
  <2>2. /\ marks' = ms /\ due' = elastic.on /\ list' = list /\ disabled' = disabled
        /\ elastic' = elastic /\ generating' = generating /\ seen' = seen /\ loose' = loose
        /\ guarded' = guarded /\ standings' = standings
    BY <1>3 DEF RestEnds
  <2> HIDE DEF ms
  <2>3. RosterTypeOK'
    BY <1>0, <2>1, <2>2 DEF RosterTypeOK, Present
  <2>4. ~elastic.on => OrderOff(ms, disabled, loose)
    BY <1>1, <1>2, <2>1 DEF OrderOff
  <2> QED BY <2>2, <2>3, <2>4, OrderHalvesNext
<1>4. ASSUME UNCHANGED <<list, marks, disabled, elastic, due, loose, guarded, standings>>,
             generating' \subseteq Members, seen' \subseteq Members
      PROVE  RosterInv'
  <2>1. RosterTypeOK'
    BY <1>0, <1>4 DEF RosterTypeOK, Present
  <2> QED BY <1>2, <1>4, <2>1, OrderHalvesNext
<1>5. ASSUME NEW a \in Members, Generates(a) \/ Finishes(a) PROVE RosterInv'
  BY <1>0, <1>4, <1>5 DEF Generates, Finishes, RosterTypeOK
<1>6. ASSUME ReadsInUse PROVE RosterInv'
  BY <1>0, <1>4, <1>6 DEF ReadsInUse, RosterTypeOK
<1>7. ASSUME NEW a \in Members, NEW m \in {{}, {"failed"}}, NEW asleep \in BOOLEAN,
             ImportAccount(a, m, asleep)
      PROVE  RosterInv'
  <2> DEFINE l == IF a \in Present THEN list ELSE Append(list, a)
             ms == [marks EXCEPT ![a] = m]
  <2>1. l \in Rosters /\ ToSet(l) = ToSet(list) \cup {a}
    BY <1>1, AppendRoster
  <2>2. /\ ms \in [Members -> SUBSET Marks]
        /\ \A b \in Members : b # a => ms[b] = marks[b]
    BY <1>1 DEF Marks, Lasting
  <2>3. /\ list' = l /\ marks' = ms /\ loose' = loose \cup {a} /\ Standing
        /\ disabled' = IF asleep THEN disabled \cup {a} ELSE disabled \ {a}
        /\ elastic' = elastic /\ generating' = generating /\ seen' = seen
        /\ due' = due /\ guarded' = guarded
    BY <1>7 DEF ImportAccount
  <2> HIDE DEF l, ms
  <2>4. /\ disabled' \subseteq ToSet(l) /\ loose' \subseteq ToSet(l)
        /\ standings' \in 0..MaxStandings
    BY <1>0, <1>1, <2>1, <2>3, RosterAssumption DEF Standing, RosterTypeOK
  <2>5. RosterTypeOK'
    BY <1>0, <2>1, <2>2, <2>3, <2>4 DEF RosterTypeOK, Present
  <2>6. ~elastic'.on => OrderOff(marks', disabled', loose')
    BY <1>1, <1>2, <2>2, <2>3 DEF OrderOff
  <2> QED BY <2>3, <2>5, <2>6, OrderHalvesNext
<1>8. ASSUME NEW on \in BOOLEAN, NEW count \in 0..MaxCount, SetElastic(on, count)
      PROVE  RosterInv'
  <2>1. /\ elastic' = [on |-> on, count |-> count] /\ standings' \in 0..MaxStandings
        /\ list' = list /\ marks' = marks /\ generating' = generating /\ seen' = seen
    BY <1>0, <1>8, RosterAssumption DEF SetElastic, Standing, RosterTypeOK
  <2>2. CASE on
    <3>1. PICK busy \in {generating, seen} : Regroups(list, marks, count, busy)
      BY <1>8, <2>2 DEF SetElastic
    <3>2. busy \in SUBSET Members /\ elastic'.on /\ elastic'.count = count
      BY <1>0, <2>1, <2>2 DEF RosterTypeOK
    <3>3. /\ disabled' \subseteq ToSet(list) /\ guarded' \subseteq Members
          /\ due' = FALSE /\ loose' = {} /\ RosterInOrder'
      BY <1>1, <2>1, <3>1, <3>2, Regrouped
    <3> QED BY <1>0, <2>1, <3>3 DEF RosterTypeOK, Present
  <2>3. CASE ~on
    <3>1. /\ disabled' = {a \in Present : "manual" \in marks[a]}
          /\ loose' = {} /\ due' = FALSE /\ guarded' = guarded
      BY <1>8, <2>3 DEF SetElastic
    <3>2. RosterTypeOK'
      BY <1>0, <2>1, <3>1 DEF RosterTypeOK, Present
    <3>3. OrderOff(marks', disabled', loose') /\ ~elastic'.on
      BY <2>1, <2>3, <3>1 DEF OrderOff, Lasting
    <3> QED BY <3>2, <3>3, OrderHalvesNext
  <2> QED BY <2>2, <2>3
<1>9. ASSUME RecoverExpired PROVE RosterInv'
  <2>1. /\ elastic.on /\ list' = list /\ marks' = marks /\ elastic' = elastic
        /\ generating' = generating /\ seen' = seen /\ standings' = standings
    BY <1>9 DEF RecoverExpired
  <2>2. PICK busy \in {generating, seen} : Regroups(list, marks, elastic.count, busy)
    BY <1>9 DEF RecoverExpired
  <2>3. busy \in SUBSET Members
    BY <1>0 DEF RosterTypeOK
  <2>4. /\ disabled' \subseteq ToSet(list) /\ guarded' \subseteq Members
        /\ due' = FALSE /\ loose' = {} /\ RosterInOrder'
    BY <1>1, <2>1, <2>2, <2>3, Regrouped
  <2> QED BY <1>0, <2>1, <2>4 DEF RosterTypeOK, Present
<1>10. ASSUME Restart PROVE RosterInv'
  <2>1. /\ list' = list /\ marks' = marks /\ elastic' = elastic
        /\ generating' = {} /\ seen' = {} /\ standings' \in 0..MaxStandings
    BY <1>0, <1>10, RosterAssumption DEF Restart, Standing, RosterTypeOK
  <2>2. CASE elastic.on
    <3>1. Regroups(list, marks, elastic.count, {})
      BY <1>10, <2>2 DEF Restart
    <3>2. /\ disabled' \subseteq ToSet(list) /\ guarded' \subseteq Members
          /\ due' = FALSE /\ loose' = {} /\ RosterInOrder'
      <4>1. {} \in SUBSET Members
        OBVIOUS
      <4> QED BY <1>1, <2>1, <2>2, <3>1, <4>1, Regrouped
    <3> QED BY <1>0, <2>1, <3>2 DEF RosterTypeOK, Present
  <2>3. CASE ~elastic.on
    <3>1. disabled' = disabled /\ guarded' = guarded /\ due' = due /\ loose' = loose
      BY <1>10, <2>3 DEF Restart
    <3>2. RosterTypeOK'
      BY <1>0, <2>1, <3>1 DEF RosterTypeOK, Present
    <3> QED BY <1>2, <2>1, <2>3, <3>1, <3>2, OrderHalvesNext
  <2> QED BY <2>2, <2>3
<1> QED BY <1>3, <1>5, <1>6, <1>7, <1>8, <1>9, <1>10, Zenon

LEMMA RosterStep ==
  RosterInv /\ [RosterNext]_rosterVars => RosterInv'
<1> SUFFICES ASSUME RosterInv, [RosterNext]_rosterVars PROVE RosterInv'
  OBVIOUS
<1>1. CASE RosterNext
  BY <1>1, TransactionSteps, OtherSteps, Zenon DEF RosterNext
<1>2. CASE UNCHANGED rosterVars
  BY <1>2, OrderHalves, OrderHalvesNext DEF rosterVars, RosterInv, RosterTypeOK, Present
<1> QED BY <1>1, <1>2

(* For any accounts and any count: with the elastic pool on, the fit       *)
(* accounts at the head of the list, and those that were generating, are   *)
(* awake, and nobody else is; with it off nobody is left asleep.           *)
THEOREM RosterKeepsOrder ==
  RosterSpec => [](RosterTypeOK /\ RosterInOrder)
<1>1. RosterInit => RosterInv
  BY InitRoster DEF RosterInv
<1>2. RosterInv => RosterTypeOK /\ RosterInOrder
  BY DEF RosterInv
<1> QED BY <1>1, <1>2, RosterStep, PTL DEF RosterSpec
=============================================================================
