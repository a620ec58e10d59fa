------------------------- MODULE ManagedRequestProofs -------------------------
(***************************************************************************)
(* What holds of managed requests for every set of accounts and requests,  *)
(* every limit and every pattern of failures.                              *)
(***************************************************************************)
EXTENDS ManagedRequest, FiniteSetTheorems, TLAPS

Pcs == {"out", "pick", "ensure", "lift", "note", "persist",
        "reject", "relogin", "leave", "serve", "end"}
Phases == {"begin", "switch", "refresh"}
Layers == {"upload", "file", "open", "turn", "outer", "repair"}

(* What a request's place says of its RequestAuth: who looks for an        *)
(* account, or has one that failed it, holds no slot, and who works or     *)
(* recovers has an account.                                                *)
Idle(p) ==
  \/ p.pc \in {"out", "pick"}
  \/ p.pc \in {"note", "persist"} /\ p.phase # "refresh"

Healthy(p, u) ==
  /\ u.released \subseteq u.tried
  /\ p.pc = "out" => p.phase = "begin"
  /\ Idle(p) => u.acct = None \/ u.acct \in u.released
  /\ \/ p.pc \in {"out", "end"}
     \/ p.pc = "pick" /\ p.phase = "begin"
     \/ u.acct \in Accounts

(* The strengthening of TypeOK that is inductive.                          *)
IInv == TypeOK /\ \A r \in Requests : Healthy(at[r], auth[r])

-----------------------------------------------------------------------------
(***************************************************************************)
(* Where a request goes.                                                   *)
(***************************************************************************)

(* Only r moves, and to a place.                                           *)
Moves(r) ==
  /\ at' \in [Requests -> Place]
  /\ \A q \in Requests \ {r} : at'[q] = at[q]

(* One field of a place at a time.                                         *)
LEMMA PlacePc ==
  ASSUME NEW p \in Place, NEW x \in Pcs
  PROVE  LET n == [p EXCEPT !.pc = x]
         IN  n \in Place /\ n.pc = x /\ n.phase = p.phase
BY DEF Place, Pcs

LEMMA PlacePhase ==
  ASSUME NEW p \in Place, NEW x \in Phases
  PROVE  LET n == [p EXCEPT !.phase = x]
         IN  n \in Place /\ n.pc = p.pc /\ n.phase = x
BY DEF Place, Phases

LEMMA PlaceLayer ==
  ASSUME NEW p \in Place, NEW x \in Layers
  PROVE  LET n == [p EXCEPT !.layer = x]
         IN  n \in Place /\ n.pc = p.pc /\ n.phase = p.phase
BY DEF Place, Layers

LEMMA PlaceCause ==
  ASSUME NEW p \in Place
  PROVE  LET n == [p EXCEPT !.cause = "account"]
         IN  n \in Place /\ n.pc = p.pc /\ n.phase = p.phase
BY DEF Place

LEMMA PlaceReplaced ==
  ASSUME TypeOK, NEW r \in Requests, NEW p \in Place, at' = [at EXCEPT ![r] = p]
  PROVE  Moves(r) /\ at'[r] = p
BY DEF TypeOK, Moves

LEMMA GotoMoves ==
  ASSUME TypeOK, NEW r \in Requests, NEW pc \in Pcs, Goto(r, pc)
  PROVE  Moves(r) /\ at'[r].pc = pc /\ at'[r].phase = at[r].phase
<1> DEFINE n == [at[r] EXCEPT !.pc = pc]
<1>1. at[r] \in Place
  BY DEF TypeOK
<1>2. n \in Place /\ n.pc = pc /\ n.phase = at[r].phase
  BY <1>1, PlacePc
<1>3. at' = [at EXCEPT ![r] = n]
  BY DEF Goto
<1> HIDE DEF n
<1> QED BY <1>2, <1>3, PlaceReplaced

LEMMA ServeMoves ==
  ASSUME TypeOK, NEW r \in Requests, NEW layer \in Layers, Serve(r, layer)
  PROVE  Moves(r) /\ at'[r].pc = "serve"
<1> DEFINE n == [Start EXCEPT !.pc = "serve", !.layer = layer]
<1>1. n \in Place /\ n.pc = "serve"
  BY DEF Start, Place, Layers
<1>2. at' = [at EXCEPT ![r] = n]
  BY DEF Serve
<1> HIDE DEF n
<1> QED BY <1>1, <1>2, PlaceReplaced

LEMMA RecoveredMoves ==
  ASSUME TypeOK, NEW r \in Requests, NEW moved \in BOOLEAN, Recovered(r, moved)
  PROVE  Moves(r) /\ at'[r].pc = "serve"
<1>1. at[r].layer \in Layers
  BY DEF TypeOK, Place, Layers
<1>2. PICK layer \in Layers : Serve(r, layer)
  BY <1>1 DEF Recovered, Layers
<1> QED BY <1>2, ServeMoves

(* Two fields at once.                                                     *)
LEMMA PcLayerMoves ==
  ASSUME TypeOK, NEW r \in Requests, NEW pc \in Pcs, NEW layer \in Layers,
         at' = [at EXCEPT ![r] = [[at[r] EXCEPT !.pc = pc] EXCEPT !.layer = layer]]
  PROVE  Moves(r) /\ at'[r].pc = pc
<1> DEFINE m == [at[r] EXCEPT !.pc = pc]
           n == [m EXCEPT !.layer = layer]
<1>1. at[r] \in Place
  BY DEF TypeOK
<1>2. m \in Place /\ m.pc = pc
  BY <1>1, PlacePc
<1>3. n \in Place /\ n.pc = pc
  <2> HIDE DEF m
  <2> QED BY <1>2, PlaceLayer
<1>4. at' = [at EXCEPT ![r] = n]
  OBVIOUS
<1> HIDE DEF n
<1> QED BY <1>3, <1>4, PlaceReplaced

LEMMA UnrecoveredMoves ==
  ASSUME TypeOK, NEW r \in Requests, Unrecovered(r)
  PROVE  Moves(r) /\ at'[r].pc \in {"serve", "reject", "leave", "end"}
<1>1. at[r].layer \in Layers /\ "end" \in Pcs /\ "outer" \in Layers
  BY DEF TypeOK, Place, Layers, Pcs
<1>0. at \in [Requests -> Place] /\ at[r] \in Place
  BY DEF TypeOK
<1>2. CASE Serve(r, at[r].layer) \/ Serve(r, "outer")
  BY <1>1, <1>2, ServeMoves
<1>3. CASE at' = [at EXCEPT ![r].pc = "reject",
                            ![r].layer = IF @ = "upload" THEN "file" ELSE "outer"]
  <2> DEFINE layer == IF at[r].layer = "upload" THEN "file" ELSE "outer"
  <2>1. layer \in Layers /\ "reject" \in Pcs
    BY DEF Layers, Pcs
  <2>2. at' = [at EXCEPT ![r].pc = "reject", ![r].layer = layer]
    BY <1>0, <1>3 DEF Place
  <2> HIDE DEF layer
  <2>3. at' = [at EXCEPT ![r] = [[at[r] EXCEPT !.pc = "reject"] EXCEPT !.layer = layer]]
    BY <1>0, <2>2
  <2> QED BY <2>1, <2>3, PcLayerMoves
<1>4. CASE at' = [at EXCEPT ![r].layer = "outer",
                    ![r].pc = IF at[r].cause = "token" THEN "reject" ELSE "leave"]
  <2> DEFINE pc == IF at[r].cause = "token" THEN "reject" ELSE "leave"
  <2>1. pc \in {"reject", "leave"} /\ pc \in Pcs
    BY DEF Pcs
  <2>2. at' = [at EXCEPT ![r].layer = "outer", ![r].pc = pc]
    BY <1>4
  <2> HIDE DEF pc
  <2>3. at' = [at EXCEPT ![r] = [[at[r] EXCEPT !.pc = pc] EXCEPT !.layer = "outer"]]
    BY <1>0, <2>2 DEF Place
  <2> QED BY <1>1, <2>1, <2>3, PcLayerMoves
<1>5. CASE Goto(r, "end")
  BY <1>1, <1>5, GotoMoves
<1> QED BY <1>2, <1>3, <1>4, <1>5 DEF Unrecovered

LEMMA AfterFailureMoves ==
  ASSUME TypeOK, NEW r \in Requests, AfterFailure(r)
  PROVE  /\ Moves(r) /\ at'[r].phase = at[r].phase
         /\ IF at[r].phase = "refresh" THEN at'[r].pc = "leave"
            ELSE at'[r].pc = "end" \/ at'[r].pc = "pick"
<1>1. "leave" \in Pcs /\ "pick" \in Pcs /\ "end" \in Pcs
  BY DEF Pcs
<1>2. CASE at[r].phase = "refresh"
  <2>1. Goto(r, "leave")
    BY <1>2 DEF AfterFailure, Beginning
  <2> QED BY <1>1, <1>2, <2>1, GotoMoves
<1>3. CASE at[r].phase # "refresh"
  <2>1. Goto(r, "end") \/ Goto(r, "pick")
    BY <1>3 DEF AfterFailure
  <2> QED BY <1>1, <1>3, <2>1, GotoMoves
<1> QED BY <1>2, <1>3

LEMMA AccountFailsMoves ==
  ASSUME TypeOK, NEW r \in Requests, NEW layer \in Layers, AccountFails(r, layer)
  PROVE  Moves(r) /\ at'[r].pc \in {"leave", "end"}
<1>1. PICK pc \in {"leave", "end"} :
        at' = [at EXCEPT ![r].pc = pc, ![r].layer = layer, ![r].cause = "account"]
  BY DEF AccountFails
<1> DEFINE m == [[at[r] EXCEPT !.pc = pc] EXCEPT !.layer = layer]
           n == [m EXCEPT !.cause = "account"]
<1>2. at \in [Requests -> Place] /\ at[r] \in Place /\ pc \in Pcs
  BY DEF TypeOK, Pcs
<1>3. m \in Place /\ m.pc = pc
  <2> DEFINE k == [at[r] EXCEPT !.pc = pc]
  <2>1. k \in Place /\ k.pc = pc
    BY <1>2, PlacePc
  <2> HIDE DEF k
  <2>2. [k EXCEPT !.layer = layer] \in Place /\ [k EXCEPT !.layer = layer].pc = pc
    BY <2>1, PlaceLayer
  <2> QED BY <2>2 DEF k
<1>4. n \in Place /\ n.pc = pc
  <2> HIDE DEF m
  <2> QED BY <1>3, PlaceCause
<1>5. at' = [at EXCEPT ![r] = n]
  BY <1>1, <1>2
<1> HIDE DEF n
<1> QED BY <1>4, <1>5, PlaceReplaced

-----------------------------------------------------------------------------
(***************************************************************************)
(* What becomes of a request's RequestAuth and of its slot.                *)
(***************************************************************************)

(* Only the RequestAuth of r changes, to another one.                      *)
Updates(r) ==
  /\ auth' \in [Requests -> Auth]
  /\ \A q \in Requests \ {r} : auth'[q] = auth[q]

(* The account of which r holds a slot.                                    *)
Lease(r) == IF Leasing(r) THEN Acct(r) ELSE None

(* A step leaves the slots alone, returns the one r holds, or takes one.   *)
Keeps(r) == inUse' = inUse /\ Lease(r)' = Lease(r)
GivesBack(r) == inUse' = SlotReturned(r) /\ Lease(r)' = None
Takes(r, a) ==
  /\ Lease(r) = None /\ Free(a)
  /\ inUse' = [inUse EXCEPT ![a] = @ + 1] /\ Lease(r)' = a

LEMMA AuthReplaced ==
  ASSUME TypeOK, NEW r \in Requests, NEW u \in Auth, auth' = [auth EXCEPT ![r] = u]
  PROVE  Updates(r) /\ auth'[r] = u
BY DEF TypeOK, Updates

LEMMA NewAuthType ==
  ASSUME NEW a \in Accounts \cup {None}, NEW t \in Accounts \cup {None},
         NEW tried \in SUBSET Accounts
  PROVE  /\ NewAuth(a, t, tried) \in Auth
         /\ NewAuth(a, t, tried).acct = a
         /\ NewAuth(a, t, tried).released = {}
BY RequestAssumption DEF NewAuth, Auth

LEMMA UnchangedAuth ==
  ASSUME TypeOK, NEW r \in Requests, UNCHANGED <<inUse, auth>>
  PROVE  Updates(r) /\ Keeps(r)
BY DEF TypeOK, Updates, Keeps, Lease, Leasing, Acct

LEMMA ReturnedType ==
  ASSUME TypeOK, NEW r \in Requests
  PROVE  SlotReturned(r) \in [Accounts -> Nat]
<1>1. CASE Leasing(r)
  <2>1. Acct(r) \in Accounts
    BY <1>1 DEF Leasing, Acct, TypeOK, Auth
  <2>2. inUse \in [Accounts -> Nat] /\ inUse[Acct(r)] \in Nat
    BY <2>1 DEF TypeOK
  <2> QED BY <1>1, <2>1, <2>2 DEF SlotReturned, Returned
<1>2. CASE ~Leasing(r)
  BY <1>2 DEF SlotReturned, TypeOK
<1> QED BY <1>1, <1>2

(* Without a token: only a refresh keeps its account.                      *)
LEMMA NoTokenKeepsOrReturns ==
  ASSUME TypeOK, NEW r \in Requests, Acct(r) \in Accounts,
         auth[r].released \subseteq auth[r].tried, NoToken(r)
  PROVE  /\ Updates(r) /\ inUse' \in [Accounts -> Nat]
         /\ auth'[r].released \subseteq auth'[r].tried
         /\ auth'[r].acct = Acct(r)
         /\ at[r].phase # "refresh" => Acct(r) \in auth'[r].released
         /\ Keeps(r) \/ GivesBack(r)
<1>1. auth \in [Requests -> Auth] /\ auth[r] \in Auth
  BY DEF TypeOK
<1>2. CASE at[r].phase = "refresh"
  <2> DEFINE u == [auth[r] EXCEPT !.refused = @ \cup {Acct(r)}]
  <2>1. /\ u \in Auth /\ u.released = auth[r].released
        /\ u.tried = auth[r].tried /\ u.acct = auth[r].acct
    BY <1>1 DEF Auth
  <2>2. auth' = [auth EXCEPT ![r] = u] /\ inUse' = inUse
    BY <1>1, <1>2 DEF NoToken
  <2> HIDE DEF u
  <2>3. Updates(r) /\ auth'[r] = u
    BY <2>1, <2>2, AuthReplaced
  <2>4. Keeps(r)
    BY <2>1, <2>2, <2>3 DEF Keeps, Lease, Leasing, Acct
  <2> QED BY <1>2, <2>1, <2>2, <2>3, <2>4 DEF TypeOK, Acct
<1>3. CASE at[r].phase # "refresh"
  <2> DEFINE v == [auth[r] EXCEPT !.tried = TriedNow(r)]
             u == [v EXCEPT !.released = @ \cup {Acct(r)}]
  <2>1. /\ v \in Auth /\ v.released = auth[r].released
        /\ v.tried = auth[r].tried \cup {Acct(r)} /\ v.acct = auth[r].acct
    BY <1>1 DEF Auth, TriedNow
  <2>2. /\ u \in Auth /\ u.released = auth[r].released \cup {Acct(r)}
        /\ u.tried = auth[r].tried \cup {Acct(r)} /\ u.acct = auth[r].acct
    <3> HIDE DEF v
    <3> QED BY <2>1 DEF Auth
  <2>3. auth' = [auth EXCEPT ![r] = u] /\ inUse' = SlotReturned(r)
    <3>1. /\ auth' = [auth EXCEPT ![r].tried = TriedNow(r), ![r].released = @ \cup {Acct(r)}]
          /\ inUse' = SlotReturned(r)
      BY <1>3 DEF NoToken
    <3> QED BY <1>1, <3>1
  <2> HIDE DEF u
  <2>4. Updates(r) /\ auth'[r] = u
    BY <2>2, <2>3, AuthReplaced
  <2>5. GivesBack(r)
    BY <2>2, <2>3, <2>4 DEF GivesBack, Lease, Leasing, Acct
  <2> QED BY <1>3, <2>2, <2>3, <2>4, <2>5, ReturnedType DEF Acct
<1> QED BY <1>2, <1>3

(* A token is remembered with its account.                                 *)
LEMMA TokenReadyKeeps ==
  ASSUME TypeOK, NEW r \in Requests, Acct(r) \in Accounts,
         TokenReady(r), UNCHANGED inUse
  PROVE  /\ Updates(r) /\ Keeps(r) /\ Moves(r) /\ at'[r].pc = "serve"
         /\ auth'[r].released = auth[r].released
         /\ auth'[r].tried = auth[r].tried
         /\ auth'[r].acct = Acct(r)
<1>1. auth \in [Requests -> Auth] /\ auth[r] \in Auth
  BY DEF TypeOK
<1>2. PICK u \in Auth :
        /\ auth' = [auth EXCEPT ![r] = u] /\ u.released = auth[r].released
        /\ u.tried = auth[r].tried /\ u.acct = auth[r].acct
  <2> DEFINE v == [auth[r] EXCEPT !.refreshed = @ \cup {Acct(r)}]
             w == [auth[r] EXCEPT !.used = @ \cup {Acct(r)}]
  <2>1. /\ v \in Auth /\ v.released = auth[r].released
        /\ v.tried = auth[r].tried /\ v.acct = auth[r].acct
    BY <1>1 DEF Auth
  <2>2. /\ w \in Auth /\ w.released = auth[r].released
        /\ w.tried = auth[r].tried /\ w.acct = auth[r].acct
    BY <1>1 DEF Auth
  <2>3. auth' = [auth EXCEPT ![r] = v] \/ auth' = [auth EXCEPT ![r] = w]
    BY <1>1 DEF TokenReady
  <2> HIDE DEF v, w
  <2> QED BY <2>1, <2>2, <2>3
<1>3. Updates(r) /\ auth'[r] = u
  BY <1>2, AuthReplaced
<1>4. Keeps(r)
  BY <1>2, <1>3 DEF Keeps, Lease, Leasing, Acct
<1>5. Moves(r) /\ at'[r].pc = "serve"
  <2>1. Recovered(r, at[r].phase = "switch")
    BY DEF TokenReady
  <2>2. (at[r].phase = "switch") \in BOOLEAN
    OBVIOUS
  <2> HIDE DEF Recovered
  <2> QED BY <2>1, <2>2, RecoveredMoves
<1> QED BY <1>2, <1>3, <1>4, <1>5 DEF Acct

-----------------------------------------------------------------------------
(***************************************************************************)
(* Every step of a request.                                                *)
(***************************************************************************)

OthersTyped ==
  /\ failures' \in [Accounts -> 0..Threshold]
  /\ flagged' \in [Accounts -> BOOLEAN]
  /\ session' \in [Requests -> Accounts \cup {None}]
  /\ counted' \in [Requests -> Reported]

(* A step of r, seen from the accounts and their slots.                    *)
Advances(r) ==
  /\ Moves(r) /\ Updates(r) /\ Healthy(at'[r], auth'[r])
  /\ inUse' \in [Accounts -> Nat] /\ OthersTyped
  /\ Keeps(r) \/ GivesBack(r) \/ \E a \in Accounts : Takes(r, a)

(* A request that has an account and is neither looking for another one    *)
(* nor let go by this one.                                                 *)
Engaged(r) == at[r].pc \notin {"out", "pick", "end"}

LEMMA EngagedHasAccount ==
  ASSUME IInv, NEW r \in Requests, Engaged(r)
  PROVE  Acct(r) \in Accounts
BY DEF IInv, Healthy, Engaged, Acct

LEMMA OthersUnchanged ==
  ASSUME TypeOK, UNCHANGED <<failures, flagged, session, counted>>
  PROVE  OthersTyped
BY DEF TypeOK, OthersTyped

(* A step that only moves r, to a place its RequestAuth allows.            *)
LEMMA OnlyMoves ==
  ASSUME IInv, NEW r \in Requests, Moves(r),
         \/ at'[r].pc = "end"
         \/ /\ at'[r].pc \in {"serve", "reject", "leave", "ensure", "lift", "relogin"}
            /\ Acct(r) \in Accounts
         \/ /\ at'[r].pc = "note" /\ at'[r].phase = "refresh"
            /\ Acct(r) \in Accounts,
         UNCHANGED <<inUse, auth>>, OthersTyped
  PROVE  Advances(r)
<1>1. TypeOK /\ auth[r].released \subseteq auth[r].tried
  BY DEF IInv, Healthy
<1>2. Updates(r) /\ Keeps(r)
  BY <1>1, UnchangedAuth
<1>3. Healthy(at'[r], auth'[r])
  BY <1>1 DEF Healthy, Idle, Acct
<1> QED BY <1>1, <1>2, <1>3 DEF Advances, TypeOK

LEMMA BeginAdvances ==
  ASSUME IInv, NEW r \in Requests, Begin(r)
  PROVE  Advances(r)
<1>1. TypeOK /\ at[r].phase = "begin" /\ "pick" \in Pcs
  BY DEF IInv, Healthy, Begin, Here, Pcs
<1>2. Moves(r) /\ at'[r].pc = "pick" /\ at'[r].phase = "begin"
  BY <1>1, GotoMoves DEF Begin
<1>3. PICK t \in Targets : auth' = [auth EXCEPT ![r] = NewAuth(None, t, {})]
  BY DEF Begin
<1> DEFINE u == NewAuth(None, t, {})
<1>4. u \in Auth /\ u.acct = None /\ u.released = {}
  BY NewAuthType, RequestAssumption
<1>5. auth' = [auth EXCEPT ![r] = u]
  BY <1>3
<1> HIDE DEF u
<1>6. Updates(r) /\ auth'[r] = u
  BY <1>1, <1>4, <1>5, AuthReplaced
<1>7. Healthy(at'[r], auth'[r])
  BY <1>2, <1>4, <1>6 DEF Healthy
<1>8. Keeps(r)
  <2>1. Lease(r) = None
    BY DEF IInv, Healthy, Idle, Begin, Here, Lease, Leasing, Acct
  <2>2. Lease(r)' = None
    BY <1>4, <1>6 DEF Lease, Leasing, Acct
  <2> QED BY <2>1, <2>2 DEF Keeps, Begin
<1>9. OthersTyped
  BY <1>1, OthersUnchanged DEF Begin
<1> QED BY <1>1, <1>2, <1>6, <1>7, <1>8, <1>9 DEF Advances, Begin, TypeOK

LEMMA PickAdvances ==
  ASSUME IInv, NEW r \in Requests, Pick(r)
  PROVE  Advances(r)
<1>1. TypeOK /\ "ensure" \in Pcs /\ auth[r].released \subseteq auth[r].tried
  BY DEF IInv, Healthy, Pcs
<1>2. Moves(r) /\ at'[r].pc = "ensure"
  BY <1>1, GotoMoves DEF Pick
<1>3. PICK a \in Schedulable \ auth[r].tried :
        /\ Free(a)
        /\ inUse' = [inUse EXCEPT ![a] = @ + 1]
        /\ auth' = [auth EXCEPT ![r] =
             IF Beginning(r) THEN NewAuth(a, auth[r].target, auth[r].tried)
             ELSE [auth[r] EXCEPT !.acct = a, !.switches = @ + 1]]
  BY DEF Pick
<1>4. a \in Accounts /\ auth[r] \in Auth
  BY <1>1 DEF Schedulable, TypeOK
<1>5. PICK u \in Auth :
        /\ auth' = [auth EXCEPT ![r] = u]
        /\ u.acct = a /\ u.released \subseteq auth[r].released
        /\ u.released \subseteq u.tried
  <2>1. CASE Beginning(r)
    <3> DEFINE n == NewAuth(a, auth[r].target, auth[r].tried)
    <3>1. n \in Auth /\ n.acct = a /\ n.released = {}
      <4>1. auth[r].target \in Accounts \cup {None} /\ auth[r].tried \in SUBSET Accounts
        BY <1>4 DEF Auth
      <4>2. a \in Accounts \cup {None}
        BY <1>4
      <4> QED BY <4>1, <4>2, NewAuthType
    <3>2. auth' = [auth EXCEPT ![r] = n]
      BY <1>3, <2>1
    <3> HIDE DEF n
    <3> QED BY <3>1, <3>2
  <2>2. CASE ~Beginning(r)
    <3> DEFINE m == [auth[r] EXCEPT !.acct = a]
               n == [m EXCEPT !.switches = @ + 1]
    <3>1. auth[r].switches + 1 \in 0..MaxSwitches
      BY <1>4, <2>2, RequestAssumption DEF Pick, Spent, Auth
    <3>2. /\ m \in Auth /\ m.acct = a /\ m.released = auth[r].released
          /\ m.tried = auth[r].tried /\ m.switches = auth[r].switches
      BY <1>4 DEF Auth
    <3>3. /\ n \in Auth /\ n.acct = a /\ n.released = auth[r].released
          /\ n.tried = auth[r].tried
      <4> HIDE DEF m
      <4> QED BY <3>1, <3>2 DEF Auth
    <3>4. auth' = [auth EXCEPT ![r] = n]
      BY <1>3, <1>4, <2>2
    <3> HIDE DEF n
    <3> QED BY <1>1, <3>3, <3>4
  <2> QED BY <2>1, <2>2
<1>6. Updates(r) /\ auth'[r] = u
  BY <1>1, <1>5, AuthReplaced
<1>7. Healthy(at'[r], auth'[r])
  BY <1>2, <1>4, <1>5, <1>6 DEF Healthy, Idle
<1>8. Takes(r, a)
  <2>1. Lease(r) = None
    BY DEF IInv, Healthy, Idle, Pick, Here, Lease, Leasing, Acct
  <2>2. a \notin u.released /\ a # None
    BY <1>1, <1>3, <1>4, <1>5, RequestAssumption
  <2>3. Lease(r)' = a
    BY <1>5, <1>6, <2>2 DEF Lease, Leasing, Acct
  <2> QED BY <1>3, <2>1, <2>3 DEF Takes
<1>9. OthersTyped /\ inUse' \in [Accounts -> Nat]
  BY <1>1, <1>3, <1>4, OthersUnchanged DEF Pick, TypeOK
<1> QED BY <1>2, <1>4, <1>6, <1>7, <1>8, <1>9 DEF Advances

LEMMA NoAccountAdvances ==
  ASSUME IInv, NEW r \in Requests, NoAccount(r)
  PROVE  Advances(r)
<1>1. TypeOK /\ OthersTyped /\ "end" \in Pcs
  BY OthersUnchanged DEF IInv, NoAccount, Pcs
<1>2. CASE Beginning(r)
  <2>1. Moves(r) /\ at'[r].pc = "end"
    BY <1>1, <1>2, GotoMoves DEF NoAccount
  <2> QED BY <1>1, <2>1, OnlyMoves DEF NoAccount
<1>3. CASE ~Beginning(r)
  <2>1. Moves(r) /\ at'[r].pc \in {"serve", "reject", "leave", "end"}
    BY <1>1, <1>3, UnrecoveredMoves DEF NoAccount
  <2>2. Acct(r) \in Accounts
    BY <1>3 DEF IInv, Healthy, NoAccount, Here, Beginning, Acct
  <2> QED BY <1>1, <2>1, <2>2, OnlyMoves DEF NoAccount
<1> QED BY <1>2, <1>3

LEMMA RefuseAdvances ==
  ASSUME IInv, NEW r \in Requests, Refuse(r)
  PROVE  Advances(r)
<1>1. TypeOK /\ OthersTyped
  BY OthersUnchanged DEF IInv, Refuse
<1>2. Moves(r) /\ at'[r].pc \in {"serve", "reject", "leave", "end"}
  BY <1>1, UnrecoveredMoves DEF Refuse
<1>3. Acct(r) \in Accounts
  BY EngagedHasAccount DEF Engaged, Refuse, Here
<1> QED BY <1>1, <1>2, <1>3, OnlyMoves DEF Refuse

LEMMA StartSwitchAdvances ==
  ASSUME IInv, NEW r \in Requests, StartSwitch(r)
  PROVE  Advances(r)
<1>1. TypeOK /\ at[r] \in Place /\ at \in [Requests -> Place] /\ OthersTyped
  BY OthersUnchanged DEF IInv, TypeOK, StartSwitch
<1>2. Acct(r) \in Accounts /\ auth[r].released \subseteq auth[r].tried
  BY EngagedHasAccount DEF Engaged, StartSwitch, Here, IInv, Healthy
<1>3. Moves(r) /\ at'[r].pc = "pick" /\ at'[r].phase = "switch"
  <2> DEFINE m == [at[r] EXCEPT !.pc = "pick"]
             n == [m EXCEPT !.phase = "switch"]
  <2>1. "pick" \in Pcs /\ "switch" \in Phases
    BY DEF Pcs, Phases
  <2>2. m \in Place /\ m.pc = "pick"
    BY <1>1, <2>1, PlacePc
  <2>3. n \in Place /\ n.pc = "pick" /\ n.phase = "switch"
    <3> HIDE DEF m
    <3> QED BY <2>1, <2>2, PlacePhase
  <2>4. at' = [at EXCEPT ![r] = n]
    BY <1>1 DEF StartSwitch
  <2> HIDE DEF n
  <2> QED BY <1>1, <2>3, <2>4, PlaceReplaced
<1> DEFINE v == [auth[r] EXCEPT !.cleanup = Retired(r)]
           w == [v EXCEPT !.tried = @ \cup {Acct(r)}]
           u == [w EXCEPT !.released = @ \cup {Acct(r)}]
<1>4. auth[r] \in Auth /\ auth \in [Requests -> Auth]
  BY <1>1 DEF TypeOK
<1>5. /\ v \in Auth /\ v.released = auth[r].released
      /\ v.tried = auth[r].tried /\ v.acct = auth[r].acct
  BY <1>4 DEF Auth, Retired
<1>6. /\ w \in Auth /\ w.released = auth[r].released
      /\ w.tried = auth[r].tried \cup {Acct(r)} /\ w.acct = auth[r].acct
  <2> HIDE DEF v
  <2> QED BY <1>2, <1>5 DEF Auth
<1>7. /\ u \in Auth /\ u.released = auth[r].released \cup {Acct(r)}
      /\ u.tried = auth[r].tried \cup {Acct(r)} /\ u.acct = auth[r].acct
  <2> HIDE DEF w
  <2> QED BY <1>2, <1>6 DEF Auth
<1>8. auth' = [auth EXCEPT ![r] = u]
  BY <1>4 DEF StartSwitch
<1> HIDE DEF u
<1>9. Updates(r) /\ auth'[r] = u
  BY <1>1, <1>7, <1>8, AuthReplaced
<1>10. Healthy(at'[r], auth'[r])
  BY <1>2, <1>3, <1>7, <1>9 DEF Healthy, Idle, Acct
<1>11. GivesBack(r)
  BY <1>7, <1>9 DEF StartSwitch, GivesBack, Lease, Leasing, Acct
<1>12. inUse' \in [Accounts -> Nat]
  BY <1>1, ReturnedType DEF StartSwitch
<1> QED BY <1>1, <1>3, <1>9, <1>10, <1>11, <1>12 DEF Advances

LEMMA HasTokenAdvances ==
  ASSUME IInv, NEW r \in Requests, HasToken(r)
  PROVE  Advances(r)
<1>1. TypeOK /\ OthersTyped /\ Acct(r) \in Accounts
  BY OthersUnchanged, EngagedHasAccount
     DEF IInv, HasToken, WantsToken, Here, Engaged
<1>2. /\ Updates(r) /\ Keeps(r) /\ Moves(r) /\ at'[r].pc = "serve"
      /\ auth'[r].released = auth[r].released /\ auth'[r].tried = auth[r].tried
      /\ auth'[r].acct = Acct(r)
  BY <1>1, TokenReadyKeeps DEF HasToken
<1>3. Healthy(at'[r], auth'[r])
  BY <1>1, <1>2 DEF IInv, Healthy, Idle
<1> QED BY <1>1, <1>2, <1>3 DEF Advances, HasToken, TypeOK

LEMMA LoginSucceedsAdvances ==
  ASSUME IInv, NEW r \in Requests, LoginSucceeds(r)
  PROVE  Advances(r)
<1>1. TypeOK /\ Acct(r) \in Accounts /\ "lift" \in Pcs
  BY EngagedHasAccount DEF IInv, LoginSucceeds, WantsToken, Here, Engaged, Pcs
<1>2. Moves(r) /\ at'[r].pc = "lift"
  BY <1>1, GotoMoves DEF LoginSucceeds
<1>3. OthersTyped
  BY <1>1, RequestAssumption DEF LoginSucceeds, TypeOK, OthersTyped
<1> QED BY <1>1, <1>2, <1>3, OnlyMoves DEF LoginSucceeds

LEMMA LiftAdvances ==
  ASSUME IInv, NEW r \in Requests, Lift(r)
  PROVE  Advances(r)
<1>1. /\ TypeOK /\ Acct(r) \in Accounts
      /\ auth[r].released \subseteq auth[r].tried
  BY EngagedHasAccount DEF IInv, Healthy, Lift, Here, Engaged
<1>2. OthersTyped
  BY <1>1 DEF Lift, TypeOK, OthersTyped
<1>3. CASE TokenReady(r) /\ UNCHANGED inUse
  <2>1. /\ Updates(r) /\ Keeps(r) /\ Moves(r) /\ at'[r].pc = "serve"
        /\ auth'[r].released = auth[r].released /\ auth'[r].tried = auth[r].tried
        /\ auth'[r].acct = Acct(r)
    BY <1>1, <1>3, TokenReadyKeeps
  <2>2. Healthy(at'[r], auth'[r])
    BY <1>1, <2>1 DEF Healthy, Idle
  <2> QED BY <1>1, <1>2, <1>3, <2>1, <2>2 DEF Advances, TypeOK
<1>4. CASE NoToken(r) /\ AfterFailure(r)
  <2>1. /\ Updates(r) /\ inUse' \in [Accounts -> Nat]
        /\ auth'[r].released \subseteq auth'[r].tried
        /\ auth'[r].acct = Acct(r)
        /\ at[r].phase # "refresh" => Acct(r) \in auth'[r].released
        /\ Keeps(r) \/ GivesBack(r)
    BY <1>1, <1>4, NoTokenKeepsOrReturns
  <2>2. /\ Moves(r) /\ at'[r].phase = at[r].phase
        /\ IF at[r].phase = "refresh" THEN at'[r].pc = "leave"
           ELSE at'[r].pc = "end" \/ at'[r].pc = "pick"
    BY <1>1, <1>4, AfterFailureMoves
  <2>3. Healthy(at'[r], auth'[r])
    BY <1>1, <2>1, <2>2 DEF Healthy, Idle
  <2> QED BY <1>2, <2>1, <2>2, <2>3 DEF Advances
<1> QED BY <1>3, <1>4 DEF Lift

LEMMA LoginFailsAdvances ==
  ASSUME IInv, NEW r \in Requests, LoginFails(r)
  PROVE  Advances(r)
<1>1. /\ TypeOK /\ Acct(r) \in Accounts /\ OthersTyped
      /\ auth[r].released \subseteq auth[r].tried
  BY EngagedHasAccount, OthersUnchanged
     DEF IInv, Healthy, LoginFails, WantsToken, Here, Engaged
<1>2. /\ Updates(r) /\ inUse' \in [Accounts -> Nat]
      /\ auth'[r].released \subseteq auth'[r].tried
      /\ auth'[r].acct = Acct(r)
      /\ at[r].phase # "refresh" => Acct(r) \in auth'[r].released
      /\ Keeps(r) \/ GivesBack(r)
  BY <1>1, NoTokenKeepsOrReturns DEF LoginFails
<1>3. /\ Moves(r)
      /\ \/ at'[r].pc \in {"note", "pick"} /\ at'[r].phase = at[r].phase
         \/ at'[r].pc = "leave"
         \/ at'[r].pc = "end"
      /\ at'[r].pc = "pick" => at[r].phase # "refresh"
  <2>1. "note" \in Pcs /\ "end" \in Pcs
    BY DEF Pcs
  <2>2. CASE Goto(r, "note") \/ Goto(r, "end")
    BY <1>1, <2>1, <2>2, GotoMoves
  <2>3. CASE AfterFailure(r)
    <3>1. /\ Moves(r) /\ at'[r].phase = at[r].phase
          /\ IF at[r].phase = "refresh" THEN at'[r].pc = "leave"
             ELSE at'[r].pc = "end" \/ at'[r].pc = "pick"
      BY <1>1, <2>3, AfterFailureMoves
    <3> QED BY <3>1
  <2> QED BY <2>2, <2>3 DEF LoginFails
<1>4. Healthy(at'[r], auth'[r])
  BY <1>1, <1>2, <1>3 DEF Healthy, Idle
<1> QED BY <1>1, <1>2, <1>3, <1>4 DEF Advances

LEMMA NoteAdvances ==
  ASSUME IInv, NEW r \in Requests, Note(r)
  PROVE  Advances(r)
<1>1. /\ TypeOK /\ Acct(r) \in Accounts /\ Healthy(at[r], auth[r])
      /\ at[r].pc = "note"
  BY EngagedHasAccount DEF IInv, Note, Here, Engaged
<1> DEFINE u == [auth[r] EXCEPT !.failed = @ \cup {Acct(r)}]
<1>2. auth[r] \in Auth /\ auth \in [Requests -> Auth]
  BY <1>1 DEF TypeOK
<1>3. /\ u \in Auth /\ u.released = auth[r].released
      /\ u.tried = auth[r].tried /\ u.acct = auth[r].acct
  BY <1>1, <1>2 DEF Auth
<1>4. auth' = [auth EXCEPT ![r] = u]
  BY <1>2 DEF Note
<1> HIDE DEF u
<1>5. Updates(r) /\ auth'[r] = u
  BY <1>1, <1>3, <1>4, AuthReplaced
<1>6. Keeps(r)
  BY <1>3, <1>5 DEF Note, Keeps, Lease, Leasing, Acct
<1>7. OthersTyped
  <2>1. failures' \in [Accounts -> 0..Threshold]
    <3>1. failures \in [Accounts -> 0..Threshold]
      BY <1>1 DEF TypeOK
    <3>2. failures[Acct(r)] \in 0..Threshold
      BY <1>1, <3>1
    <3>3. OneMore(failures[Acct(r)]) \in 0..Threshold
      BY <3>2, RequestAssumption DEF OneMore
    <3>4. failures' = [failures EXCEPT ![Acct(r)] = OneMore(failures[Acct(r)])]
      BY DEF Note
    <3> QED BY <1>1, <3>1, <3>3, <3>4
  <2>2. counted' \in [Requests -> Reported]
    BY <1>1 DEF Note, TypeOK, Reported
  <2> QED BY <1>1, <2>1, <2>2 DEF Note, TypeOK, OthersTyped
<1>8. /\ Moves(r) /\ at'[r].phase = at[r].phase
      /\ \/ at'[r].pc = "persist"
         \/ at[r].phase = "refresh" /\ at'[r].pc = "leave"
         \/ at[r].phase # "refresh" /\ at'[r].pc \in {"end", "pick"}
  <2>1. "persist" \in Pcs
    BY DEF Pcs
  <2>2. CASE Goto(r, "persist")
    BY <1>1, <2>1, <2>2, GotoMoves
  <2>3. CASE AfterFailure(r)
    <3>1. /\ Moves(r) /\ at'[r].phase = at[r].phase
          /\ IF at[r].phase = "refresh" THEN at'[r].pc = "leave"
             ELSE at'[r].pc = "end" \/ at'[r].pc = "pick"
      BY <1>1, <2>3, AfterFailureMoves
    <3> QED BY <3>1
  <2>4. Goto(r, "persist") \/ AfterFailure(r)
    BY DEF Note
  <2> QED BY <2>2, <2>3, <2>4
<1>9. Healthy(at'[r], auth'[r])
  BY <1>1, <1>3, <1>5, <1>8 DEF Healthy, Idle, Acct
<1> QED BY <1>1, <1>5, <1>6, <1>7, <1>8, <1>9 DEF Advances, Note, TypeOK

LEMMA PersistAdvances ==
  ASSUME IInv, NEW r \in Requests, Persist(r)
  PROVE  Advances(r)
<1>1. /\ TypeOK /\ Acct(r) \in Accounts /\ Healthy(at[r], auth[r])
      /\ at[r].pc = "persist"
  BY EngagedHasAccount DEF IInv, Persist, Here, Engaged
<1>2. Updates(r) /\ Keeps(r)
  BY <1>1, UnchangedAuth DEF Persist
<1>3. OthersTyped
  BY <1>1 DEF Persist, TypeOK, OthersTyped
<1>4. /\ Moves(r) /\ at'[r].phase = at[r].phase
      /\ IF at[r].phase = "refresh" THEN at'[r].pc = "leave"
         ELSE at'[r].pc = "end" \/ at'[r].pc = "pick"
  BY <1>1, AfterFailureMoves DEF Persist
<1>5. Healthy(at'[r], auth'[r])
  BY <1>1, <1>4 DEF Persist, Healthy, Idle, Acct
<1> QED BY <1>1, <1>2, <1>3, <1>4, <1>5 DEF Advances, Persist, TypeOK

LEMMA RecoverAdvances ==
  ASSUME IInv, NEW r \in Requests, Recover(r)
  PROVE  Advances(r)
<1>1. /\ TypeOK /\ Acct(r) \in Accounts /\ OthersTyped
      /\ at[r] \in Place /\ at \in [Requests -> Place]
  BY EngagedHasAccount, OthersUnchanged DEF IInv, Recover, Here, Engaged, TypeOK
<1>2. PICK pc \in {"note", "leave", "relogin"} :
        at' = [at EXCEPT ![r].phase = "refresh", ![r].pc = pc]
  <2> DEFINE next == CASE Reports(r) -> "note"
                       [] Acct(r) \in auth[r].refreshed \cup auth[r].refused -> "leave"
                       [] OTHER -> "relogin"
  <2>1. next \in {"note", "leave", "relogin"}
    BY DEF Reports
  <2>2. at' = [at EXCEPT ![r].phase = "refresh", ![r].pc = next]
    BY DEF Recover
  <2> HIDE DEF next
  <2> QED BY <2>1, <2>2
<1> DEFINE m == [at[r] EXCEPT !.phase = "refresh"]
           n == [m EXCEPT !.pc = pc]
<1>3. "refresh" \in Phases /\ pc \in Pcs
  BY DEF Phases, Pcs
<1>4. m \in Place /\ m.phase = "refresh"
  BY <1>1, <1>3, PlacePhase
<1>5. n \in Place /\ n.pc = pc /\ n.phase = "refresh"
  <2> HIDE DEF m
  <2> QED BY <1>3, <1>4, PlacePc
<1>6. at' = [at EXCEPT ![r] = n]
  BY <1>1, <1>2
<1> HIDE DEF n
<1>7. Moves(r) /\ at'[r].pc = pc /\ at'[r].phase = "refresh"
  BY <1>1, <1>5, <1>6, PlaceReplaced
<1> QED BY <1>1, <1>7, OnlyMoves DEF Recover

(* Work leaves the slots alone, whatever comes of it.                      *)
LEMMA WorkMoves ==
  ASSUME TypeOK, NEW r \in Requests, Work(r)
  PROVE  Moves(r) /\ at'[r].pc \in {"serve", "reject", "leave", "end"}
<1>1. /\ "reject" \in Pcs /\ "leave" \in Pcs /\ "open" \in Layers
      /\ "outer" \in Layers /\ "turn" \in Layers /\ "repair" \in Layers
      /\ "file" \in Layers
  BY DEF Pcs, Layers
<1>2. CASE \E layer \in Layers : Serve(r, layer)
  BY <1>2, ServeMoves
<1>3. CASE \E layer \in Layers : AccountFails(r, layer)
  BY <1>3, AccountFailsMoves
<1>4. CASE Goto(r, "reject") \/ Goto(r, "leave")
  BY <1>1, <1>4, GotoMoves
<1> QED BY <1>1, <1>2, <1>3, <1>4
        DEF Work, Upload, Open, Turn, Read, Repair, Rejected

LEMMA WorkAdvances ==
  ASSUME IInv, NEW r \in Requests, Work(r)
  PROVE  Advances(r)
<1>1. /\ TypeOK /\ Acct(r) \in Accounts /\ Healthy(at[r], auth[r])
  BY EngagedHasAccount
     DEF IInv, Work, Upload, Open, Turn, Read, Repair, Working, Here, Engaged
<1>2. Moves(r) /\ at'[r].pc \in {"serve", "reject", "leave", "end"}
  BY <1>1, WorkMoves
<1>3. CASE UNCHANGED <<inUse, failures, flagged, auth, session, counted>>
  <2>1. OthersTyped
    BY <1>1, <1>3, OthersUnchanged
  <2> QED BY <1>1, <1>2, <1>3, <2>1, OnlyMoves
<1>4. CASE Open(r)
  <2>1. auth[r] \in Auth /\ auth \in [Requests -> Auth]
    BY <1>1 DEF TypeOK
  <2>2. PICK c \in Accounts \cup {None} : auth' = [auth EXCEPT ![r].cleanup = c]
    BY <1>1, <1>4 DEF Open, Retired
  <2> DEFINE u == [auth[r] EXCEPT !.cleanup = c]
  <2>3. /\ u \in Auth /\ u.released = auth[r].released
        /\ u.tried = auth[r].tried /\ u.acct = auth[r].acct
    BY <2>1 DEF Auth
  <2>4. auth' = [auth EXCEPT ![r] = u]
    BY <2>1, <2>2
  <2> HIDE DEF u
  <2>5. Updates(r) /\ auth'[r] = u
    BY <1>1, <2>3, <2>4, AuthReplaced
  <2>6. Keeps(r)
    BY <1>4, <2>3, <2>5 DEF Open, Keeps, Lease, Leasing, Acct
  <2>7. OthersTyped
    BY <1>1, <1>4 DEF Open, TypeOK, OthersTyped
  <2>8. Healthy(at'[r], auth'[r])
    BY <1>1, <1>2, <2>3, <2>5 DEF Healthy, Idle, Acct
  <2> QED BY <1>1, <1>2, <1>4, <2>5, <2>6, <2>7, <2>8 DEF Advances, Open, TypeOK
<1> QED BY <1>3, <1>4 DEF Work, Upload, Turn, Read, Repair

LEMMA EndAdvances ==
  ASSUME IInv, NEW r \in Requests, End(r)
  PROVE  Advances(r)
<1>1. TypeOK
  BY DEF IInv
<1>2. Moves(r) /\ at'[r].pc = "out" /\ at'[r].phase = "begin"
  <2>1. Start \in Place /\ Start.pc = "out" /\ Start.phase = "begin"
    BY DEF Start, Place
  <2>2. at' = [at EXCEPT ![r] = Start]
    BY DEF End, Leave
  <2> QED BY <1>1, <2>1, <2>2, PlaceReplaced
<1> DEFINE u == NewAuth(None, None, {})
<1>3. u \in Auth /\ u.acct = None /\ u.released = {}
  BY NewAuthType
<1>4. auth' = [auth EXCEPT ![r] = u]
  BY DEF End
<1> HIDE DEF u
<1>5. Updates(r) /\ auth'[r] = u
  BY <1>1, <1>3, <1>4, AuthReplaced
<1>6. GivesBack(r)
  BY <1>3, <1>5 DEF End, GivesBack, Lease, Leasing, Acct
<1>7. Healthy(at'[r], auth'[r])
  BY <1>2, <1>3, <1>5 DEF Healthy
<1>8. OthersTyped
  BY <1>1, RequestAssumption DEF End, TypeOK, OthersTyped, Reported, NothingReported
<1>9. inUse' \in [Accounts -> Nat]
  BY <1>1, ReturnedType DEF End
<1> QED BY <1>2, <1>5, <1>6, <1>7, <1>8, <1>9 DEF Advances

LEMMA StepAdvances ==
  ASSUME IInv, NEW r \in Requests, Begin(r) \/ Step(r) \/ Work(r)
  PROVE  Advances(r)
BY BeginAdvances, PickAdvances, NoAccountAdvances, RefuseAdvances,
   StartSwitchAdvances, HasTokenAdvances, LoginSucceedsAdvances, LiftAdvances,
   LoginFailsAdvances, NoteAdvances, PersistAdvances, RecoverAdvances,
   EndAdvances, WorkAdvances DEF Step

LEMMA AdminKeeps ==
  ASSUME IInv, NEW a \in Accounts, AdminEnables(a)
  PROVE  TypeOK' /\ UNCHANGED <<inUse, at, auth>>
BY DEF IInv, AdminEnables, TypeOK

-----------------------------------------------------------------------------
(***************************************************************************)
(* Theorems.                                                               *)
(***************************************************************************)

LEMMA IInvInit == Init => IInv
<1> SUFFICES ASSUME Init PROVE IInv
  OBVIOUS
<1>1. /\ NewAuth(None, None, {}) \in Auth
      /\ NewAuth(None, None, {}).acct = None
      /\ NewAuth(None, None, {}).released = {}
  BY NewAuthType
<1>2. Start \in Place /\ Start.pc = "out" /\ Start.phase = "begin"
  BY DEF Start, Place
<1>3. TypeOK
  BY <1>1, <1>2, RequestAssumption DEF Init, TypeOK, Reported, NothingReported
<1>4. ASSUME NEW r \in Requests PROVE Healthy(at[r], auth[r])
  <2>1. at[r] = Start /\ auth[r] = NewAuth(None, None, {})
    BY DEF Init
  <2> QED BY <1>1, <1>2, <2>1 DEF Healthy
<1> QED BY <1>3, <1>4 DEF IInv

LEMMA IInvStep == IInv /\ [Next]_vars => IInv'
<1> SUFFICES ASSUME IInv, [Next]_vars PROVE IInv'
  OBVIOUS
<1>1. ASSUME NEW r \in Requests, Begin(r) \/ Step(r) \/ Work(r) PROVE IInv'
  <2>1. Advances(r)
    BY <1>1, StepAdvances
  <2>2. TypeOK'
    BY <2>1 DEF Advances, Moves, Updates, OthersTyped, TypeOK
  <2>3. ASSUME NEW q \in Requests PROVE Healthy(at'[q], auth'[q])
    BY <2>1 DEF Advances, Moves, Updates, IInv
  <2> QED BY <2>2, <2>3 DEF IInv
<1>2. ASSUME NEW a \in Accounts, AdminEnables(a) PROVE IInv'
  BY <1>2, AdminKeeps DEF IInv
<1>3. CASE UNCHANGED vars
  BY <1>3 DEF vars, IInv, TypeOK
<1> QED BY <1>1, <1>2, <1>3 DEF Next

LEMMA IInvHolds == Spec => []IInv
BY IInvInit, IInvStep, PTL DEF Spec

(* Whatever fails, in whatever order: the pool's counts never go below 0,  *)
(* a request never spends more than MaxSwitches, and its RequestAuth only  *)
(* names accounts.                                                         *)
THEOREM RequestTypeCorrect == Spec => []TypeOK
<1>1. IInv => TypeOK
  BY DEF IInv
<1> QED BY <1>1, IInvHolds, PTL

(* Of a finite number of requests.                                         *)
LEMMA SlotsStep ==
  ASSUME IsFiniteSet(Requests), IInv, SlotsMatchLeases, [Next]_vars
  PROVE  SlotsMatchLeases'
<1>1. ASSUME NEW r \in Requests, Begin(r) \/ Step(r) \/ Work(r)
      PROVE  SlotsMatchLeases'
  <2>1. Advances(r)
    BY <1>1, StepAdvances
  <2>2. ASSUME NEW q \in Requests, q # r PROVE Lease(q)' = Lease(q)
    BY <2>1, <2>2 DEF Advances, Updates, Lease, Leasing, Acct
  <2> SUFFICES ASSUME NEW b \in Accounts
               PROVE  (inUse[b] = Cardinality(Holders(b)))'
    BY DEF SlotsMatchLeases
  <2>3. /\ inUse \in [Accounts -> Nat] /\ inUse[b] = Cardinality(Holders(b))
        /\ IsFiniteSet(Holders(b))
    BY FS_Subset DEF IInv, TypeOK, SlotsMatchLeases, Holders
  <2>4. /\ Holders(b) = {q \in Requests : Lease(q) = b}
        /\ Holders(b)' = {q \in Requests : Lease(q)' = b}
    BY RequestAssumption DEF Holders, Lease
  <2>5. CASE Keeps(r)
    <3>1. Holders(b)' = Holders(b)
      BY <2>2, <2>4, <2>5 DEF Keeps
    <3> QED BY <2>3, <2>5, <3>1 DEF Keeps
  <2>6. CASE GivesBack(r)
    <3>1. Holders(b)' = Holders(b) \ {r}
      BY <2>2, <2>4, <2>6, RequestAssumption DEF GivesBack
    <3>2. CASE r \in Holders(b)
      <4>1. Leasing(r) /\ Acct(r) = b
        BY <3>2 DEF Holders
      <4>2. Cardinality(Holders(b)') = Cardinality(Holders(b)) - 1
        BY <2>3, <3>1, <3>2, FS_RemoveElement
      <4>3. Cardinality(Holders(b)) # 0
        BY <2>3, <3>2, FS_EmptySet
      <4>4. inUse'[b] = inUse[b] - 1
        BY <2>3, <2>6, <4>1, <4>3 DEF GivesBack, SlotReturned, Returned
      <4> QED BY <2>3, <4>2, <4>4
    <3>3. CASE r \notin Holders(b)
      <4>1. inUse'[b] = inUse[b]
        BY <2>3, <2>6, <3>3 DEF Holders, GivesBack, SlotReturned, Returned
      <4>2. Holders(b)' = Holders(b)
        BY <3>1, <3>3
      <4> QED BY <2>3, <4>1, <4>2
    <3> QED BY <3>2, <3>3
  <2>7. CASE \E a \in Accounts : Takes(r, a)
    <3>1. PICK a \in Accounts : Takes(r, a)
      BY <2>7
    <3>2. CASE a = b
      <4>1. Holders(b)' = Holders(b) \cup {r} /\ r \notin Holders(b)
        BY <2>2, <2>4, <3>1, <3>2, RequestAssumption DEF Takes
      <4>2. Cardinality(Holders(b)') = Cardinality(Holders(b)) + 1
        BY <2>3, <4>1, FS_AddElement
      <4> QED BY <2>3, <3>1, <3>2, <4>2 DEF Takes
    <3>3. CASE a # b
      <4>1. Holders(b)' = Holders(b)
        BY <2>2, <2>4, <3>1, <3>3, RequestAssumption DEF Takes
      <4> QED BY <2>3, <3>1, <3>3, <4>1 DEF Takes
    <3> QED BY <3>2, <3>3
  <2> QED BY <2>1, <2>5, <2>6, <2>7 DEF Advances
<1>2. ASSUME UNCHANGED <<inUse, auth>> PROVE SlotsMatchLeases'
  BY <1>2 DEF SlotsMatchLeases, Holders, Leasing, Acct
<1> QED BY <1>1, <1>2, AdminKeeps DEF Next, vars

(* However requests fail, switch and end, the pool counts for an account   *)
(* just the requests that hold it: no slot leaks and none is returned      *)
(* twice.                                                                  *)
THEOREM SlotsOfLeases ==
  ASSUME IsFiniteSet(Requests)
  PROVE  Spec => []SlotsMatchLeases
<1>1. Init => SlotsMatchLeases
  <2> SUFFICES ASSUME Init PROVE SlotsMatchLeases
    OBVIOUS
  <2>1. ASSUME NEW a \in Accounts PROVE Holders(a) = {}
    BY DEF Init, Holders, Leasing, Acct, NewAuth
  <2> QED BY <2>1, FS_EmptySet DEF Init, SlotsMatchLeases
<1>2. IInv /\ SlotsMatchLeases /\ [Next]_vars => SlotsMatchLeases'
  BY SlotsStep
<1> QED BY <1>1, <1>2, IInvHolds, PTL DEF Spec

(* The ledger's leases, as the refinement maps them.                       *)
Leases == [r \in Requests |-> IF Leasing(r) THEN Acct(r) ELSE None]

(* Cardinality, as the instance sees it.                                   *)
LEMMA SameCardinality == \A S : Ledger!Cardinality(S) = Cardinality(S)
BY DEF Ledger!Cardinality, Cardinality

LEMMA LedgerStep ==
  ASSUME IInv, SlotsMatchLeases, [Next]_vars
  PROVE  [Ledger!Next]_(Ledger!vars)
<1>1. ASSUME NEW r \in Requests, Begin(r) \/ Step(r) \/ Work(r)
      PROVE  [Ledger!Next]_(Ledger!vars)
  <2>1. Advances(r)
    BY <1>1, StepAdvances
  <2>2. ASSUME NEW q \in Requests, q # r PROVE Leases'[q] = Leases[q]
    BY <2>1, <2>2 DEF Advances, Updates, Leases, Leasing, Acct
  <2>3. Leases[r] = Lease(r) /\ Leases'[r] = Lease(r)'
    BY DEF Leases, Lease
  <2>4. /\ Leases = [q \in Requests |-> Leases[q]]
        /\ Leases' = [q \in Requests |-> Leases'[q]]
    BY DEF Leases
  <2>5. CASE Keeps(r)
    <3>1. Leases' = Leases
      BY <2>2, <2>3, <2>4, <2>5 DEF Keeps
    <3> QED BY <3>1 DEF Ledger!vars, Leases
  <2>6. CASE GivesBack(r)
    <3>1. Leases' = [Leases EXCEPT ![r] = None]
      BY <2>2, <2>3, <2>4, <2>6 DEF GivesBack
    <3>2. CASE Leases[r] = None
      <4>1. Leases' = Leases
        BY <2>4, <3>1, <3>2
      <4> QED BY <4>1 DEF Ledger!vars, Leases
    <3>3. CASE Leases[r] # None
      <4>1. Ledger!End(r)
        BY <3>1, <3>3 DEF Ledger!End, Leases
      <4> QED BY <4>1 DEF Ledger!Next
    <3> QED BY <3>2, <3>3
  <2>7. CASE \E a \in Accounts : Takes(r, a)
    <3>1. PICK a \in Accounts : Takes(r, a)
      BY <2>7
    <3>2. Leases' = [Leases EXCEPT ![r] = a] /\ Leases[r] = None
      BY <2>2, <2>3, <2>4, <3>1 DEF Takes
    <3>3. Holders(a) = {q \in Requests : Leases[q] = a}
      BY RequestAssumption DEF Holders, Leases
    <3>4. Cardinality({q \in Requests : Leases[q] = a}) < PerAccount
      BY <3>1, <3>3 DEF Takes, Free, SlotsMatchLeases
    <3>5. Ledger!Grant(r, a)
      <4>1. Ledger!HeldBy(a) = {q \in Requests : Leases[q] = a}
        BY DEF Ledger!HeldBy, Leases
      <4>2. Ledger!Cardinality(Ledger!HeldBy(a)) < PerAccount
        BY <3>4, <4>1, SameCardinality
      <4> QED BY <3>2, <4>2 DEF Ledger!Grant, Leases
    <3> QED BY <3>5 DEF Ledger!Next
  <2> QED BY <2>1, <2>5, <2>6, <2>7 DEF Advances
<1>2. ASSUME UNCHANGED auth PROVE [Ledger!Next]_(Ledger!vars)
  BY <1>2 DEF Ledger!vars, Leasing, Acct
<1> QED BY <1>1, <1>2, AdminKeeps DEF Next, vars

(* Requests use the pool as its ledger promises: no request is given an    *)
(* account beyond its limit, and none moves to an account while it still   *)
(* holds another.                                                          *)
THEOREM RequestsKeepLedger ==
  ASSUME IsFiniteSet(Requests)
  PROVE  Spec => ImplementsLedger
<1>1. Init => Ledger!Init
  BY RequestAssumption DEF Init, Ledger!Init, Leasing, Acct, NewAuth
<1>2. IInv /\ SlotsMatchLeases /\ [Next]_vars => [Ledger!Next]_(Ledger!vars)
  BY LedgerStep
<1> QED BY <1>1, <1>2, IInvHolds, SlotsOfLeases, PTL
        DEF Spec, ImplementsLedger, Ledger!Spec
-----------------------------------------------------------------------------
(***************************************************************************)
(* What a request has reported, and whose session it is to clean up.       *)
(***************************************************************************)

(* Where an account is taken and made sure of.                             *)
Taking == {"pick", "ensure", "lift", "note", "persist"}

(* The accounts a request has reported, whichever way.                     *)
All(c) == c.take \cup c.refresh

(* What was counted of a refresh is on record in the RequestAuth, so that  *)
(* it is neither tried nor reported once more; nothing is counted of it    *)
(* before the first account works, which is when the RequestAuth may be    *)
(* renewed.  An account that was reported is the present one or was tried, *)
(* so that it is not taken again.                                          *)
Charged(u, c) ==
  /\ c.refresh \subseteq u.failed /\ c.refresh \subseteq u.refreshed \cup u.refused
  /\ All(c) \subseteq u.tried \cup {u.acct}

OnRecord(p, u, c) ==
  /\ Charged(u, c)
  /\ p.phase = "begin" /\ p.pc \in Taking \cup {"out"} => c.refresh = {}
  /\ p.pc = "out" => c.take = {}
  /\ p.pc \in {"pick", "ensure"} => p.phase # "refresh"
  /\ p.pc = "relogin" => p.phase = "refresh" /\ u.acct \notin u.refreshed \cup u.refused
  /\ p.pc = "note" /\ p.phase = "refresh" =>
       u.acct \in u.refreshed \cup u.refused /\ u.acct \notin c.refresh
  /\ p.pc = "pick" => All(c) \subseteq u.tried
  /\ p.pc \in {"ensure", "lift", "note"} /\ p.phase # "refresh" => u.acct \notin All(c)
  /\ p.pc \in {"note", "persist"} /\ p.phase # "refresh" => u.acct \in u.tried

(* A session to clean up is the present account's, and there is none while *)
(* a request that leaves its account looks for another one.                *)
OwnSession(p, u) ==
  /\ u.cleanup \in {None, u.acct}
  /\ p.phase = "switch" /\ p.pc \in Taking => u.cleanup = None

Records == \A r \in Requests : OnRecord(at[r], auth[r], counted[r])
OwnSessions == \A r \in Requests : OwnSession(at[r], auth[r])
Recorded(r) == OnRecord(at[r], auth[r], counted[r]) /\ OwnSession(at[r], auth[r])

LEMMA RecordedNow ==
  ASSUME IInv, Records, OwnSessions, NEW r \in Requests
  PROVE  /\ TypeOK /\ Recorded(r) /\ at[r].phase \in Phases
         /\ auth \in [Requests -> Auth] /\ auth[r] \in Auth
BY DEF IInv, TypeOK, Records, OwnSessions, Recorded, Place, Phases

(* Away from the places where an account is taken, a request only has to   *)
(* keep what it has.                                                       *)
LEMMA RecordedOnTheWay ==
  ASSUME NEW r \in Requests, Recorded(r),
         at'[r].pc \in {"serve", "reject", "leave", "end"},
         counted'[r] = counted[r], auth'[r].failed = auth[r].failed,
         auth[r].refreshed \subseteq auth'[r].refreshed,
         auth[r].refused \subseteq auth'[r].refused,
         auth[r].tried \subseteq auth'[r].tried, auth'[r].acct = auth[r].acct,
         auth'[r].cleanup \in {None, auth'[r].acct}
  PROVE  Recorded(r)'
BY DEF Recorded, OnRecord, Charged, OwnSession, Taking

LEMMA TokenReadyRecorded ==
  ASSUME TypeOK, NEW r \in Requests, Acct(r) \in Accounts, Recorded(r),
         TokenReady(r), UNCHANGED <<inUse, counted>>
  PROVE  Recorded(r)'
<1>1. auth \in [Requests -> Auth] /\ auth[r] \in Auth
  BY DEF TypeOK
<1>2. at'[r].pc = "serve"
  BY TokenReadyKeeps
<1>3. /\ auth'[r].failed = auth[r].failed /\ auth'[r].refused = auth[r].refused
      /\ auth[r].refreshed \subseteq auth'[r].refreshed
      /\ auth'[r].cleanup = auth[r].cleanup /\ auth'[r].acct = auth[r].acct
      /\ auth'[r].tried = auth[r].tried
  <2>1. CASE at[r].phase = "refresh"
    <3>1. auth' = [auth EXCEPT ![r].refreshed = @ \cup {Acct(r)}]
      BY <2>1 DEF TokenReady
    <3> QED BY <1>1, <3>1 DEF Auth
  <2>2. CASE at[r].phase # "refresh"
    <3>1. auth' = [auth EXCEPT ![r].used = @ \cup {Acct(r)}]
      BY <2>2 DEF TokenReady
    <3> QED BY <1>1, <3>1 DEF Auth
  <2> QED BY <2>1, <2>2
<1>4. auth'[r].cleanup \in {None, auth'[r].acct}
  BY <1>3 DEF Recorded, OwnSession
<1> QED BY <1>2, <1>3, <1>4, RecordedOnTheWay

(* What a request without a token knows.                                   *)
LEMMA NoTokenTells ==
  ASSUME TypeOK, NEW r \in Requests, NoToken(r)
  PROVE  /\ auth'[r].failed = auth[r].failed
         /\ auth'[r].refreshed = auth[r].refreshed
         /\ auth[r].refused \subseteq auth'[r].refused
         /\ at[r].phase = "refresh" => Acct(r) \in auth'[r].refused
         /\ auth'[r].cleanup = auth[r].cleanup /\ auth'[r].acct = auth[r].acct
         /\ auth[r].tried \subseteq auth'[r].tried
         /\ at[r].phase # "refresh" => Acct(r) \in auth'[r].tried
<1>1. auth \in [Requests -> Auth] /\ auth[r] \in Auth
  BY DEF TypeOK
<1>2. CASE at[r].phase = "refresh"
  <2>1. auth' = [auth EXCEPT ![r].refused = @ \cup {Acct(r)}]
    BY <1>2 DEF NoToken
  <2> QED BY <1>1, <1>2, <2>1 DEF Auth
<1>3. CASE at[r].phase # "refresh"
  <2>1. auth' = [auth EXCEPT ![r].tried = TriedNow(r), ![r].released = @ \cup {Acct(r)}]
    BY <1>3 DEF NoToken
  <2> QED BY <1>1, <1>3, <2>1 DEF Auth, TriedNow
<1> QED BY <1>2, <1>3

(* After a failure a request goes on looking, with nothing counted and no  *)
(* session, or leaves.                                                     *)
LEMMA AfterFailureRecorded ==
  ASSUME TypeOK, NEW r \in Requests, AfterFailure(r), at[r].phase \in Phases,
         Charged(auth'[r], counted'[r]),
         auth'[r].cleanup \in {None, auth'[r].acct},
         at[r].phase = "begin" => counted'[r].refresh = {},
         at[r].phase # "refresh" => auth'[r].acct \in auth'[r].tried,
         at[r].phase = "switch" => auth'[r].cleanup = None
  PROVE  Recorded(r)'
<1>1. /\ at'[r].phase = at[r].phase
      /\ IF at[r].phase = "refresh" THEN at'[r].pc = "leave"
         ELSE at'[r].pc = "end" \/ at'[r].pc = "pick"
  BY AfterFailureMoves
<1> QED BY <1>1 DEF Recorded, OnRecord, Charged, OwnSession, Taking, Phases

LEMMA BeginRecorded ==
  ASSUME IInv, Records, OwnSessions, NEW r \in Requests, Begin(r)
  PROVE  Recorded(r)'
<1>1. TypeOK /\ Recorded(r) /\ at[r].phase = "begin" /\ at[r].pc = "out" /\ "pick" \in Pcs
  BY RecordedNow DEF IInv, Healthy, Begin, Here, Pcs
<1>2. at'[r].pc = "pick" /\ at'[r].phase = "begin"
  BY <1>1, GotoMoves DEF Begin
<1>3. All(counted'[r]) = {} /\ counted'[r].refresh = {}
  BY <1>1 DEF Recorded, OnRecord, Taking, All, Begin
<1>4. PICK t \in Targets : auth' = [auth EXCEPT ![r] = NewAuth(None, t, {})]
  BY DEF Begin
<1>5. auth'[r].cleanup = None
  BY <1>1, <1>4 DEF TypeOK, NewAuth
<1> QED BY <1>2, <1>3, <1>5 DEF Recorded, OnRecord, Charged, OwnSession

LEMMA PickRecorded ==
  ASSUME IInv, Records, OwnSessions, NEW r \in Requests, Pick(r)
  PROVE  Recorded(r)'
<1>1. /\ TypeOK /\ Recorded(r) /\ at[r].phase \in {"begin", "switch"} /\ at[r].pc = "pick"
      /\ "ensure" \in Pcs /\ auth \in [Requests -> Auth] /\ auth[r] \in Auth
  BY RecordedNow DEF Pick, Here, Recorded, OnRecord, Pcs, Phases
<1>2. at'[r].pc = "ensure" /\ at'[r].phase = at[r].phase /\ counted' = counted
  BY <1>1, GotoMoves DEF Pick
<1>3. PICK a \in Schedulable \ auth[r].tried :
        auth' = [auth EXCEPT ![r] =
          IF Beginning(r) THEN NewAuth(a, auth[r].target, auth[r].tried)
          ELSE [auth[r] EXCEPT !.acct = a, !.switches = @ + 1]]
  BY DEF Pick
<1>6. All(counted'[r]) \subseteq auth[r].tried /\ a \notin All(counted'[r])
  BY <1>1, <1>2, <1>3 DEF Recorded, OnRecord
<1>4. CASE at[r].phase = "begin"
  <2>1. counted'[r].refresh = {}
    BY <1>1, <1>2, <1>4 DEF Recorded, OnRecord, Taking
  <2>2. auth'[r].cleanup = None /\ auth'[r].acct = a /\ auth'[r].tried = auth[r].tried
    BY <1>1, <1>3, <1>4 DEF Beginning, NewAuth
  <2> QED BY <1>2, <1>4, <1>6, <2>1, <2>2 DEF Recorded, OnRecord, Charged, OwnSession
<1>5. CASE at[r].phase = "switch"
  <2>1. auth' = [auth EXCEPT ![r] = [auth[r] EXCEPT !.acct = a, !.switches = @ + 1]]
    BY <1>3, <1>5 DEF Beginning
  <2>2. /\ auth'[r].failed = auth[r].failed /\ auth'[r].refused = auth[r].refused
        /\ auth'[r].refreshed = auth[r].refreshed /\ auth'[r].tried = auth[r].tried
        /\ auth'[r].cleanup = auth[r].cleanup /\ auth'[r].acct = a
    BY <1>1, <2>1 DEF Auth
  <2>3. auth[r].cleanup = None
    BY <1>1, <1>5 DEF Recorded, OwnSession, Taking
  <2> QED BY <1>1, <1>2, <1>5, <1>6, <2>2, <2>3 DEF Recorded, OnRecord, Charged, OwnSession
<1> QED BY <1>1, <1>4, <1>5

LEMMA StartSwitchRecorded ==
  ASSUME IInv, Records, OwnSessions, NEW r \in Requests, StartSwitch(r)
  PROVE  Recorded(r)'
<1>1. /\ TypeOK /\ Recorded(r) /\ auth \in [Requests -> Auth] /\ auth[r] \in Auth
      /\ at \in [Requests -> Place] /\ counted' = counted
  BY RecordedNow DEF TypeOK, StartSwitch
<1>2. at'[r].pc = "pick" /\ at'[r].phase = "switch"
  BY <1>1 DEF StartSwitch, Place
<1>3. /\ auth'[r].failed = auth[r].failed /\ auth'[r].refused = auth[r].refused
      /\ auth'[r].refreshed = auth[r].refreshed /\ auth'[r].cleanup = None
      /\ auth'[r].tried = auth[r].tried \cup {auth[r].acct}
  <2>1. auth' = [auth EXCEPT ![r].cleanup = None, ![r].tried = @ \cup {Acct(r)},
                             ![r].released = @ \cup {Acct(r)}]
    BY DEF StartSwitch, Retired
  <2> QED BY <1>1, <2>1 DEF Auth, Acct
<1> QED BY <1>1, <1>2, <1>3 DEF Recorded, OnRecord, Charged, OwnSession

LEMMA LoginSucceedsRecorded ==
  ASSUME IInv, Records, OwnSessions, NEW r \in Requests, LoginSucceeds(r)
  PROVE  Recorded(r)'
<1>1. /\ TypeOK /\ Recorded(r) /\ "lift" \in Pcs
      /\ at[r].pc = "ensure" \/ at[r].pc = "relogin"
  BY RecordedNow DEF LoginSucceeds, WantsToken, Here, Pcs
<1>2. at'[r].pc = "lift" /\ at'[r].phase = at[r].phase /\ UNCHANGED <<auth, counted>>
  BY <1>1, GotoMoves DEF LoginSucceeds
<1> QED BY <1>1, <1>2 DEF Recorded, OnRecord, OwnSession, Taking

(* A step that ends without a token in a further attempt, or at once.      *)
LEMMA WithoutToken ==
  ASSUME IInv, Records, OwnSessions, NEW r \in Requests, NoToken(r), counted' = counted,
         at[r].pc \in {"ensure", "lift", "relogin"}
  PROVE  /\ Charged(auth'[r], counted'[r])
         /\ auth'[r].cleanup \in {None, auth'[r].acct}
         /\ at[r].phase = "begin" => counted'[r].refresh = {}
         /\ at[r].phase # "refresh" => auth'[r].acct \in auth'[r].tried
         /\ at[r].phase = "switch" => auth'[r].cleanup = None
         /\ auth'[r].acct = auth[r].acct
         /\ at[r].phase = "refresh" => auth[r].acct \in auth'[r].refused
<1>1. Recorded(r) /\ TypeOK
  BY RecordedNow
<1> QED BY <1>1, NoTokenTells DEF Recorded, OnRecord, Charged, OwnSession, Taking, Acct

LEMMA LiftRecorded ==
  ASSUME IInv, Records, OwnSessions, NEW r \in Requests, Lift(r)
  PROVE  Recorded(r)'
<1>1. /\ TypeOK /\ Recorded(r) /\ Acct(r) \in Accounts /\ at[r].phase \in Phases
      /\ at[r].pc = "lift" /\ counted' = counted
  BY RecordedNow, EngagedHasAccount DEF Lift, Here, Engaged
<1>2. CASE TokenReady(r) /\ UNCHANGED inUse
  BY <1>1, <1>2, TokenReadyRecorded
<1>3. CASE NoToken(r) /\ AfterFailure(r)
  BY <1>1, <1>3, WithoutToken, AfterFailureRecorded
<1> QED BY <1>2, <1>3 DEF Lift

LEMMA LoginFailsRecorded ==
  ASSUME IInv, Records, OwnSessions, NEW r \in Requests, LoginFails(r)
  PROVE  Recorded(r)'
<1>1. /\ TypeOK /\ Recorded(r) /\ at[r].phase \in Phases /\ counted' = counted
      /\ at[r].pc \in {"ensure", "relogin"} /\ NoToken(r)
  BY RecordedNow DEF LoginFails, WantsToken, Here
<1>2. "note" \in Pcs /\ "end" \in Pcs
  BY DEF Pcs
<1>3. CASE AfterFailure(r)
  BY <1>1, <1>3, WithoutToken, AfterFailureRecorded
<1>4. CASE Goto(r, "end")
  <2>1. at'[r].pc = "end"
    BY <1>1, <1>2, <1>4, GotoMoves
  <2> QED BY <1>1, <2>1, WithoutToken DEF Recorded, OnRecord, Charged, OwnSession, Taking
<1>5. CASE Goto(r, "note")
  <2>1. at'[r].pc = "note" /\ at'[r].phase = at[r].phase
    BY <1>1, <1>2, <1>5, GotoMoves
  <2>2. IF at[r].phase = "refresh" THEN auth[r].acct \notin counted[r].refresh
                                  ELSE auth[r].acct \notin All(counted[r])
    BY <1>1 DEF Recorded, OnRecord, Charged
  <2> QED BY <1>1, <2>1, <2>2, WithoutToken DEF Recorded, OnRecord, OwnSession, Taking, Phases
<1> QED BY <1>3, <1>4, <1>5 DEF LoginFails

LEMMA NoteRecorded ==
  ASSUME IInv, Records, OwnSessions, NEW r \in Requests, Note(r)
  PROVE  Recorded(r)'
<1>1. /\ TypeOK /\ Recorded(r) /\ at[r].phase \in Phases /\ at[r].pc = "note"
      /\ auth \in [Requests -> Auth] /\ auth[r] \in Auth /\ "persist" \in Pcs
  BY RecordedNow DEF Note, Here, Pcs
<1>2. /\ auth'[r].failed = auth[r].failed \cup {Acct(r)}
      /\ auth'[r].refreshed = auth[r].refreshed /\ auth'[r].refused = auth[r].refused
      /\ auth'[r].cleanup = auth[r].cleanup /\ auth'[r].acct = auth[r].acct
      /\ auth'[r].tried = auth[r].tried
  <2>1. auth' = [auth EXCEPT ![r].failed = @ \cup {Acct(r)}]
    BY DEF Note
  <2> QED BY <1>1, <2>1 DEF Auth
<1>3. /\ All(counted'[r]) = All(counted[r]) \cup {Acct(r)}
      /\ counted'[r].refresh = IF at[r].phase = "refresh"
                               THEN counted[r].refresh \cup {Acct(r)} ELSE counted[r].refresh
  <2>1. counted \in [Requests -> Reported] /\ counted[r] \in Reported
    BY <1>1 DEF TypeOK
  <2>2. CASE at[r].phase = "refresh"
    <3>1. counted' = [counted EXCEPT ![r].refresh = @ \cup {Acct(r)}]
      BY <2>2 DEF Note
    <3> QED BY <2>1, <2>2, <3>1 DEF Reported, All
  <2>3. CASE at[r].phase # "refresh"
    <3>1. counted' = [counted EXCEPT ![r].take = @ \cup {Acct(r)}]
      BY <2>3 DEF Note
    <3> QED BY <2>1, <2>3, <3>1 DEF Reported, All
  <2> QED BY <2>2, <2>3
<1>4. /\ Charged(auth'[r], counted'[r])
      /\ auth'[r].cleanup \in {None, auth'[r].acct}
      /\ at[r].phase = "begin" => counted'[r].refresh = {}
      /\ at[r].phase # "refresh" => auth'[r].acct \in auth'[r].tried
      /\ at[r].phase = "switch" => auth'[r].cleanup = None
  BY <1>1, <1>2, <1>3 DEF Recorded, OnRecord, Charged, OwnSession, Taking, Acct
<1>5. CASE AfterFailure(r)
  BY <1>1, <1>4, <1>5, AfterFailureRecorded
<1>6. CASE Goto(r, "persist")
  <2>1. at'[r].pc = "persist" /\ at'[r].phase = at[r].phase
    BY <1>1, <1>6, GotoMoves
  <2> QED BY <1>4, <2>1 DEF Recorded, OnRecord, OwnSession
<1> QED BY <1>5, <1>6 DEF Note

LEMMA PersistRecorded ==
  ASSUME IInv, Records, OwnSessions, NEW r \in Requests, Persist(r)
  PROVE  Recorded(r)'
<1>1. /\ TypeOK /\ Recorded(r) /\ at[r].phase \in Phases /\ at[r].pc = "persist"
      /\ AfterFailure(r) /\ UNCHANGED <<auth, counted>>
  BY RecordedNow DEF Persist, Here
<1>2. /\ Charged(auth'[r], counted'[r])
      /\ auth'[r].cleanup \in {None, auth'[r].acct}
      /\ at[r].phase = "begin" => counted'[r].refresh = {}
      /\ at[r].phase # "refresh" => auth'[r].acct \in auth'[r].tried
      /\ at[r].phase = "switch" => auth'[r].cleanup = None
  BY <1>1 DEF Recorded, OnRecord, OwnSession, Taking
<1> QED BY <1>1, <1>2, AfterFailureRecorded

(* The refresh is tried, reported or given up by what is on record.        *)
LEMMA RecoverRecorded ==
  ASSUME IInv, Records, OwnSessions, NEW r \in Requests, Recover(r)
  PROVE  Recorded(r)'
<1>1. /\ Recorded(r) /\ at \in [Requests -> Place] /\ UNCHANGED <<auth, counted>>
  BY RecordedNow DEF TypeOK, Recover
<1>2. /\ at'[r].phase = "refresh"
      /\ \/ at'[r].pc = "note" /\ Reports(r)
         \/ at'[r].pc = "leave"
         \/ at'[r].pc = "relogin" /\ Acct(r) \notin auth[r].refreshed \cup auth[r].refused
  <2> DEFINE next == CASE Reports(r) -> "note"
                       [] Acct(r) \in auth[r].refreshed \cup auth[r].refused -> "leave"
                       [] OTHER -> "relogin"
  <2>1. \/ next = "note" /\ Reports(r)
        \/ next = "leave"
        \/ next = "relogin" /\ Acct(r) \notin auth[r].refreshed \cup auth[r].refused
    BY DEF Reports
  <2>2. at' = [at EXCEPT ![r].phase = "refresh", ![r].pc = next]
    BY DEF Recover
  <2> HIDE DEF next
  <2>3. at'[r].phase = "refresh" /\ at'[r].pc = next
    BY <1>1, <2>2 DEF Place
  <2> QED BY <2>1, <2>3
<1> QED BY <1>1, <1>2 DEF Recorded, OnRecord, Charged, OwnSession, Reports, Acct

LEMMA WorkRecorded ==
  ASSUME IInv, Records, OwnSessions, NEW r \in Requests, Work(r)
  PROVE  Recorded(r)'
<1>1. /\ TypeOK /\ Recorded(r) /\ auth \in [Requests -> Auth] /\ auth[r] \in Auth
  BY RecordedNow
<1>2. at'[r].pc \in {"serve", "reject", "leave", "end"}
  BY <1>1, WorkMoves
<1>3. CASE UNCHANGED <<auth, counted>>
  BY <1>1, <1>2, <1>3, RecordedOnTheWay DEF Recorded, OwnSession
<1>4. CASE Open(r)
  <2>1. PICK c \in {None, Acct(r)} : auth' = [auth EXCEPT ![r].cleanup = c]
    BY <1>4 DEF Open, Retired
  <2>2. /\ auth'[r].failed = auth[r].failed /\ auth'[r].refused = auth[r].refused
        /\ auth'[r].refreshed = auth[r].refreshed /\ auth'[r].acct = Acct(r)
        /\ auth'[r].cleanup = c /\ auth'[r].tried = auth[r].tried /\ counted' = counted
    BY <1>1, <1>4, <2>1 DEF Auth, Acct, Open
  <2> QED BY <1>1, <1>2, <2>2, RecordedOnTheWay DEF Acct
<1> QED BY <1>3, <1>4 DEF Work, Upload, Turn, Read, Repair

LEMMA EndRecorded ==
  ASSUME IInv, Records, OwnSessions, NEW r \in Requests, End(r)
  PROVE  Recorded(r)'
<1>1. TypeOK
  BY RecordedNow
<1>2. /\ at'[r] = Start /\ auth'[r] = NewAuth(None, None, {})
      /\ counted'[r] = NothingReported
  BY <1>1 DEF TypeOK, End, Leave
<1> QED BY <1>2 DEF Recorded, OnRecord, Charged, All, NothingReported, OwnSession, Start, NewAuth

LEMMA StepRecorded ==
  ASSUME IInv, Records, OwnSessions, NEW r \in Requests, Begin(r) \/ Step(r) \/ Work(r)
  PROVE  Recorded(r)'
<1>1. ASSUME NoAccount(r) \/ Refuse(r) PROVE Recorded(r)'
  <2>1. TypeOK /\ Recorded(r) /\ "end" \in Pcs /\ UNCHANGED <<auth, counted>>
    BY <1>1, RecordedNow DEF NoAccount, Refuse, Pcs
  <2>2. at'[r].pc \in {"serve", "reject", "leave", "end"}
    BY <1>1, <2>1, UnrecoveredMoves, GotoMoves DEF NoAccount, Refuse
  <2> QED BY <2>1, <2>2, RecordedOnTheWay DEF Recorded, OwnSession
<1>2. ASSUME HasToken(r) PROVE Recorded(r)'
  <2>1. /\ TypeOK /\ Recorded(r) /\ Acct(r) \in Accounts /\ TokenReady(r)
        /\ UNCHANGED <<inUse, counted>>
    BY <1>2, RecordedNow, EngagedHasAccount DEF HasToken, WantsToken, Here, Engaged
  <2> QED BY <2>1, TokenReadyRecorded
<1> QED BY <1>1, <1>2, BeginRecorded, PickRecorded, StartSwitchRecorded, LoginSucceedsRecorded,
           LiftRecorded, LoginFailsRecorded, NoteRecorded, PersistRecorded, RecoverRecorded,
           WorkRecorded, EndRecorded DEF Step

LEMMA RecordsStep ==
  ASSUME IInv, Records, OwnSessions, [Next]_vars PROVE Records' /\ OwnSessions'
<1>1. ASSUME NEW r \in Requests, Begin(r) \/ Step(r) \/ Work(r), NEW q \in Requests
      PROVE  Recorded(q)'
  <2>1. CASE q = r
    BY <1>1, <2>1, StepRecorded
  <2>2. CASE q # r
    <3>1. at'[q] = at[q] /\ auth'[q] = auth[q]
      BY <1>1, <2>2, StepAdvances DEF Advances, Moves, Updates
    <3>2. counted'[q] = counted[q]
      <4>1. counted \in [Requests -> Reported]
        BY DEF IInv, TypeOK
      <4>2. \/ counted' = counted \/ \E c : counted' = [counted EXCEPT ![r] = c]
            \/ \E c : \/ counted' = [counted EXCEPT ![r].take = c]
                      \/ counted' = [counted EXCEPT ![r].refresh = c]
        BY <1>1 DEF Begin, Step, Work, Pick, NoAccount, Refuse, StartSwitch, HasToken,
                    LoginSucceeds, Lift, LoginFails, Note, Persist, Recover, End,
                    Upload, Open, Turn, Read, Repair
      <4> QED BY <2>2, <4>1, <4>2
    <3>3. Recorded(q)
      BY RecordedNow
    <3> QED BY <3>1, <3>2, <3>3 DEF Recorded
  <2> QED BY <2>1, <2>2
<1>2. ASSUME UNCHANGED <<at, auth, counted>> PROVE Records' /\ OwnSessions'
  BY <1>2 DEF Records, OwnSessions
<1>3. ASSUME NEW a \in Accounts, AdminEnables(a) PROVE UNCHANGED <<at, auth, counted>>
  BY <1>3 DEF AdminEnables
<1>4. CASE \E r \in Requests : Begin(r) \/ Step(r) \/ Work(r)
  BY <1>1, <1>4 DEF Recorded, Records, OwnSessions
<1> QED BY <1>2, <1>3, <1>4 DEF Next, vars

LEMMA RecordsInit == Init => Records /\ OwnSessions
BY DEF Init, Records, OwnSessions, OnRecord, Charged, All, NothingReported, OwnSession, Start, NewAuth

LEMMA RecordsHold == Spec => []IInv /\ [](Records /\ OwnSessions)
BY RecordsInit, RecordsStep, IInvHolds, PTL DEF Spec

LEMMA RecordsSafe == Records /\ OwnSessions => CountedOncePerWay /\ CleanupByOwner
BY DEF Records, OnRecord, All, OwnSessions, OwnSession, CountedOncePerWay, CleanupByOwner, Here, Acct

(* However often a request meets the same rejected account, through the    *)
(* inner and the outer layers and after every switch: it reports one       *)
(* failed refresh of it, and a failed login on taking it only if it has    *)
(* not reported it before.                                                 *)
THEOREM ReportedOncePerWay == Spec => []CountedOncePerWay
BY RecordsHold, RecordsSafe, PTL

(* A session is cleaned up with the credentials of the account it was      *)
(* created with, on whatever way a request comes to another account.       *)
THEOREM CleanedUpByOwner == Spec => []CleanupByOwner
BY RecordsHold, RecordsSafe, PTL
=============================================================================
