-------------------------- MODULE AccountPoolHistory --------------------------
(***************************************************************************)
(* The account pool with a record of what its callers may rely on: which   *)
(* accounts have arrived in the pool, and which leases were granted on an  *)
(* account that had arrived and has not been deleted since.  The record    *)
(* adds two variables that no action of the pool reads.                    *)
(***************************************************************************)
EXTENDS MCAccountPool

VARIABLES
  arrived,    \* accounts a Reset has installed since they were added
  lasting     \* callers who leased an account that had arrived and is still there

historyVars == <<vars, arrived, lasting>>

HistoryInit ==
  /\ Init
  /\ arrived = Configured(status)
  /\ lasting = {}

(* The Reset of w installs, in this step, a snapshot that knows a.         *)
Installs(w, a) ==
  /\ job[w] = "install" /\ job'[w] = "idle" /\ ~closed
  /\ a \in Configured(seen[w].status)

Remember ==
  /\ arrived' = {a \in Configured(status') :
                   a \in arrived \/ \E w \in Maintainers : Installs(w, a)}
  /\ lasting' = {c \in Callers : /\ held'[c] \in arrived \cap arrived'
                                 /\ c \in lasting \/ held[c] = None}

HistorySpec == HistoryInit /\ [][Next /\ Remember]_historyVars

(* "Keep accounting for every configured account, including ... requests   *)
(* still running" (Reset): no step forgets the slot of a lease that was    *)
(* granted after the account had arrived in the pool, while the lease goes *)
(* on and the account has not been deleted.  (The slots of an account that *)
(* was deleted are written off, also when it is added again.)              *)
KeepsAccounting ==
  [][\A c \in lasting : UNCHANGED held => inUse'[held[c]] >= inUse[held[c]]]_historyVars
=============================================================================
