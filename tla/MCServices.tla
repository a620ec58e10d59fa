------------------------------ MODULE MCServices ------------------------------
(***************************************************************************)
(* The services around the account pool, checked in one run: a behaviour   *)
(* belongs to one of them, its subject, and leaves the variables of the    *)
(* others alone.  They share none, and none calls another in a way its     *)
(* properties depend on, so that the run explores each of them by itself.  *)
(***************************************************************************)
EXTENDS LoginCoordinator, ProxyBinding, UsageLedger, StreamLease, KeepAlive, ChatHistory,
        ConfigStore, AccountRoster, StreamPump

VARIABLE subject

Subjects == {"login", "proxies", "usage", "leases", "pings", "history", "config",
             "roster", "stream"}
ConfigurationVars == <<proxyVars, configVars, rosterVars>>
RecordVars == <<usageVars, historyVars>>
TransportVars == <<vars, leaseVars, keepAliveVars, streamVars>>

(* The components that are not the subject rest in one initial state.  The *)
(* saved binding of one account to one node stands for all: accounts and   *)
(* nodes differ in nothing; its port is one beyond the controller's, which *)
(* the controller may be moved to.  An older installation has its          *)
(* subscriptions in one place.                                             *)
ServicesInit ==
  /\ subject \in Subjects
  /\ Init /\ LeaseInit /\ KeepAliveInit /\ HistoryInit /\ PumpInit
  /\ ProxyInit
  /\ \/ mihomo = FirstStart("none")
     \/ /\ subject = "proxies"
        /\ \E p \in FreePorts(FirstStart("there")) \ {BasePort} :
             mihomo = SavedStart(CHOOSE a \in ProxyAccounts : TRUE, CHOOSE n \in Nodes : TRUE, p)
  /\ UsageInit /\ (subject # "usage" => history = NoCalls)
  /\ ConfigInit
  /\ disk.fallback # 0 => disk.there /\ disk.legacy = 0
  /\ subject # "config" => ~disk.there /\ Loaded(disk) = NoConf
  /\ RosterInit /\ (subject # "roster" => elastic = [on |-> FALSE, count |-> 0])

Is(service) == subject = service /\ UNCHANGED subject

ServicesNext ==
  \/ /\ Is("login") /\ Next
     /\ UNCHANGED <<ConfigurationVars, RecordVars, leaseVars, keepAliveVars, streamVars>>
  \/ /\ Is("leases") /\ LeaseNext
     /\ UNCHANGED <<ConfigurationVars, RecordVars, vars, keepAliveVars, streamVars>>
  \/ /\ Is("pings") /\ KeepAliveNext
     /\ UNCHANGED <<ConfigurationVars, RecordVars, vars, leaseVars, streamVars>>
  \/ /\ Is("stream") /\ StreamNext
     /\ UNCHANGED <<ConfigurationVars, RecordVars, vars, leaseVars, keepAliveVars>>
  \/ /\ Is("proxies") /\ ProxyNext
     /\ UNCHANGED <<configVars, rosterVars, RecordVars, TransportVars>>
  \/ /\ Is("config") /\ ConfigNext
     /\ UNCHANGED <<proxyVars, rosterVars, RecordVars, TransportVars>>
  \/ /\ Is("roster") /\ RosterNext
     /\ UNCHANGED <<proxyVars, configVars, RecordVars, TransportVars>>
  \/ /\ Is("usage") /\ UsageNext
     /\ UNCHANGED <<ConfigurationVars, historyVars, TransportVars>>
  \/ /\ Is("history") /\ HistoryNext
     /\ UNCHANGED <<ConfigurationVars, usageVars, TransportVars>>

(* The fairness of each component, as its own specification states it.     *)
ServicesSpec ==
  /\ ServicesInit
  /\ [][ServicesNext]_<<subject, ConfigurationVars, RecordVars, TransportVars>>
  /\ \A c \in Callers : WF_vars(subject = "login" /\ Proceed(c))
  /\ WF_proxyVars(subject = "proxies" /\ (ApplyBestEffort \/ TrySelfHeal))
  /\ WF_proxyVars(subject = "proxies" /\ RequestsEnd)
  /\ WF_proxyVars(subject = "proxies" /\ WatcherReconciles)
  /\ WF_proxyVars(subject = "proxies" /\ (UpdateBindings \/ ReconcileApplies))
  /\ SF_proxyVars(subject = "proxies" /\ DrainReconciles)
  /\ \A j \in Jobs : WF_keepAliveVars(subject = "pings" /\ JobSteps(j))
  /\ WF_keepAliveVars(subject = "pings" /\ CloseReturns)
  /\ WF_streamVars(subject = "stream" /\ ScannerSteps)
  /\ WF_streamVars(subject = "stream" /\ PumpSteps)
  /\ WF_streamVars(subject = "stream" /\ Callback)
  /\ WF_streamVars(subject = "stream" /\ (OnParsed \/ ContextDone))

TypesOK ==
  CASE subject = "login" -> TypeOK
    [] subject = "proxies" -> ProxyTypeOK
    [] subject = "usage" -> UsageTypeOK
    [] subject = "leases" -> LeaseTypeOK
    [] subject = "pings" -> KeepAliveTypeOK
    [] subject = "history" -> HistoryTypeOK
    [] subject = "config" -> ConfigTypeOK
    [] subject = "roster" -> RosterTypeOK
    [] subject = "stream" -> PumpTypeOK

(* Nothing that is begun is left unfinished: a login is answered, a ping's *)
(* window and a stream's goroutines end, whatever happens to those they    *)
(* wait for, and a binding is served again after whatever has happened.    *)
ServicesEnd == EveryCallReturns /\ WindowsEnd /\ PumpsEnd /\ BindingsServed
=============================================================================
