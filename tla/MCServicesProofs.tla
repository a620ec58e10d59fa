--------------------------- MODULE MCServicesProofs ---------------------------
(***************************************************************************)
(* The run that checks the services together explores each by itself.      *)
(* What is proved of each holds of the whole, for every value of the       *)
(* constants: a step is one of its subject's and leaves the others alone.  *)
(***************************************************************************)
EXTENDS MCServices, ServicesProofs, LoginCoordinatorProofs, AccountServicesProofs

ServicesInv ==
  /\ subject \in Subjects
  /\ LoginInv /\ Concluded /\ LeaseInv /\ PingInv /\ RosterInv /\ ConfigInv
  /\ LedgerInv /\ NothingOvercounted
  /\ ProxyInv /\ ProxyBounded
  /\ HistoryInv /\ HistoryBounded
  /\ StreamInv /\ StreamBounded

LEMMA InitConcluded == Init => Concluded
BY DEF Init, Concluded

LEMMA ServicesInitInv == ServicesInit => ServicesInv
<1> SUFFICES ASSUME ServicesInit PROVE ServicesInv
  OBVIOUS
<1>1. /\ subject \in Subjects /\ Init /\ LeaseInit /\ KeepAliveInit /\ HistoryInit /\ PumpInit
      /\ ProxyInit /\ UsageInit /\ ConfigInit /\ RosterInit
  BY DEF ServicesInit
<1>2. LoginInv /\ Concluded /\ LeaseInv /\ PingInv /\ RosterInv /\ ConfigInv
  BY <1>1, InitLoginInv, InitConcluded, InitLeaseInv, InitPingInv, InitRoster, ConfigInitInv DEF RosterInv
<1>3. LedgerInv /\ NothingOvercounted
  BY <1>1, LedgerInitInv
<1>4. ProxyInv /\ ProxyBounded /\ HistoryInv /\ HistoryBounded
  BY <1>1, ProxyInitInv, ProxyBoundedInit, HistoryInitInv, HistoryBoundedInit
<1>5. StreamInv /\ StreamBounded
  BY <1>1, StreamStart, StreamBoundedInit
<1> QED BY <1>1, <1>2, <1>3, <1>4, <1>5 DEF ServicesInv

LEMMA SubjectsStep ==
  ASSUME [ServicesNext]_<<subject, ConfigurationVars, RecordVars, TransportVars>>
  PROVE  /\ subject' = subject
         /\ [Next]_vars /\ [LeaseNext]_leaseVars /\ [KeepAliveNext]_keepAliveVars
         /\ [StreamNext]_streamVars /\ [ProxyNext]_proxyVars /\ [ConfigNext]_configVars
         /\ [RosterNext]_rosterVars /\ [UsageNext]_usageVars /\ [HistoryNext]_historyVars
BY DEF ServicesNext, Is, ConfigurationVars, RecordVars, TransportVars

LEMMA ServicesInvStep ==
  ServicesInv /\ [ServicesNext]_<<subject, ConfigurationVars, RecordVars, TransportVars>>
    => ServicesInv'
<1> SUFFICES ASSUME ServicesInv,
                    [ServicesNext]_<<subject, ConfigurationVars, RecordVars, TransportVars>>
             PROVE  ServicesInv'
  OBVIOUS
<1>1. LoginInv' /\ Concluded' /\ LeaseInv' /\ PingInv'
  BY SubjectsStep, LoginInvStep, ConcludedStep, LeaseInvStep, PingInvStep
     DEF ServicesInv, LoginInv
<1>2. RosterInv' /\ ConfigInv'
  BY SubjectsStep, RosterStep, ConfigStep DEF ServicesInv
<1>3. LedgerInv' /\ NothingOvercounted'
  BY SubjectsStep, LedgerStep, WithinStep DEF ServicesInv
<1>4. ProxyInv' /\ ProxyBounded'
  BY SubjectsStep, ProxyStep, ProxyBoundedStep DEF ServicesInv
<1>5. HistoryInv' /\ HistoryBounded'
  BY SubjectsStep, HistoryStep, HistoryBoundedStep DEF ServicesInv
<1>6. StreamInv' /\ StreamBounded'
  BY SubjectsStep, StreamKept, StreamBoundedStep DEF ServicesInv
<1>7. (subject \in Subjects)'
  BY SubjectsStep DEF ServicesInv, Subjects
<1> QED BY <1>1, <1>2, <1>3, <1>4, <1>5, <1>6, <1>7 DEF ServicesInv

(* Every service keeps to its types: no list, channel, counter or queue    *)
(* outgrows the bound it is given, in whatever order its steps come.       *)
THEOREM TypesHold == ServicesSpec => []TypesOK
<1>1. ServicesInv => TypesOK
  <2> SUFFICES ASSUME ServicesInv PROVE TypesOK
    OBVIOUS
  <2>1. TypeOK /\ LeaseTypeOK /\ KeepAliveTypeOK /\ RosterTypeOK /\ ConfigTypeOK /\ UsageTypeOK
    BY DEF ServicesInv, LoginInv, LeaseInv, PingInv, RosterInv, ConfigInv, LedgerInv
  <2>2. ProxyTypeOK /\ HistoryTypeOK /\ PumpTypeOK
    BY ProxyTypes, HistoryTypes, StreamBoundedTypes DEF ServicesInv
  <2>3. subject \in Subjects
    BY DEF ServicesInv
  <2> QED BY <2>1, <2>2, <2>3 DEF TypesOK, Subjects
<1> QED BY <1>1, ServicesInitInv, ServicesInvStep, PTL DEF ServicesSpec

LEMMA LoginSafe == LoginInv => OneLoginAtATime /\ NeverOlder
BY DEF LoginInv, Ordered, NeverOlder
LEMMA LedgerSafe ==
  LedgerInv /\ NothingOvercounted => CleanMeansSaved /\ NeverOvercounted
BY DEF LedgerInv, NothingOvercounted, Within, NeverOvercounted
LEMMA LeaseSafe == LeaseInv => SlotsOwned
BY DEF LeaseInv, SlotsOwned, SlotsCounted, Holders, Owned, Accounted, Owner
LEMMA PingSafe == PingInv => OneWindowPerAccount
BY DEF PingInv
LEMMA HistorySafe == HistoryInv => HistoryShownAndSaved
BY DEF HistoryInv, FilesCovered, RevisionsTell, SameList, HistoryShownAndSaved, ETagTellsLists,
   Serving

(* Each service keeps its promise wherever it runs beside the others.      *)
THEOREM PromisesHold ==
  ServicesSpec => [](/\ OneLoginAtATime /\ NeverOlder /\ PortsAndProxiesAgree
                     /\ CleanMeansSaved /\ NeverOvercounted /\ SlotsOwned
                     /\ OneWindowPerAccount /\ HistoryShownAndSaved /\ ConfigKept
                     /\ RosterInOrder /\ StreamFaithful)
<1>1. ServicesInv => /\ OneLoginAtATime /\ NeverOlder /\ PortsAndProxiesAgree
                     /\ CleanMeansSaved /\ NeverOvercounted /\ SlotsOwned
                     /\ OneWindowPerAccount /\ HistoryShownAndSaved /\ ConfigKept
                     /\ RosterInOrder /\ StreamFaithful
  BY LoginSafe, ProxySafe, LedgerSafe, LeaseSafe, PingSafe, HistorySafe, ConfigSafe, StreamInvFaithful
     DEF ServicesInv, RosterInv
<1> QED BY <1>1, ServicesInitInv, ServicesInvStep, PTL DEF ServicesSpec

(* So do the two that say what no step may do: take a waiter out of the    *)
(* line with another's cancellation, or a binding from an administrator's  *)
(* hands.                                                                  *)
THEOREM StepsHold == ServicesSpec => NoInheritedCancellation /\ ManualBindingKept
<1>1. ServicesInv /\ [ServicesNext]_<<subject, ConfigurationVars, RecordVars, TransportVars>>
        => [\A c \in Callers :
              pc[c] \in {"waiting", "woken"} /\ pc'[c] = "out" /\ ~over[c]
                => result'[c] \in {"ok", "failed"}]_vars
  BY SubjectsStep, OutWithAnswer DEF ServicesInv, LoginInv, StepsOut
<1>2. ServicesInv /\ [ServicesNext]_<<subject, ConfigurationVars, RecordVars, TransportVars>>
        => [events' = events =>
              \A a \in mihomo.manual : /\ a \in mihomo'.manual
                                       /\ mihomo'.binding[a] = mihomo.binding[a]]_proxyVars
  BY SubjectsStep, HandsKeptStep DEF ServicesInv, HandsKept
<1> QED BY <1>1, <1>2, ServicesInitInv, ServicesInvStep, PTL
        DEF ServicesSpec, NoInheritedCancellation, ManualBindingKept
=============================================================================
