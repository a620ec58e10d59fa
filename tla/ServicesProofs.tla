--------------------------- MODULE ServicesProofs ---------------------------
(***************************************************************************)
(* What holds of the services around the account pool: the usage ledger,   *)
(* the configuration store, the chat history, the proxy bindings and the   *)
(* stream of an answer, each for every value of its constants.             *)
(***************************************************************************)
EXTENDS UsageLedger, ConfigStore, ChatHistory, ProxyBinding, StreamPump,
        FiniteSetTheorems, SequenceTheorems, TLAPS

(***************************************************************************)
(* THE USAGE LEDGER                                                        *)
(***************************************************************************)

(* What a flush has in hand: the entries of the ledger as it began.        *)
FlushConsistent ==
  /\ flush # "idle" =>
       /\ stage \in {"up", "closing"} /\ dirty
       /\ payload.keys = Entries(payload.counts)
       /\ payload.keys \subseteq Entries(ledger)
       /\ payload.revision <= revision
       /\ payload.revision = revision => payload.counts = ledger
  /\ flush = "wrote" => checkpoint = payload.counts

(* The cached order never lists a key that has no entry, so that it fits   *)
(* only if it lists them all.                                              *)
OrderCached == order \subseteq Entries(ledger)

LedgerInv == UsageTypeOK /\ FlushConsistent /\ OrderCached /\ CleanMeansSaved

(* A count never exceeds what was made; nor does the history, from which a *)
(* backfill fills an empty ledger, nor a checkpoint on its way to disk.    *)
Within(counts) == \A k \in Keys : counts[k] <= made[k]
NothingOvercounted ==
  Within(ledger) /\ Within(checkpoint) /\ Within(payload.counts) /\ Within(history)

-----------------------------------------------------------------------------
(***************************************************************************)
(* Helpers.                                                                *)
(***************************************************************************)

LEMMA NoCallsType == NoCalls \in Counts /\ Entries(NoCalls) = {}
BY DEF NoCalls, Counts, Entries

LEMMA PlusType ==
  ASSUME NEW c \in Counts, NEW k \in Keys
  PROVE  /\ Plus(c, k) \in Counts
         /\ Plus(c, k)[k] = c[k] + 1
         /\ \A j \in Keys \ {k} : Plus(c, k)[j] = c[j]
         /\ Entries(c) \subseteq Entries(Plus(c, k))
BY DEF Plus, Counts, Entries

(* The snapshot is the ledger: a cached order of the right length has all  *)
(* its keys.                                                               *)
LEMMA SnapshotIsLedger ==
  ASSUME UsageTypeOK, OrderCached
  PROVE  /\ Snapshot.counts = ledger
         /\ Snapshot.keys = Entries(ledger)
         /\ Snapshot.revision = revision
         /\ Snapshot \in [counts : Counts, keys : SUBSET Keys, revision : Nat]
<1> DEFINE keys == IF OrderFits THEN order ELSE Entries(ledger)
<1>1. Entries(ledger) \subseteq Keys
  BY DEF Entries
<1>2. IsFiniteSet(Entries(ledger))
  BY <1>1, KeysFinite, FS_Subset
<1>3. ASSUME OrderFits PROVE order = Entries(ledger)
  BY <1>2, <1>3, FS_Subset DEF OrderFits, OrderCached
<1>4. keys = Entries(ledger)
  BY <1>3
<1>5. [k \in Keys |-> IF k \in keys THEN ledger[k] ELSE 0] = ledger
  BY <1>4 DEF UsageTypeOK, Counts, Entries
<1>6. Snapshot = [counts |-> ledger, keys |-> Entries(ledger), revision |-> revision]
  BY <1>4, <1>5, Zenon DEF Snapshot
<1> QED BY <1>1, <1>6 DEF UsageTypeOK

-----------------------------------------------------------------------------
(***************************************************************************)
(* The inductive invariant.                                                *)
(***************************************************************************)

LEMMA LedgerInitInv == UsageInit => LedgerInv /\ NothingOvercounted
<1> SUFFICES ASSUME UsageInit PROVE LedgerInv /\ NothingOvercounted
  OBVIOUS
<1>1. history \in Counts
  BY DEF UsageInit, NoCalls, Counts
<1>2. UsageTypeOK
  <2>1. NoPayload \in [counts : Counts, keys : SUBSET Keys, revision : Nat]
    BY NoCallsType DEF NoPayload
  <2>2. dirty \in BOOLEAN /\ marker \in BOOLEAN
    BY Zenon DEF UsageInit
  <2> QED BY <1>1, <2>1, <2>2, NoCallsType DEF UsageInit, UsageTypeOK, Stages
<1>3. FlushConsistent /\ OrderCached /\ CleanMeansSaved
  BY DEF UsageInit, FlushConsistent, OrderCached, CleanMeansSaved
<1>4. NothingOvercounted
  BY <1>1 DEF UsageInit, NothingOvercounted, Within, NoPayload, NoCalls, Counts
<1> QED BY <1>2, <1>3, <1>4 DEF LedgerInv

(* A change that is on disk before it is in memory.                        *)
LEMMA CommittedLedgerInv ==
  ASSUME LedgerInv, flush = "idle", NEW c \in Counts, Committed(c)
  PROVE  /\ ledger' \in Counts /\ checkpoint' \in Counts /\ dirty' \in BOOLEAN
         /\ revision' \in Nat /\ order' \subseteq Keys
         /\ flush' = "idle" /\ payload' = payload
         /\ FlushConsistent' /\ OrderCached' /\ CleanMeansSaved'
<1>1. dirty' \in BOOLEAN
  BY Zenon DEF Committed
<1>2. /\ ledger' = c /\ checkpoint' = c /\ revision' = revision + 1 /\ order' = {}
      /\ flush' = "idle" /\ payload' = payload
  BY DEF Committed
<1>3. revision' \in Nat
  BY <1>2 DEF LedgerInv, UsageTypeOK
<1>4. FlushConsistent' /\ OrderCached' /\ CleanMeansSaved'
  BY <1>2 DEF FlushConsistent, OrderCached, CleanMeansSaved
<1> QED BY <1>1, <1>2, <1>3, <1>4

LEMMA LedgerStep == ASSUME LedgerInv, [UsageNext]_usageVars PROVE LedgerInv'
<1> USE DEF LedgerInv
<1>1. ASSUME NEW k \in Keys, Record(k) PROVE LedgerInv'
  <2>1. /\ Plus(ledger, k) \in Counts /\ Plus(made, k) \in Counts
        /\ Plus(history, k) \in Counts
        /\ Entries(ledger) \subseteq Entries(Plus(ledger, k))
    BY PlusType DEF UsageTypeOK
  <2>2. UsageTypeOK'
    BY <1>1, <2>1 DEF UsageTypeOK, Record
  <2>3. FlushConsistent' /\ OrderCached' /\ CleanMeansSaved'
    BY <1>1, <2>1 DEF UsageTypeOK, Record, FlushConsistent, OrderCached, CleanMeansSaved
  <2> QED BY <2>2, <2>3
<1>2. ASSUME NEW k \in Keys, Import(k) PROVE LedgerInv'
  <2>1. /\ Plus(ledger, k) \in Counts /\ Plus(made, k) \in Counts
        /\ flush = "idle" /\ Committed(Plus(ledger, k))
    BY <1>2, PlusType DEF UsageTypeOK, Import
  <2>2. UsageTypeOK'
    BY <1>2, <2>1, CommittedLedgerInv DEF UsageTypeOK, Import
  <2> QED BY <2>1, <2>2, CommittedLedgerInv
<1>3. CASE Clear
  <2>1. flush = "idle" /\ NoCalls \in Counts /\ Committed(NoCalls)
    BY <1>3, NoCallsType DEF Clear
  <2>2. UsageTypeOK'
    BY <1>3, <2>1, CommittedLedgerInv DEF UsageTypeOK, Clear
  <2> QED BY <2>1, <2>2, CommittedLedgerInv
<1>4. CASE BeginFlush
  BY <1>4, SnapshotIsLedger
     DEF BeginFlush, UsageTypeOK, FlushConsistent, OrderCached, CleanMeansSaved
<1>5. CASE WriteCheckpoint
  <2>1. UsageTypeOK'
    BY <1>5 DEF WriteCheckpoint, UsageTypeOK
  <2>2. ASSUME checkpoint' = payload.counts, flush' = "wrote"
        PROVE  FlushConsistent' /\ OrderCached' /\ CleanMeansSaved'
    BY <1>5, <2>2 DEF WriteCheckpoint, UsageTypeOK, FlushConsistent, OrderCached,
                      CleanMeansSaved
  <2>3. ASSUME flush' = "failed", UNCHANGED checkpoint
        PROVE  FlushConsistent' /\ OrderCached' /\ CleanMeansSaved'
    BY <1>5, <2>3 DEF WriteCheckpoint, FlushConsistent, OrderCached, CleanMeansSaved
  <2> QED BY <1>5, <2>1, <2>2, <2>3 DEF WriteCheckpoint
<1>6. CASE EndFlush
  <2>1. OrderCached'
    BY <1>6 DEF EndFlush, OrderCached, FlushConsistent
  <2>2. CleanMeansSaved'
    BY <1>6 DEF EndFlush, CaughtUp, CleanMeansSaved, FlushConsistent
  <2>3. UsageTypeOK'
    BY <1>6 DEF EndFlush, UsageTypeOK
  <2> QED BY <1>6, <2>1, <2>2, <2>3 DEF EndFlush, FlushConsistent
<1>7. CASE Load
  <2>1. /\ ledger' \in Counts /\ checkpoint' = ledger' /\ payload' = NoPayload
        /\ NoPayload \in [counts : Counts, keys : SUBSET Keys, revision : Nat]
    BY <1>7, NoCallsType DEF Load, UsageTypeOK, NoPayload
  <2>2. UsageTypeOK'
    BY <1>7, <2>1 DEF Load, UsageTypeOK, Stages
  <2> QED BY <1>7, <2>1, <2>2 DEF Load, FlushConsistent, OrderCached, CleanMeansSaved
<1>8. CASE Backfill
  <2> DEFINE filled == [k \in Keys |-> ledger[k] + history[k]]
  <2>1. CASE Committed(filled) /\ stage' = "marking"
    <3>1. filled \in Counts /\ flush = "idle"
      BY <1>8 DEF Backfill, UsageTypeOK, Counts, FlushConsistent
    <3> HIDE DEF filled
    <3>2. UsageTypeOK'
      BY <1>8, <2>1, <3>1, CommittedLedgerInv DEF Backfill, UsageTypeOK, Stages
    <3> QED BY <2>1, <3>1, <3>2, CommittedLedgerInv
  <2>2. CASE stage' \in {"marking", "up"} /\ UNCHANGED <<checkpoint, InMemory>>
    BY <1>8, <2>2 DEF Backfill, InMemory, UsageTypeOK, Stages, FlushConsistent, OrderCached,
                      CleanMeansSaved
  <2> QED BY <1>8, <2>1, <2>2 DEF Backfill
<1>9. CASE WriteMarker
  <2>1. marker' \in BOOLEAN
    BY <1>9, Zenon DEF WriteMarker, UsageTypeOK
  <2>2. UsageTypeOK'
    BY <1>9, <2>1 DEF WriteMarker, InMemory, UsageTypeOK, Stages
  <2> QED BY <1>9, <2>2 DEF WriteMarker, InMemory, FlushConsistent, OrderCached,
                            CleanMeansSaved, UsageTypeOK
<1>10. CASE Close
  BY <1>10 DEF Close, InMemory, OnDisk, UsageTypeOK, Stages, FlushConsistent, OrderCached,
               CleanMeansSaved
<1>11. CASE Down
  <2>1. NoPayload \in [counts : Counts, keys : SUBSET Keys, revision : Nat]
    BY NoCallsType DEF NoPayload
  <2>2. UsageTypeOK'
    BY <1>11, <2>1, NoCallsType DEF Down, OnDisk, UsageTypeOK, Stages
  <2> QED BY <1>11, <2>2 DEF Down, FlushConsistent, OrderCached, CleanMeansSaved
<1>12. CASE UNCHANGED usageVars
  BY <1>12 DEF usageVars, UsageTypeOK, FlushConsistent, OrderCached, CleanMeansSaved
<1> QED BY <1>1, <1>2, <1>3, <1>4, <1>5, <1>6, <1>7, <1>8, <1>9, <1>10, <1>11, <1>12
        DEF UsageNext, Flush

(* A clean ledger is what the file holds, for any number of keys and calls *)
(* recorded while checkpoints are written, fail or are lost in a crash.    *)
THEOREM CleanSavedHolds == UsageSpec => []CleanMeansSaved
<1>1. LedgerInv => CleanMeansSaved
  BY DEF LedgerInv
<1> QED BY LedgerInitInv, LedgerStep, <1>1, PTL DEF UsageSpec

-----------------------------------------------------------------------------

LEMMA WithinStep ==
  ASSUME LedgerInv, NothingOvercounted, [UsageNext]_usageVars
  PROVE  NothingOvercounted'
<1> USE DEF LedgerInv, NothingOvercounted, Within
<1>0. /\ ledger \in Counts /\ checkpoint \in Counts /\ history \in Counts
      /\ made \in Counts /\ payload.counts \in Counts
  BY DEF UsageTypeOK
<1>1. ASSUME NEW k \in Keys, Record(k) PROVE NothingOvercounted'
  <2>1. \A j \in Keys : /\ made'[j] \in Nat /\ made[j] <= made'[j]
                        /\ Plus(ledger, k)[j] <= made'[j]
                        /\ Plus(history, k)[j] <= made'[j]
    BY <1>1, <1>0 DEF Record, Plus, Counts
  <2>2. /\ ledger' = Plus(ledger, k) /\ history' = Plus(history, k)
        /\ checkpoint' = checkpoint /\ payload' = payload
    BY <1>1 DEF Record
  <2>3. \A j \in Keys : checkpoint[j] <= made'[j] /\ payload.counts[j] <= made'[j]
    BY <1>0, <2>1 DEF Counts
  <2> QED BY <2>1, <2>2, <2>3
<1>2. ASSUME NEW k \in Keys, Import(k) PROVE NothingOvercounted'
  <2>1. \A j \in Keys : /\ made'[j] \in Nat /\ made[j] <= made'[j]
                        /\ Plus(ledger, k)[j] <= made'[j]
    BY <1>2, <1>0 DEF Import, Plus, Counts
  <2>2. /\ ledger' = Plus(ledger, k) /\ checkpoint' = Plus(ledger, k)
        /\ history' = history /\ payload' = payload
    BY <1>2 DEF Import, Committed
  <2>3. \A j \in Keys : history[j] <= made'[j] /\ payload.counts[j] <= made'[j]
    BY <1>0, <2>1 DEF Counts
  <2> QED BY <2>1, <2>2, <2>3
<1>3. CASE Clear
  BY <1>3, <1>0 DEF Clear, Committed, NoCalls, Counts
<1>4. CASE BeginFlush
  BY <1>4, SnapshotIsLedger DEF BeginFlush
<1>5. CASE WriteCheckpoint \/ EndFlush
  BY <1>5 DEF WriteCheckpoint, EndFlush
<1>6. CASE Load
  BY <1>6, <1>0 DEF Load, NoCalls, NoPayload, Counts
<1>7. CASE Backfill
  <2> DEFINE filled == [k \in Keys |-> ledger[k] + history[k]]
  <2>1. CASE Backfills /\ Committed(filled)
    <3>1. \A k \in Keys : ledger[k] = 0
      BY <2>1 DEF Backfills, Entries
    <3>2. \A k \in Keys : filled[k] = history[k]
      BY <1>0, <3>1 DEF Counts
    <3> HIDE DEF filled
    <3> QED BY <1>7, <2>1, <3>2 DEF Backfill, Committed
  <2>2. CASE UNCHANGED <<checkpoint, InMemory>>
    BY <1>7, <2>2 DEF Backfill, InMemory
  <2> QED BY <1>7, <2>1, <2>2 DEF Backfill
<1>8. CASE WriteMarker \/ Close
  BY <1>8 DEF WriteMarker, Close, InMemory, OnDisk
<1>9. CASE Down
  BY <1>9, <1>0 DEF Down, OnDisk, NoCalls, NoPayload, Counts
<1>10. CASE UNCHANGED usageVars
  BY <1>10 DEF usageVars
<1> QED BY <1>1, <1>2, <1>3, <1>4, <1>5, <1>6, <1>7, <1>8, <1>9, <1>10
        DEF UsageNext, Flush

(* No call is counted twice, for any history a backfill may meet and any   *)
(* crash before its marker is written.                                     *)
THEOREM NeverOvercountedHolds == UsageSpec => []NeverOvercounted
<1>1. NothingOvercounted => NeverOvercounted
  BY DEF NothingOvercounted, Within, NeverOvercounted
<1> QED BY LedgerInitInv, LedgerStep, WithinStep, <1>1, PTL DEF UsageSpec

-----------------------------------------------------------------------------
(***************************************************************************)
(* THE CONFIGURATION STORE                                                 *)
(***************************************************************************)

(* Config.json as it is on disk, without the subscriptions.                *)
ConfigOnDisk(c) == disk.phone = c.phone /\ disk.id = c.id

(* The subscriptions' file has those in memory, or is missing while the    *)
(* former path has them.                                                   *)
SubsOnDisk ==
  \/ disk.subs = conf.subs
  \/ disk.subs = 0 /\ disk.fallback = conf.subs

(* What is not stale is on disk; subscriptions inside config.json wait to  *)
(* be moved; config.json is written after the subscriptions.               *)
FilesFit ==
  /\ disk.legacy # 0 => stale.migrate
  /\ ~stale.config => ConfigOnDisk(conf)
  /\ ~stale.subs /\ ~stale.migrate => SubsOnDisk
  /\ save.at = "config" => SubsOnDisk

(* An archive and the device that has its ID, unless it was brought.       *)
OfDevice(a, c, phone) == c \notin Given \cup {0} => a = [id |-> c, phone |-> phone]

(* What a generation on its way to disk can return to.                     *)
CommitFits ==
  /\ save.at # "none" /\ generation.at = "commit" /\ stale.config
  /\ conf = [save.old EXCEPT !.id = generation.id]
  /\ ~save.wasStale => ConfigOnDisk(save.old)
  /\ archive = [id |-> conf.id, phone |-> conf.phone]
  /\ ~parted => OfDevice(save.archive, save.old.id, save.old.phone)
                /\ OfDevice(save.archive, disk.id, disk.phone)

(* Between generations the archive is that of the ID in memory and of the  *)
(* one on disk.                                                            *)
ArchiveFits == ~parted => OfDevice(archive, disk.id, disk.phone) /\ OfDevice(archive, conf.id, conf.phone)

(* The configuration a failing save of a generation returns to.            *)
Settled == IF save.by = "device" THEN save.old ELSE conf
AckedFits ==
  acked /\ (save.at = "none" \/ save.by = "device") =>
    Loaded(disk) = IF Settled.subs = 0 THEN [Settled EXCEPT !.subs = disk.fallback] ELSE Settled

ConfigInv ==
  /\ ConfigTypeOK /\ version <= changes
  /\ ~serving => save = NoSave /\ conf = NoConf /\ ~acked /\ generation = NoGeneration
  /\ save.at = "none" => save = NoSave
  /\ save.by = "delete" => conf.id = 0 /\ stale.config
  /\ serving => FilesFit /\ AckedFits
  /\ IF save.by = "device" THEN CommitFits ELSE ArchiveFits

USE DEF Confs, Archives, PhoneOrNone, ListOrNone, NoConf, NoArchive, NoSave, NoGeneration, Clean

DiskType == [there : BOOLEAN, phone : PhoneOrNone, id : IDs, legacy : ListOrNone,
             subs : ListOrNone, fallback : ListOrNone]
StaleType == [config : BOOLEAN, subs : BOOLEAN, migrate : BOOLEAN]
SaveType == [at : {"none", "subs", "config"}, by : {"update", "delete", "device"},
             old : Confs, wasStale : BOOLEAN, archive : Archives]
GenerationType == [at : {"none", "running", "issued", "commit"}, conf : Confs,
                   version : 0..MaxChanges, id : IDs]
USE DEF DiskType, StaleType

ConfigTyped ==
  /\ serving \in BOOLEAN /\ acked \in BOOLEAN /\ parted \in BOOLEAN
  /\ conf \in Confs /\ stale \in StaleType /\ disk \in DiskType
  /\ save \in SaveType /\ generation \in GenerationType /\ archive \in Archives
  /\ version \in 0..MaxChanges /\ changes \in 0..MaxChanges
LEMMA ConfigTypes == (ConfigTypeOK <=> ConfigTyped) /\ (ConfigTypeOK' <=> ConfigTyped')
BY DEF ConfigTypeOK, ConfigTyped, SaveType, GenerationType

LEMMA NoneTyped ==
  /\ 0 \in IDs /\ 0 \in 0..MaxChanges
  /\ NoConf \in Confs /\ NoArchive \in Archives
  /\ NoSave \in SaveType /\ NoGeneration \in GenerationType
BY ConfigAssumption DEF IDs, SaveType, GenerationType

LEMMA ConfigInitInv == ConfigInit => ConfigInv
<1> SUFFICES ASSUME ConfigInit PROVE ConfigInv
  OBVIOUS
<1>1. PICK t \in BOOLEAN, l \in ListOrNone, f \in ListOrNone :
         disk = [there |-> t, phone |-> 0, id |-> 0, legacy |-> l, subs |-> 0, fallback |-> f]
  BY DEF ConfigInit
<1>2. ConfigTypeOK
  BY <1>1, NoneTyped, ConfigTypes DEF ConfigInit, ConfigTyped
<1>3. ArchiveFits
  BY <1>1 DEF ConfigInit, ArchiveFits, OfDevice
<1> QED BY <1>2, <1>3 DEF ConfigInit, ConfigInv

(* What a start reads is what an operation has acknowledged.               *)
LEMMA LoadStoreStep == ASSUME ConfigInv, LoadStore PROVE ConfigInv'
<1>1. Loaded(disk) \in Confs
  BY DEF ConfigInv, ConfigTypeOK, Loaded
<1>2. disk' = disk \/ disk' = [disk EXCEPT !.subs = IF @ # 0 THEN @ ELSE disk.fallback]
  BY DEF LoadStore
<1>3. ConfigTypeOK'
  <2>1. disk' \in DiskType
    BY <1>2 DEF ConfigInv, ConfigTypeOK
  <2>2. stale' \in StaleType
    <3>1. (disk.legacy # 0) \in BOOLEAN
      OBVIOUS
    <3> QED BY <3>1 DEF LoadStore
  <2> QED BY <1>1, <2>1, <2>2 DEF ConfigInv, ConfigTypeOK, LoadStore
<1>4. Loaded(disk') = conf' /\ (conf'.subs = 0 => disk'.fallback = 0)
  BY <1>2, ConfigAssumption DEF ConfigInv, ConfigTypeOK, LoadStore, Loaded
<1>5. AckedFits'
  BY <1>1, <1>4 DEF ConfigInv, LoadStore, AckedFits, Settled
<1>6. FilesFit'
  <2>1. save' = NoSave /\ disk'.legacy = disk.legacy /\ (stale'.migrate <=> disk.legacy # 0)
    BY <1>2 DEF ConfigInv, ConfigTypeOK, LoadStore
  <2>2. ConfigOnDisk(conf)'
    BY <1>2 DEF ConfigInv, ConfigTypeOK, LoadStore, Loaded, ConfigOnDisk
  <2>3. disk.legacy = 0 => SubsOnDisk'
    BY <1>2 DEF ConfigInv, ConfigTypeOK, LoadStore, Loaded, SubsOnDisk
  <2> QED BY <2>1, <2>2, <2>3 DEF FilesFit
<1>7. ArchiveFits'
  BY <1>2, NoneTyped DEF ConfigInv, ConfigTypeOK, LoadStore, Loaded, ArchiveFits, OfDevice
<1> QED BY <1>3, <1>5, <1>6, <1>7 DEF ConfigInv, LoadStore

(* A change marks what it has touched as stale.                            *)
LEMMA ChangeStep ==
  ASSUME ConfigInv, NEW phone \in PhoneOrNone, NEW subs \in ListOrNone, NEW id \in IDsAfter(phone),
         NEW by \in {"update", "delete"}, Open, Changed(phone, id, subs), Versioned, Change,
         Saves(by), stale' \in StaleType,
         stale'.migrate = stale.migrate,
         ~stale'.config => phone = conf.phone /\ id = conf.id /\ ~stale.config,
         ~stale'.subs => subs = conf.subs /\ ~stale.subs,
         by = "delete" => phone = 0 /\ conf.phone # 0 /\ stale'.config,
         UNCHANGED <<serving, disk, generation, archive, acked, parted>>
  PROVE  ConfigInv'
<1>1. conf' \in Confs
  BY NoneTyped DEF ConfigInv, ConfigTypeOK, Changed, IDsAfter, IDs
<1>2. /\ version' \in 0..MaxChanges /\ version' <= changes'
      /\ changes' \in 0..MaxChanges
  BY ConfigAssumption DEF ConfigInv, ConfigTypeOK, Versioned, Change
<1>3. save' = [NoSave EXCEPT !.at = "subs", !.by = by]
  BY DEF Saves
<1>4. ConfigTypeOK'
  <2>1. save' \in SaveType
    BY <1>3, NoneTyped DEF SaveType
  <2> QED BY ONLY <1>1, <1>2, <2>1, ConfigInv, UNCHANGED <<serving, disk, generation, archive, acked, parted>>,
             stale' \in StaleType
          , ConfigTypes DEF ConfigInv, ConfigTyped
<1>5. FilesFit'
  BY <1>3 DEF ConfigInv, ConfigTypeOK, Open, Changed, FilesFit, ConfigOnDisk, SubsOnDisk
<1>6. AckedFits' /\ save'.by # "device"
  BY <1>3 DEF AckedFits
<1>7. save.by # "device" /\ ArchiveFits
  BY DEF ConfigInv, Open
<1>8. ArchiveFits'
  BY <1>7 DEF ArchiveFits, OfDevice, Changed, IDsAfter
<1> QED BY <1>2, <1>3, <1>4, <1>5, <1>6, <1>8 DEF ConfigInv, Open, Changed, IDsAfter

LEMMA ChangesStep ==
  ASSUME ConfigInv, NEW phone \in PhoneOrNone, NEW subs \in ListOrNone, NEW id \in IDsAfter(phone),
         UpdateConfig(phone, id, subs) \/ ReplaceConfig(phone, id, subs) \/ DeleteAccount
  PROVE  ConfigInv'
<1>0. /\ stale \in StaleType
      /\ conf \in Confs
  BY DEF ConfigInv, ConfigTypeOK
<1>1. CASE UpdateConfig(phone, id, subs)
  <2>1. PICK config \in BOOLEAN, list \in BOOLEAN :
          /\ config = (stale.config \/ phone # conf.phone \/ id # conf.id)
          /\ list = (stale.subs \/ subs # conf.subs)
    BY <1>0, Zenon
  <2>2. stale' = [stale EXCEPT !.config = config, !.subs = list]
    BY <1>1, <2>1 DEF UpdateConfig
  <2>3. /\ stale' \in StaleType
        /\ stale'.migrate = stale.migrate /\ stale'.config = config /\ stale'.subs = list
    BY <1>0, <2>2
  <2> QED BY <1>1, <2>1, <2>3, ChangeStep DEF UpdateConfig
<1>2. CASE ReplaceConfig(phone, id, subs)
  <2>1. /\ stale' \in StaleType
        /\ stale'.migrate = stale.migrate /\ stale'.config /\ stale'.subs
    BY <1>0, <1>2 DEF ReplaceConfig
  <2> QED BY <1>2, <2>1, ChangeStep DEF ReplaceConfig
<1>3. CASE DeleteAccount
  <2>1. /\ stale' \in StaleType
        /\ stale'.migrate = stale.migrate /\ stale'.config /\ stale'.subs = stale.subs
    BY <1>0, <1>3 DEF DeleteAccount
  <2>2. 0 \in PhoneOrNone /\ conf.subs \in ListOrNone /\ 0 \in IDsAfter(0)
    BY <1>0 DEF IDsAfter
  <2> QED BY <1>3, <2>1, <2>2, ChangeStep DEF DeleteAccount
<1> QED BY <1>1, <1>2, <1>3

LEMMA UpdateTokenStep == ASSUME ConfigInv, UpdateToken PROVE ConfigInv'
<1>1. save' = [NoSave EXCEPT !.at = "subs", !.by = "update"] /\ save = NoSave
  BY DEF UpdateToken, Saves, Open, ConfigInv
<1>2. ConfigTypeOK'
  <2>1. save' \in SaveType
    BY <1>1, NoneTyped DEF SaveType
  <2> QED BY <2>1, ConfigTypes DEF UpdateToken, ConfigInv, ConfigTyped
<1>3. FilesFit' /\ AckedFits' /\ ArchiveFits'
  BY <1>1 DEF UpdateToken, Open, ConfigInv, FilesFit, AckedFits, ArchiveFits, ConfigOnDisk,
              SubsOnDisk, OfDevice
<1> QED BY <1>1, <1>2, <1>3 DEF UpdateToken, Open, ConfigInv

(* A write that succeeds, of the subscriptions.                            *)
LEMMA SaveSubsStep == ASSUME ConfigInv, SaveSubs PROVE ConfigInv'
<1>1. /\ save' = [save EXCEPT !.at = "config"]
      /\ save \in SaveType
      /\ serving
  BY ConfigTypes DEF SaveSubs, ConfigInv, ConfigTyped
<1>2. \/ disk' = [disk EXCEPT !.subs = conf.subs] /\ stale' = [stale EXCEPT !.subs = FALSE]
      \/ disk' = disk /\ stale' = stale /\ ~stale.subs /\ ~stale.migrate
  BY DEF SaveSubs
<1>3. ConfigTypeOK'
  <2>1. save' \in SaveType
    BY <1>1 DEF SaveType
  <2>2. disk' \in DiskType /\ stale' \in StaleType
    BY <1>2, ConfigTypes DEF ConfigInv, ConfigTyped
  <2> QED BY <2>1, <2>2, ConfigTypes DEF SaveSubs, ConfigInv, ConfigTyped
<1>4. /\ disk'.phone = disk.phone /\ disk'.id = disk.id /\ disk'.legacy = disk.legacy
      /\ disk'.fallback = disk.fallback
      /\ stale'.config = stale.config /\ stale'.migrate = stale.migrate
  BY <1>2 DEF ConfigInv, ConfigTypeOK
<1>5. SubsOnDisk'
  BY <1>1, <1>2 DEF SaveSubs, ConfigInv, ConfigTypeOK, FilesFit, SubsOnDisk
<1>6. FilesFit'
  BY <1>1, <1>4, <1>5 DEF SaveSubs, ConfigInv, FilesFit, ConfigOnDisk
<1>7. AckedFits'
  BY <1>1, <1>2, <1>5 DEF SaveSubs, ConfigInv, ConfigTypeOK, CommitFits, AckedFits, Settled, Loaded,
     SubsOnDisk, FilesFit
<1>8. IF save'.by = "device" THEN CommitFits' ELSE ArchiveFits'
  BY <1>1, <1>4 DEF SaveSubs, ConfigInv, CommitFits, ArchiveFits, ConfigOnDisk, OfDevice
<1> QED BY <1>1, <1>3, <1>4, <1>6, <1>7, <1>8 DEF SaveSubs, ConfigInv

LEMMA SaveConfigStep == ASSUME ConfigInv, SaveConfig PROVE ConfigInv'
<1>0. serving /\ conf \in Confs
  BY DEF SaveConfig, ConfigInv, ConfigTypeOK
<1>1. \/ /\ disk' = [disk EXCEPT !.there = TRUE, !.phone = conf.phone, !.id = conf.id, !.legacy = 0]
      \/ disk' = disk /\ ~stale.config /\ ~stale.migrate
  BY DEF SaveConfig, WritesConfig
<1>2. /\ stale' = [stale EXCEPT !.config = FALSE, !.migrate = FALSE] /\ save' = NoSave
      /\ stale' \in StaleType
      /\ ~stale'.config
  BY DEF SaveConfig, ConfigInv, ConfigTypeOK
<1>3. ConfigTypeOK'
  <2>1. disk' \in DiskType
    <3>1. disk \in DiskType /\ 0 \in ListOrNone /\ TRUE \in BOOLEAN
      BY ConfigTypes, NoneTyped DEF ConfigInv, ConfigTyped
    <3>2. CASE disk' = [disk EXCEPT !.there = TRUE, !.phone = conf.phone, !.id = conf.id, !.legacy = 0]
      BY <1>0, <3>1, <3>2
    <3> QED BY <1>1, <3>1, <3>2
  <2>2. /\ archive' \in Archives
        /\ generation' \in GenerationType
        /\ parted' \in BOOLEAN
    BY NoneTyped, ConfigTypes DEF SaveConfig, ConfigInv, ConfigTyped
  <2> QED BY <1>2, <2>1, <2>2, NoneTyped, ConfigTypes DEF SaveConfig, ConfigInv, ConfigTyped
<1>4. ConfigOnDisk(conf)' /\ disk'.legacy = 0 /\ disk'.subs = disk.subs /\ disk'.fallback = disk.fallback
  BY <1>0, <1>1 DEF SaveConfig, ConfigInv, ConfigTypeOK, FilesFit, ConfigOnDisk
<1>5. SubsOnDisk'
  BY <1>0, <1>4 DEF SaveConfig, ConfigInv, FilesFit, SubsOnDisk
<1>6. FilesFit'
  BY <1>2, <1>4, <1>5 DEF FilesFit
<1>7. AckedFits'
  <2>1. conf' = conf
    BY DEF SaveConfig
  <2> QED BY <1>0, <1>2, <1>4, <1>5, <2>1, <1>3 DEF AckedFits, Settled, Loaded, SubsOnDisk, ConfigOnDisk
<1>8. ArchiveFits'
  BY <1>0, <1>4 DEF SaveConfig, ConfigInv, CommitFits, ArchiveFits, ConfigOnDisk, OfDevice
<1> QED BY <1>0, <1>2, <1>3, <1>6, <1>7, <1>8 DEF SaveConfig, ConfigInv

(* A write that fails: a generation returns to what it found.              *)
LEMMA WriteFailsStep == ASSUME ConfigInv, WriteFails PROVE ConfigInv'
<1>0. /\ save' = NoSave /\ serving /\ UNCHANGED <<serving, disk, version, changes>>
      /\ save \in SaveType /\ conf \in Confs /\ stale \in StaleType /\ FilesFit /\ AckedFits
  BY ConfigTypes DEF WriteFails, ConfigInv, ConfigTyped
<1>1. CASE save.by = "device"
  <2>1. /\ conf' = save.old /\ stale' = [stale EXCEPT !.config = save.wasStale]
        /\ \/ archive' = save.archive /\ parted' = parted
           \/ parted' = TRUE /\ archive' = archive
        /\ generation' = NoGeneration /\ acked' = acked
    BY <1>1 DEF WriteFails
  <2>2. CommitFits
    BY <1>1 DEF ConfigInv
  <2>3. conf' \in Confs /\ stale' \in StaleType /\ archive' \in Archives /\ parted' \in BOOLEAN
    BY <1>0, <2>1, ConfigTypes DEF SaveType, ConfigInv, ConfigTyped
  <2>4. ConfigTypeOK'
    BY <1>0, <2>1, <2>3, NoneTyped, ConfigTypes DEF ConfigInv, ConfigTyped
  <2>5. conf'.subs = conf.subs /\ stale'.subs = stale.subs /\ stale'.migrate = stale.migrate
        /\ stale'.config = save.wasStale
    BY <1>0, <2>1, <2>2 DEF CommitFits, SaveType
  <2>6. FilesFit'
    BY <1>0, <2>1, <2>2, <2>5 DEF CommitFits, FilesFit, ConfigOnDisk, SubsOnDisk
  <2>7. AckedFits'
    BY <1>0, <1>1, <2>1 DEF AckedFits, Settled
  <2>8. ArchiveFits'
    BY <1>0, <2>1, <2>2 DEF CommitFits, ArchiveFits
  <2> QED BY <1>0, <2>4, <2>6, <2>7, <2>8 DEF ConfigInv
<1>2. CASE save.by # "device"
  <2>1. /\ UNCHANGED <<stale, conf, archive, parted, generation>> /\ acked' = FALSE
    BY <1>2 DEF WriteFails, StaleKept
  <2>2. ConfigTypeOK'
    BY <1>0, <2>1, NoneTyped, ConfigTypes DEF ConfigInv, ConfigTyped
  <2>3. FilesFit' /\ AckedFits'
    BY <1>0, <2>1 DEF FilesFit, AckedFits, ConfigOnDisk, SubsOnDisk
  <2>4. ArchiveFits'
    BY <1>0, <1>2, <2>1 DEF ConfigInv, ArchiveFits, OfDevice
  <2> QED BY <1>0, <2>2, <2>3, <2>4 DEF ConfigInv
<1> QED BY <1>1, <1>2

(* A crash leaves the files, and an archive that may be ahead of them.     *)
LEMMA ConfigCrashStep == ASSUME ConfigInv, ConfigCrash PROVE ConfigInv'
<1>1. /\ ~serving' /\ conf' = NoConf /\ stale' = Clean /\ save' = NoSave /\ version' = 0
      /\ generation' = NoGeneration /\ acked' = FALSE
      /\ parted' = (parted \/ save.by = "device") /\ disk' = disk /\ archive' = archive
      /\ serving' = FALSE
  BY DEF ConfigCrash
<1>2. changes' \in 0..MaxChanges /\ version' \in 0..MaxChanges /\ version' <= changes'
  BY <1>1, NoneTyped, ConfigAssumption, ConfigTypes DEF ConfigCrash, Change, ConfigInv, ConfigTyped
<1>3. parted' \in BOOLEAN
  BY <1>1, Zenon
<1>4. ConfigTypeOK'
  BY <1>1, <1>2, <1>3, NoneTyped, ConfigTypes DEF ConfigInv, ConfigTyped
<1>5. ArchiveFits'
  BY <1>1 DEF ConfigInv, ArchiveFits, OfDevice
<1> QED BY <1>1, <1>2, <1>4, <1>5 DEF ConfigInv

(* A generation that runs touches neither memory nor files.                *)
LEMMA GeneratingStep ==
  ASSUME ConfigInv, TakeSnapshot \/ (\E id \in IDs : Generate(id)) \/ GenerationFails
  PROVE  ConfigInv'
<1>1. /\ UNCHANGED <<serving, conf, stale, disk, save, version, archive, acked, parted, changes>>
      /\ generation.at # "commit"
  BY DEF TakeSnapshot, Generate, GenerationFails
<1>2. generation' \in GenerationType
  <2>1. CASE TakeSnapshot
    BY <2>1, NoneTyped, ConfigTypes DEF TakeSnapshot, ConfigInv, ConfigTyped, GenerationType
  <2>2. CASE \E id \in IDs : Generate(id)
    BY <2>2, ConfigTypes DEF Generate, ConfigInv, ConfigTyped, GenerationType
  <2>3. CASE GenerationFails
    BY <2>3, NoneTyped DEF GenerationFails
  <2> QED BY <2>1, <2>2, <2>3
<1>3. ConfigTypeOK'
  BY <1>1, <1>2, ConfigTypes DEF ConfigInv, ConfigTyped
<1>4. serving
  <2>1. Open \/ generation.at # "none"
    BY DEF TakeSnapshot, Generate, GenerationFails
  <2> QED BY <2>1 DEF Open, ConfigInv
<1>5. save.by # "device"
  BY <1>1 DEF ConfigInv, CommitFits
<1>6. FilesFit' /\ AckedFits' /\ ArchiveFits'
  BY <1>1, <1>4, <1>5 DEF ConfigInv, FilesFit, AckedFits, Settled, ArchiveFits, ConfigOnDisk,
     SubsOnDisk, OfDevice
<1> QED BY <1>1, <1>3, <1>4, <1>5, <1>6 DEF ConfigInv

LEMMA CommitStep == ASSUME ConfigInv, Commit PROVE ConfigInv'
<1>0. /\ serving /\ save = NoSave /\ generation.at = "issued" /\ FilesFit /\ AckedFits /\ ArchiveFits
      /\ conf \in Confs /\ stale \in StaleType /\ archive \in Archives /\ generation \in GenerationType
      /\ UNCHANGED <<serving, disk, version, acked, parted, changes>>
  BY ConfigTypes DEF Commit, Open, ConfigInv, ConfigTyped
<1>1. CASE Unchanged
  <2>1. /\ archive' = [id |-> generation.id, phone |-> conf.phone]
        /\ conf' = [conf EXCEPT !.id = generation.id]
        /\ save' = [at |-> "subs", by |-> "device", old |-> conf,
                    wasStale |-> stale.config, archive |-> archive]
        /\ stale' = [stale EXCEPT !.config = TRUE]
        /\ generation' = [generation EXCEPT !.at = "commit"]
    BY <1>1 DEF Commit, Unchanged
  <2>2. /\ conf' \in Confs /\ stale' \in StaleType /\ archive' \in Archives
        /\ generation' \in GenerationType /\ save' \in SaveType
    BY <1>0, <2>1 DEF GenerationType, SaveType
  <2>3. ConfigTypeOK'
    BY <1>0, <2>2, ConfigTypes DEF ConfigInv, ConfigTyped
  <2>4. /\ conf'.subs = conf.subs /\ stale'.subs = stale.subs /\ stale'.migrate = stale.migrate
        /\ stale'.config /\ conf'.id = generation.id /\ generation'.id = generation.id
        /\ conf'.phone = conf.phone /\ generation'.at = "commit"
    BY <1>0, <2>1 DEF GenerationType
  <2>5. FilesFit' /\ AckedFits'
    BY <1>0, <2>1, <2>4 DEF FilesFit, AckedFits, Settled, SubsOnDisk
  <2>6. CommitFits'
    <3>1. ~stale.config => ConfigOnDisk(conf)
      BY <1>0 DEF FilesFit
    <3> QED BY <1>0, <2>1, <2>4, <3>1 DEF CommitFits, ArchiveFits, ConfigOnDisk
  <2> QED BY <1>0, <2>1, <2>3, <2>5, <2>6 DEF ConfigInv
<1>2. CASE ~Unchanged
  <2>1. generation' = NoGeneration /\ UNCHANGED <<archive, conf, save, stale>>
    BY <1>2 DEF Commit
  <2>2. ConfigTypeOK'
    BY <1>0, <2>1, NoneTyped, ConfigTypes DEF ConfigInv, ConfigTyped
  <2>3. FilesFit' /\ AckedFits' /\ ArchiveFits'
    BY <1>0, <2>1 DEF FilesFit, AckedFits, Settled, ArchiveFits, ConfigOnDisk, SubsOnDisk, OfDevice
  <2> QED BY <1>0, <2>1, <2>2, <2>3 DEF ConfigInv
<1> QED BY <1>1, <1>2

LEMMA ConfigStep == ASSUME ConfigInv, [ConfigNext]_configVars PROVE ConfigInv'
<1>1. CASE LoadStore \/ UpdateToken \/ SaveSubs \/ SaveConfig \/ WriteFails \/ ConfigCrash
  BY <1>1, LoadStoreStep, UpdateTokenStep, SaveSubsStep, SaveConfigStep, WriteFailsStep, ConfigCrashStep
<1>2. CASE \E phone \in PhoneOrNone, subs \in ListOrNone : \E id \in IDsAfter(phone) :
             UpdateConfig(phone, id, subs) \/ ReplaceConfig(phone, id, subs)
  BY <1>2, ChangesStep
<1>3. CASE DeleteAccount
  <2>1. 0 \in PhoneOrNone /\ 0 \in ListOrNone /\ 0 \in IDsAfter(0)
    BY DEF IDsAfter
  <2> QED BY <1>3, <2>1, ChangesStep
<1>4. CASE TakeSnapshot \/ (\E id \in IDs : Generate(id)) \/ GenerationFails \/ Commit
  BY <1>4, GeneratingStep, CommitStep
<1>5. CASE UNCHANGED configVars
  BY <1>5, ConfigTypes DEF configVars, ConfigInv, ConfigTyped, FilesFit, AckedFits, Settled,
     CommitFits, ArchiveFits, ConfigOnDisk, SubsOnDisk, OfDevice
<1> QED BY <1>1, <1>2, <1>3, <1>4, <1>5 DEF ConfigNext, Fresh, IDs

LEMMA ConfigSafe == ConfigInv => ConfigKept
BY DEF ConfigInv, ConfigKept, AcknowledgedIsDurable, IDFitsDevice, Open, AckedFits, Settled,
   ArchiveFits, OfDevice

(* What an operation has acknowledged is on disk with all that came before *)
(* it, and an issued ID in use fits device and archive, for any number of  *)
(* changes, failed writes, crashes and generations in between.             *)
THEOREM ConfigKeptHolds == ConfigSpec => []ConfigKept
BY ConfigInitInv, ConfigStep, ConfigSafe, PTL DEF ConfigSpec

HIDE DEF Confs, Archives, PhoneOrNone, ListOrNone, NoConf, NoArchive, NoSave, NoGeneration, Clean,
         DiskType, StaleType

-----------------------------------------------------------------------------
(***************************************************************************)
(* THE CHAT HISTORY                                                        *)
(***************************************************************************)

Contents == [Chats -> Detail \cup {NoDetail}]
HistoryShape ==
  /\ up \in BOOLEAN
  /\ details \in Contents /\ files \in Contents /\ index.list \in Contents
  /\ page.list \in Contents
  /\ limit \in Nat /\ listRevision \in Nat /\ clock \in Nat
  /\ page.revision \in Nat /\ index.revision \in Nat /\ index.limit \in Nat
  /\ index.there \in BOOLEAN
  /\ unsaved \subseteq Chats /\ removed \subseteq Chats
  /\ saving \in [on : BOOLEAN, remove : SUBSET Chats, write : SUBSET Chats]

(* The history stays within its limit.                                     *)
InLimit(list, max) == Kept(list, max) = Listed(list)
LimitKept == InLimit(details, limit) /\ InLimit(index.list, index.limit)

(* The files and the index, as long as the process runs: what is pending   *)
(* covers what they lack, and a save does it step by step.                 *)
FilesCovered ==
  /\ PendingCoversDisk
  /\ unsaved \subseteq Listed(details) /\ removed \cap Listed(details) = {}
  /\ saving.remove \subseteq removed /\ saving.write \subseteq unsaved
  /\ saving.on => up /\ \A c \in unsaved \ saving.write : files[c] = details[c]
  /\ ~index.there => index = NoIndex
  /\ ~up => unsaved = {} /\ removed = {}

(* A revision names one list: that of the memory, of the index and of the  *)
(* page, unless a start has found the list torn.                           *)
SameList(r, list, s, other) == r = s /\ r \notin torn \cup {0} => list = other
RevisionsTell ==
  /\ page.revision <= clock /\ index.revision <= clock /\ listRevision <= clock
  /\ SameList(page.revision, page.list, index.revision, index.list)
  /\ up => /\ SameList(page.revision, page.list, listRevision, details)
           /\ SameList(index.revision, index.list, listRevision, details)

HistoryInv == HistoryShape /\ LimitKept /\ FilesCovered /\ RevisionsTell

LEMMA NoDetailsTyped == NoDetails \in Contents /\ Listed(NoDetails) = {} /\ NoDetail \in Detail \cup {NoDetail}
BY DEF NoDetails, NoDetail, Contents, Listed

LEMMA ListedFinite == ASSUME NEW list PROVE Listed(list) \subseteq Chats /\ IsFiniteSet(Listed(list))
BY HistoryAssumption, FS_Subset DEF Listed

(* What a limit leaves it leaves again: fewer conversations are younger.   *)
LEMMA KeptAgain ==
  ASSUME NEW list \in Contents, NEW max \in Nat, NEW new,
         new = [c \in Chats |-> IF c \in Kept(list, max) THEN list[c] ELSE NoDetail]
  PROVE  /\ Kept(list, max) \subseteq Listed(list) /\ new \in Contents
         /\ Listed(new) = Kept(list, max) /\ InLimit(new, max)
<1>1. Kept(list, max) \subseteq Listed(list) /\ Listed(list) \subseteq Chats
  BY DEF Kept, Listed
<1>2. new \in Contents
  BY NoDetailsTyped DEF Contents
<1>3. Listed(new) = Kept(list, max)
  BY <1>1 DEF Listed, NoDetail
<1>4. InLimit(new, max)
  <2>1. CASE max = 0
    BY <2>1 DEF InLimit, Kept
  <2>2. CASE max # 0
    <3>1. ASSUME NEW c \in Listed(new)
          PROVE  Cardinality({d \in Listed(new) : Younger(new, d, c)}) < max
      <4> DEFINE few == {d \in Listed(new) : Younger(new, d, c)}
                 many == {d \in Listed(list) : Younger(list, d, c)}
      <4>1. Cardinality(many) < max
        BY <2>2, <1>3, <3>1 DEF Kept
      <4>2. few \subseteq many
        BY <1>1, <1>3 DEF Younger
      <4>3. IsFiniteSet(many)
        BY ListedFinite, FS_Subset
      <4>4. /\ Cardinality(few) <= Cardinality(many)
            /\ Cardinality(few) \in Nat /\ Cardinality(many) \in Nat
        BY <4>2, <4>3, FS_Subset, FS_CardinalityType
      <4> QED BY <4>1, <4>4
    <3> QED BY <2>2, <3>1 DEF InLimit, Kept
  <2> QED BY <2>1, <2>2
<1> QED BY <1>1, <1>2, <1>3, <1>4

LEMMA HistoryInitInv == HistoryInit => HistoryInv
<1> SUFFICES ASSUME HistoryInit PROVE HistoryInv
  OBVIOUS
<1>1. HistoryShape
  BY NoDetailsTyped, HistoryAssumption DEF HistoryInit, HistoryShape, NoIndex, NoPage, Nothing
<1>2. LimitKept
  BY NoDetailsTyped DEF HistoryInit, LimitKept, InLimit, Kept, NoIndex
<1>3. FilesCovered
  BY NoDetailsTyped DEF HistoryInit, FilesCovered, PendingCoversDisk, Nothing, NoIndex
<1>4. RevisionsTell
  BY DEF HistoryInit, RevisionsTell, SameList, NoIndex, NoPage
<1> QED BY <1>1, <1>2, <1>3, <1>4 DEF HistoryInv

(* What a save of a list does to the memory, if the list differs from the  *)
(* files only where it has changed, and from the index only in what is     *)
(* gone.                                                                   *)
LEMMA SavingStep ==
  ASSUME HistoryInv, NEW list \in Contents, NEW max \in Nat, NEW changed \in SUBSET Listed(list),
         NEW leaving \in SUBSET (Chats \ Listed(list)), SaveHistory(list, max, changed, leaving),
         UNCHANGED <<files, index>>, up',
         unsaved \subseteq Listed(list) \cup leaving,
         removed \cap Listed(list) \subseteq changed,
         \A c \in Listed(list) \ (unsaved \cup changed) : files[c] = list[c],
         \A c \in Listed(index.list) \ Listed(list) : c \in leaving \cup removed \/ ~files[c].there
  PROVE  /\ details' = [c \in Chats |-> IF c \in Kept(list, max) THEN list[c] ELSE NoDetail]
         /\ details' \in Contents /\ limit' = max /\ InLimit(details', max)
         /\ unsaved' \subseteq Chats /\ removed' \subseteq Chats
         /\ saving' \in [on : BOOLEAN, remove : SUBSET Chats, write : SUBSET Chats]
         /\ FilesCovered'
<1> DEFINE kept == Kept(list, max)
           dropped == Listed(list) \ kept
           write == (unsaved \cup changed) \ (leaving \cup dropped)
           remove == (removed \ changed) \cup leaving \cup dropped
<1>1. /\ details' = [c \in Chats |-> IF c \in kept THEN list[c] ELSE NoDetail]
      /\ limit' = max /\ unsaved' = write /\ removed' = remove
      /\ saving' = [on |-> TRUE, remove |-> remove, write |-> write]
  BY DEF SaveHistory
<1>2. /\ kept \subseteq Listed(list) /\ details' \in Contents
      /\ Listed(details') = kept /\ InLimit(details', max) /\ Listed(list) \subseteq Chats
  BY <1>1, KeptAgain, ListedFinite
<1>3. unsaved \subseteq Chats /\ removed \subseteq Chats
  BY DEF HistoryInv, HistoryShape
<1>4. write \subseteq Chats /\ remove \subseteq Chats
  BY <1>2, <1>3
<1>5. write \subseteq kept /\ remove \cap kept = {}
  BY <1>2
<1>6. \A c \in kept \ write : files[c] = list[c]
  BY <1>2
<1>7. \A c \in Listed(index.list) \ kept : c \in remove \/ ~files[c].there
  BY <1>2
<1>8. \A c \in kept : details'[c] = list[c]
  BY <1>1, <1>2
<1> HIDE DEF kept, write, remove
<1>9. PendingCoversDisk'
  BY <1>1, <1>2, <1>6, <1>7, <1>8 DEF PendingCoversDisk, Listed
<1>10. FilesCovered'
  BY <1>1, <1>2, <1>5, <1>9 DEF HistoryInv, FilesCovered
<1> QED BY <1>1, <1>2, <1>4, <1>10 DEF kept, write, remove

(* A new revision is none that the page or the index has.                  *)
LEMMA NewRevisionTells ==
  ASSUME HistoryInv, NextRevision, UNCHANGED <<index, page>>
  PROVE  RevisionsTell' /\ clock' \in Nat /\ listRevision' \in Nat
BY DEF HistoryInv, HistoryShape, NextRevision, RevisionsTell, SameList

LEMMA StartChatStep == ASSUME HistoryInv, NEW c \in Chats, StartChat(c) PROVE HistoryInv'
<1>1. clock' \in Nat /\ listRevision' \in Nat /\ RevisionsTell'
  BY NewRevisionTells DEF StartChat
<1>2. PICK created \in {1, clock'} :
        SaveHistory([details EXCEPT ![c] = [there |-> TRUE, streaming |-> TRUE,
                                            revision |-> clock', created |-> created]],
                    limit, {c}, {})
  BY DEF StartChat
<1> DEFINE list == [details EXCEPT ![c] = [there |-> TRUE, streaming |-> TRUE,
                                           revision |-> clock', created |-> created]]
<1>3. /\ details \in Contents /\ limit \in Nat /\ UNCHANGED <<up, files, index, page>> /\ up
      /\ c \notin Listed(details)
  BY DEF StartChat, Serving, HistoryInv, HistoryShape
<1>4. /\ list \in Contents /\ Listed(list) = Listed(details) \cup {c}
      /\ \A d \in Listed(details) : list[d] = details[d]
  <2>1. clock' \in Nat /\ created \in Nat
    BY <1>1
  <2>2. [there |-> TRUE, streaming |-> TRUE, revision |-> clock', created |-> created] \in Detail
    BY <2>1 DEF Detail
  <2> DEFINE new == [there |-> TRUE, streaming |-> TRUE, revision |-> clock', created |-> created]
  <2>3. new \in Detail /\ new.there
    BY <2>2
  <2> HIDE DEF new
  <2>4. list = [details EXCEPT ![c] = new]
    BY DEF new
  <2> HIDE DEF list
  <2> QED BY <1>3, <2>3, <2>4 DEF Contents, Listed
<1>5. /\ SaveHistory(list, limit, {c}, {})
      /\ {c} \in SUBSET Listed(list) /\ {} \in SUBSET (Chats \ Listed(list))
  BY <1>2, <1>4
<1> HIDE DEF list
<1>6. /\ unsaved \subseteq Listed(list) \cup {}
      /\ removed \cap Listed(list) \subseteq {c}
      /\ \A d \in Listed(list) \ (unsaved \cup {c}) : files[d] = list[d]
      /\ \A d \in Listed(index.list) \ Listed(list) : d \in {} \cup removed \/ ~files[d].there
  BY <1>3, <1>4 DEF HistoryInv, FilesCovered, PendingCoversDisk
<1>7. /\ details' \in Contents /\ limit' = limit /\ InLimit(details', limit)
      /\ unsaved' \subseteq Chats /\ removed' \subseteq Chats
      /\ saving' \in [on : BOOLEAN, remove : SUBSET Chats, write : SUBSET Chats]
      /\ FilesCovered'
  BY <1>3, <1>4, <1>5, <1>6, SavingStep
<1> QED BY <1>1, <1>3, <1>7 DEF HistoryInv, HistoryShape, LimitKept

(* One conversation's details, changed.                                    *)
LEMMA UpdateChatStep ==
  ASSUME HistoryInv, NEW c \in Chats, NEW ended \in BOOLEAN, UpdateChat(c, ended)
  PROVE  HistoryInv'
<1>0. UNCHANGED <<up, files, index, page>> /\ up
  BY DEF UpdateChat, Serving
<1>1. CASE c \in Listed(details)
  <2> DEFINE list == [details EXCEPT ![c].streaming = ~ended, ![c].revision = clock']
  <2>1. NextRevision /\ SaveHistory(list, limit, {c}, {})
    BY <1>1 DEF UpdateChat
  <2>2. clock' \in Nat /\ listRevision' \in Nat /\ RevisionsTell'
    BY <1>0, <2>1, NewRevisionTells
  <2>3. details \in Contents /\ limit \in Nat
    BY DEF HistoryInv, HistoryShape
  <2>4. details[c] \in Detail
    BY <1>1, <2>3 DEF Contents, Listed, NoDetail
  <2> DEFINE new == [details[c] EXCEPT !.streaming = ~ended, !.revision = clock']
  <2>5. new \in Detail /\ new.there
    BY <2>2, <2>4 DEF Detail
  <2>6. list = [details EXCEPT ![c] = new]
    BY <2>3 DEF Contents
  <2> HIDE DEF new, list
  <2>7. /\ list \in Contents /\ Listed(list) = Listed(details)
        /\ \A d \in Listed(details) \ {c} : list[d] = details[d]
    BY <1>1, <2>3, <2>5, <2>6 DEF Contents, Listed
  <2>8. {c} \in SUBSET Listed(list) /\ {} \in SUBSET (Chats \ Listed(list))
    BY <1>1, <2>7
  <2>9. /\ unsaved \subseteq Listed(list) \cup {}
        /\ removed \cap Listed(list) \subseteq {c}
        /\ \A d \in Listed(list) \ (unsaved \cup {c}) : files[d] = list[d]
        /\ \A d \in Listed(index.list) \ Listed(list) : d \in {} \cup removed \/ ~files[d].there
    BY <1>0, <2>7 DEF HistoryInv, FilesCovered, PendingCoversDisk
  <2>10. /\ details' \in Contents /\ limit' = limit /\ InLimit(details', limit)
         /\ unsaved' \subseteq Chats /\ removed' \subseteq Chats
         /\ saving' \in [on : BOOLEAN, remove : SUBSET Chats, write : SUBSET Chats]
         /\ FilesCovered'
    BY <1>0, <2>1, <2>3, <2>7, <2>8, <2>9, SavingStep
  <2> QED BY <1>0, <2>2, <2>10 DEF HistoryInv, HistoryShape, LimitKept
<1>2. CASE c \notin Listed(details)
  <2>1. UNCHANGED <<details, limit, listRevision, unsaved, removed, saving, clock, torn>>
    BY <1>2 DEF UpdateChat
  <2> QED BY <1>0, <2>1 DEF HistoryInv, HistoryShape, LimitKept, FilesCovered, PendingCoversDisk,
             RevisionsTell, SameList
<1> QED BY <1>1, <1>2

LEMMA DeleteChatsStep ==
  ASSUME HistoryInv, NEW leaving \in SUBSET Listed(details), DeleteChats(leaving) PROVE HistoryInv'
<1> DEFINE list == [c \in Chats |-> IF c \in leaving THEN NoDetail ELSE details[c]]
<1>0. /\ UNCHANGED <<up, files, index, page>> /\ up /\ details \in Contents /\ limit \in Nat
      /\ NextRevision /\ SaveHistory(list, limit, {}, leaving)
  BY DEF DeleteChats, Serving, HistoryInv, HistoryShape
<1>1. clock' \in Nat /\ listRevision' \in Nat /\ RevisionsTell'
  BY <1>0, NewRevisionTells
<1>2. /\ list \in Contents /\ Listed(list) = Listed(details) \ leaving
      /\ \A d \in Listed(list) : list[d] = details[d]
  BY <1>0, NoDetailsTyped DEF Contents, Listed, NoDetail
<1> HIDE DEF list
<1>3. {} \in SUBSET Listed(list) /\ leaving \in SUBSET (Chats \ Listed(list))
  BY <1>2 DEF Listed
<1>4. /\ unsaved \subseteq Listed(list) \cup leaving
      /\ removed \cap Listed(list) \subseteq {}
      /\ \A d \in Listed(list) \ (unsaved \cup {}) : files[d] = list[d]
      /\ \A d \in Listed(index.list) \ Listed(list) : d \in leaving \cup removed \/ ~files[d].there
  BY <1>0, <1>2 DEF HistoryInv, FilesCovered, PendingCoversDisk
<1>5. /\ details' \in Contents /\ limit' = limit /\ InLimit(details', limit)
      /\ unsaved' \subseteq Chats /\ removed' \subseteq Chats
      /\ saving' \in [on : BOOLEAN, remove : SUBSET Chats, write : SUBSET Chats]
      /\ FilesCovered'
  BY <1>0, <1>2, <1>3, <1>4, SavingStep
<1> QED BY <1>0, <1>1, <1>5 DEF HistoryInv, HistoryShape, LimitKept

LEMMA SetLimitStep == ASSUME HistoryInv, NEW max \in Limits, SetLimit(max) PROVE HistoryInv'
<1>0. /\ UNCHANGED <<up, files, index, page>> /\ up /\ details \in Contents /\ max \in Nat
      /\ NextRevision /\ SaveHistory(details, max, {}, {})
  BY HistoryAssumption DEF SetLimit, Serving, HistoryInv, HistoryShape
<1>1. clock' \in Nat /\ listRevision' \in Nat /\ RevisionsTell'
  BY <1>0, NewRevisionTells
<1>2. /\ unsaved \subseteq Listed(details) \cup {}
      /\ removed \cap Listed(details) \subseteq {}
      /\ \A d \in Listed(details) \ (unsaved \cup {}) : files[d] = details[d]
      /\ \A d \in Listed(index.list) \ Listed(details) : d \in {} \cup removed \/ ~files[d].there
      /\ {} \in SUBSET Listed(details) /\ {} \in SUBSET (Chats \ Listed(details))
  BY <1>0 DEF HistoryInv, FilesCovered, PendingCoversDisk
<1>3. /\ details' \in Contents /\ limit' = max /\ InLimit(details', max)
      /\ unsaved' \subseteq Chats /\ removed' \subseteq Chats
      /\ saving' \in [on : BOOLEAN, remove : SUBSET Chats, write : SUBSET Chats]
      /\ FilesCovered'
  BY <1>0, <1>2, SavingStep
<1> QED BY <1>0, <1>1, <1>3 DEF HistoryInv, HistoryShape, LimitKept

(* persistLocked, file by file, and its failure.                           *)
LEMMA PersistStep ==
  ASSUME HistoryInv,
         (\E c \in Chats : RemoveFile(c) \/ WriteFile(c)) \/ WriteIndex \/ SaveFails
  PROVE  HistoryInv'
<1>0. UNCHANGED <<up, details, limit, listRevision, clock, page, torn>> /\ saving.on
  BY DEF RemoveFile, WriteFile, WriteIndex, SaveFails
<1>1. ASSUME NEW c \in Chats, RemoveFile(c) PROVE HistoryInv'
  <2>1. /\ files' = [files EXCEPT ![c] = NoDetail] /\ c \in saving.remove
        /\ saving' = [saving EXCEPT !.remove = @ \ {c}]
        /\ UNCHANGED <<unsaved, removed, index>>
    BY <1>1 DEF RemoveFile
  <2>2. /\ files' \in Contents
        /\ saving' \in [on : BOOLEAN, remove : SUBSET Chats, write : SUBSET Chats]
        /\ saving'.write = saving.write /\ saving'.remove = saving.remove \ {c}
        /\ saving'.on = saving.on
    BY <2>1, NoDetailsTyped DEF HistoryInv, HistoryShape, Contents
  <2>3. /\ ~files'[c].there /\ \A d \in Chats \ {c} : files'[d] = files[d]
        /\ Listed(details) \subseteq Chats
    BY <2>1 DEF HistoryInv, HistoryShape, Contents, NoDetail, Listed
  <2>4. FilesCovered'
    BY <1>0, <2>1, <2>2, <2>3, ListedFinite DEF HistoryInv, FilesCovered, PendingCoversDisk
  <2> QED BY <1>0, <2>1, <2>2, <2>4 DEF HistoryInv, HistoryShape, LimitKept, RevisionsTell, SameList
<1>2. ASSUME NEW c \in Chats, WriteFile(c) PROVE HistoryInv'
  <2>1. /\ files' = [files EXCEPT ![c] = details[c]] /\ c \in saving.write
        /\ saving' = [saving EXCEPT !.write = @ \ {c}]
        /\ UNCHANGED <<unsaved, removed, index>>
    BY <1>2 DEF WriteFile
  <2>2. /\ files' \in Contents
        /\ saving' \in [on : BOOLEAN, remove : SUBSET Chats, write : SUBSET Chats]
        /\ saving'.write = saving.write \ {c} /\ saving'.remove = saving.remove
        /\ saving'.on = saving.on
    BY <2>1 DEF HistoryInv, HistoryShape, Contents
  <2>3. /\ files'[c] = details[c] /\ \A d \in Chats \ {c} : files'[d] = files[d]
        /\ Listed(details) \subseteq Chats /\ c \in Listed(details)
    BY <2>1 DEF HistoryInv, HistoryShape, FilesCovered, Contents, Listed
  <2>4. FilesCovered'
    BY <1>0, <2>1, <2>2, <2>3, ListedFinite DEF HistoryInv, HistoryShape, FilesCovered, PendingCoversDisk
  <2> QED BY <1>0, <2>1, <2>2, <2>4 DEF HistoryInv, HistoryShape, LimitKept, RevisionsTell, SameList
<1>3. CASE WriteIndex
  <2>1. /\ index' = [there |-> TRUE, list |-> details, limit |-> limit, revision |-> listRevision]
        /\ saving' = Nothing /\ unsaved' = {} /\ removed' = {} /\ files' = files
        /\ saving.write = {}
    BY <1>3 DEF WriteIndex
  <2>2. FilesCovered'
    BY <1>0, <2>1 DEF HistoryInv, FilesCovered, PendingCoversDisk, Nothing
  <2>3. HistoryShape'
    BY <1>0, <2>1 DEF HistoryInv, HistoryShape, Nothing
  <2>4. RevisionsTell'
    BY <1>0, <2>1 DEF HistoryInv, HistoryShape, FilesCovered, RevisionsTell, SameList
  <2> QED BY <1>0, <2>1, <2>2, <2>3, <2>4 DEF HistoryInv, LimitKept
<1>4. CASE SaveFails
  <2>1. saving' = Nothing /\ UNCHANGED <<unsaved, removed, files, index>>
    BY <1>4 DEF SaveFails, PendingKept
  <2> QED BY <1>0, <2>1 DEF HistoryInv, HistoryShape, LimitKept, FilesCovered, PendingCoversDisk,
             RevisionsTell, SameList, Nothing
<1> QED BY <1>1, <1>2, <1>3, <1>4

LEMMA ShowOrCrashStep == ASSUME HistoryInv, ShowList \/ HistoryCrash PROVE HistoryInv'
<1>1. CASE ShowList
  <2>1. /\ page' = [revision |-> listRevision, list |-> details]
        /\ UNCHANGED <<up, details, limit, listRevision, unsaved, removed, saving, files, index,
                       clock, torn>>
        /\ up
    BY <1>1 DEF ShowList, Serving
  <2>2. HistoryShape' /\ LimitKept' /\ FilesCovered'
    BY <2>1 DEF HistoryInv, HistoryShape, LimitKept, FilesCovered, PendingCoversDisk
  <2>3. RevisionsTell'
    BY <2>1 DEF HistoryInv, HistoryShape, RevisionsTell, SameList
  <2> QED BY <2>2, <2>3 DEF HistoryInv
<1>2. CASE HistoryCrash
  <2>1. /\ ~up' /\ up' = FALSE /\ details' = NoDetails /\ limit' = DefaultLimit /\ listRevision' = 0
        /\ unsaved' = {} /\ removed' = {} /\ saving' = Nothing
        /\ UNCHANGED <<files, index, clock, page, torn>>
    BY <1>2 DEF HistoryCrash
  <2>2. HistoryShape'
    BY <2>1, NoDetailsTyped, HistoryAssumption DEF HistoryInv, HistoryShape, Nothing
  <2>3. LimitKept'
    BY <2>1, NoDetailsTyped DEF HistoryInv, LimitKept, InLimit, Kept
  <2>4. FilesCovered' /\ RevisionsTell'
    BY <2>1 DEF HistoryInv, HistoryShape, FilesCovered, PendingCoversDisk, RevisionsTell, SameList, Nothing
  <2> QED BY <2>2, <2>3, <2>4 DEF HistoryInv
<1> QED BY <1>1, <1>2

(* A start: the details that can be read, interrupted where they stream.   *)
LEMMA LoadHistoryStep ==
  ASSUME HistoryInv, NEW unreadable \in SUBSET Chats, LoadHistory(unreadable) PROVE HistoryInv'
<1> DEFINE readable == (Listed(index.list) \cap Listed(files)) \ unreadable
           list == [c \in Chats |-> IF c \in readable THEN files[c] ELSE NoDetail]
<1>0. /\ ~up /\ up' /\ up' = TRUE /\ UNCHANGED <<files, index, page>>
      /\ unreadable \subseteq Listed(index.list) \cap Listed(files)
      /\ unsaved = {} /\ removed = {}
      /\ files \in Contents /\ index.list \in Contents /\ index.limit \in Nat /\ index.revision \in Nat
      /\ page.revision \in Nat /\ clock \in Nat
  BY DEF LoadHistory, HistoryInv, HistoryShape, FilesCovered
<1>1. CASE index.there
  <2>1. Interrupted(list, unreadable)
    BY <1>1 DEF LoadHistory
  <2>2. /\ list \in Contents /\ Listed(list) = readable
        /\ \A c \in readable : list[c] = files[c]
    BY <1>0, NoDetailsTyped DEF Contents, Listed, NoDetail
  <2>3. readable \cap unreadable = {} /\ readable \subseteq Chats
        /\ \A c \in Listed(index.list) \ readable : c \in unreadable \/ ~files[c].there
    BY <1>0 DEF Listed
  <2> HIDE DEF list, readable
  <2> DEFINE streaming == {c \in Listed(list) : list[c].streaming}
             count == Cardinality(streaming)
  <2>4. IsFiniteSet(streaming) /\ count \in Nat /\ (count = 0 <=> streaming = {})
        /\ streaming \subseteq Listed(list)
    BY ListedFinite, FS_Subset, FS_CardinalityType, FS_EmptySet
  <2>5. PICK number \in [streaming -> (clock + 1)..(clock + count)] :
          SaveHistory([c \in Chats |-> IF c \in streaming
                                       THEN [list[c] EXCEPT !.streaming = FALSE,
                                                            !.revision = number[c]]
                                       ELSE list[c]],
                      index.limit, streaming, unreadable)
    BY <2>1 DEF Interrupted
  <2>6. /\ clock' = clock + count
        /\ listRevision' = IF count = 0 THEN index.revision ELSE clock'
        /\ torn' = IF count = 0 /\ list # index.list THEN torn \cup {index.revision} ELSE torn
    BY <2>1 DEF Interrupted
  <2> HIDE DEF count
  <2> DEFINE settled == [c \in Chats |-> IF c \in streaming
                                         THEN [list[c] EXCEPT !.streaming = FALSE,
                                                              !.revision = number[c]]
                                         ELSE list[c]]
  <2>7. \A c \in streaming : [list[c] EXCEPT !.streaming = FALSE, !.revision = number[c]] \in Detail
    <3> SUFFICES ASSUME NEW c \in streaming
                 PROVE  [list[c] EXCEPT !.streaming = FALSE, !.revision = number[c]] \in Detail
      OBVIOUS
    <3>1. list[c] \in Detail
      BY <2>2, <2>4 DEF Contents, Listed, NoDetail
    <3>2. number[c] \in Nat
      BY <1>0, <2>4
    <3> QED BY <3>1, <3>2 DEF Detail
  <2>8. \A c \in streaming : [list[c] EXCEPT !.streaming = FALSE, !.revision = number[c]].there
    BY <2>7 DEF Detail
  <2>9. /\ settled \in Contents /\ Listed(settled) = Listed(list)
        /\ \A c \in Listed(list) \ streaming : settled[c] = list[c]
        /\ streaming = {} => settled = list
    BY <2>2, <2>4, <2>7, <2>8 DEF Contents, Listed
  <2> HIDE DEF streaming, settled
  <2>10. /\ streaming \in SUBSET Listed(settled)
         /\ unreadable \in SUBSET (Chats \ Listed(settled))
         /\ unsaved \subseteq Listed(settled) \cup unreadable
         /\ removed \cap Listed(settled) \subseteq streaming
         /\ \A c \in Listed(settled) \ (unsaved \cup streaming) : files[c] = settled[c]
         /\ \A c \in Listed(index.list) \ Listed(settled) :
              c \in unreadable \cup removed \/ ~files[c].there
    BY <1>0, <2>2, <2>3, <2>4, <2>9
  <2>11. SaveHistory(settled, index.limit, streaming, unreadable)
    BY <2>5 DEF settled
  <2>12. /\ details' = [c \in Chats |-> IF c \in Kept(settled, index.limit)
                                        THEN settled[c] ELSE NoDetail]
         /\ details' \in Contents /\ limit' = index.limit /\ InLimit(details', index.limit)
         /\ unsaved' \subseteq Chats /\ removed' \subseteq Chats
         /\ saving' \in [on : BOOLEAN, remove : SUBSET Chats, write : SUBSET Chats]
         /\ FilesCovered'
    BY <1>0, <2>9, <2>10, <2>11, SavingStep
  <2>13. HistoryShape' /\ LimitKept'
    BY <1>0, <2>4, <2>6, <2>12 DEF HistoryInv, HistoryShape, LimitKept
  <2>14. RevisionsTell'
    <3>1. CASE streaming = {} /\ list = index.list
      <4>1. details' = index.list
        <5>1. Kept(settled, index.limit) = Listed(index.list) /\ settled = index.list
          BY <2>9, <3>1 DEF HistoryInv, LimitKept, InLimit
        <5>2. \A c \in Chats \ Listed(index.list) : index.list[c] = NoDetail
          BY <1>0 DEF Contents, Listed, Detail
        <5>3. details' = [c \in Chats |-> IF c \in Listed(index.list) THEN index.list[c] ELSE NoDetail]
          BY <2>12, <5>1
        <5> QED BY <1>0, <5>2, <5>3 DEF Contents
      <4> QED BY <1>0, <2>4, <2>6, <3>1, <4>1 DEF HistoryInv, RevisionsTell, SameList
    <3>2. CASE streaming = {} /\ list # index.list
      BY <1>0, <2>4, <2>6, <3>2 DEF HistoryInv, RevisionsTell, SameList
    <3>3. CASE streaming # {}
      BY <1>0, <2>4, <2>6, <3>3 DEF HistoryInv, RevisionsTell, SameList
    <3> QED BY <3>1, <3>2, <3>3
  <2> QED BY <2>12, <2>13, <2>14 DEF HistoryInv
<1>2. CASE ~index.there
  <2>1. SaveHistory(NoDetails, DefaultLimit, {}, {}) /\ listRevision' = 0 /\ UNCHANGED <<clock, torn>>
    BY <1>2 DEF LoadHistory
  <2>2. index.list = NoDetails /\ DefaultLimit \in Nat
    BY <1>2, HistoryAssumption DEF HistoryInv, FilesCovered, NoIndex
  <2>3. /\ {} \in SUBSET Listed(NoDetails) /\ {} \in SUBSET (Chats \ Listed(NoDetails))
        /\ unsaved \subseteq Listed(NoDetails) \cup {}
        /\ removed \cap Listed(NoDetails) \subseteq {}
        /\ \A c \in Listed(NoDetails) \ (unsaved \cup {}) : files[c] = NoDetails[c]
        /\ \A c \in Listed(index.list) \ Listed(NoDetails) : c \in {} \cup removed \/ ~files[c].there
    BY <1>0, <2>2, NoDetailsTyped
  <2>4. /\ details' \in Contents /\ limit' = DefaultLimit /\ InLimit(details', DefaultLimit)
        /\ unsaved' \subseteq Chats /\ removed' \subseteq Chats
        /\ saving' \in [on : BOOLEAN, remove : SUBSET Chats, write : SUBSET Chats]
        /\ FilesCovered'
    BY <1>0, <2>1, <2>2, <2>3, NoDetailsTyped, SavingStep
  <2>5. RevisionsTell'
    BY <1>0, <2>1 DEF HistoryInv, RevisionsTell, SameList
  <2> QED BY <1>0, <2>1, <2>2, <2>4, <2>5 DEF HistoryInv, HistoryShape, LimitKept
<1> QED BY <1>1, <1>2

LEMMA HistoryStep == ASSUME HistoryInv, [HistoryNext]_historyVars PROVE HistoryInv'
<1>1. ASSUME NEW c \in Chats, StartChat(c) \/ (\E ended \in BOOLEAN : UpdateChat(c, ended))
      PROVE  HistoryInv'
  BY <1>1, StartChatStep, UpdateChatStep
<1>2. CASE ClearChats \/ \E c \in Chats : DeleteChat(c)
  <2>1. PICK leaving \in SUBSET Listed(details) : DeleteChats(leaving)
    BY <1>2 DEF ClearChats, DeleteChat
  <2> QED BY <2>1, DeleteChatsStep
<1>3. CASE \E max \in Limits : SetLimit(max)
  BY <1>3, SetLimitStep
<1>4. CASE (\E c \in Chats : RemoveFile(c) \/ WriteFile(c)) \/ WriteIndex \/ SaveFails
  BY <1>4, PersistStep
<1>5. CASE ShowList \/ HistoryCrash \/ \E unreadable \in SUBSET Chats : LoadHistory(unreadable)
  BY <1>5, ShowOrCrashStep, LoadHistoryStep
<1>6. CASE UNCHANGED historyVars
  BY <1>6 DEF historyVars, HistoryInv, HistoryShape, LimitKept, FilesCovered, PendingCoversDisk,
     RevisionsTell, SameList
<1> QED BY <1>1, <1>2, <1>3, <1>4, <1>5, <1>6 DEF HistoryNext

(* The disk lags behind the memory only where the next save will write or  *)
(* remove, and an ETag that matches tells the list, for any conversations, *)
(* limits, failed saves, unreadable files and crashes.                     *)
THEOREM HistoryShownAndSavedHolds == HistorySpec => []HistoryShownAndSaved
<1>1. HistoryInv => HistoryShownAndSaved
  BY DEF HistoryInv, FilesCovered, RevisionsTell, SameList, HistoryShownAndSaved, ETagTellsLists,
     Serving
<1> QED BY HistoryInitInv, HistoryStep, <1>1, PTL DEF HistorySpec

(***************************************************************************)
(* What HistoryInv leaves open of the types: the bounds.                   *)
(***************************************************************************)
HistoryBounded ==
  /\ limit \in Limits /\ (index.there => index.limit \in Limits)
  /\ clock <= MaxRevision /\ torn \subseteq 0..MaxRevision /\ running \subseteq Chats

LEMMA HistoryBoundedInit == HistoryInit => HistoryBounded
BY HistoryAssumption DEF HistoryInit, HistoryBounded, NoIndex

LEMMA HistoryBoundedStep ==
  ASSUME HistoryInv, HistoryBounded, [HistoryNext]_historyVars PROVE HistoryBounded'
<1> USE DEF HistoryBounded
<1>1. clock \in Nat /\ clock <= MaxRevision /\ MaxRevision \in Nat /\ index.revision \in Nat
      /\ index.revision <= clock
  BY HistoryAssumption DEF HistoryInv, HistoryShape, RevisionsTell
<1>2. NextRevision => clock' <= MaxRevision /\ torn' = torn
  BY <1>1 DEF NextRevision
<1>3. CASE \E c \in Chats : StartChat(c) \/ \E ended \in BOOLEAN : UpdateChat(c, ended)
  <2>1. ASSUME NEW c \in Chats, StartChat(c) PROVE HistoryBounded'
    <3>1. PICK list : SaveHistory(list, limit, {c}, {})
      BY <2>1 DEF StartChat
    <3>2. limit' = limit
      BY <3>1 DEF SaveHistory
    <3>3. NextRevision /\ index' = index /\ running' = running \cup {c}
      BY <2>1 DEF StartChat
    <3> QED BY <1>2, <3>2, <3>3
  <2>2. ASSUME NEW c \in Chats, NEW ended \in BOOLEAN, UpdateChat(c, ended) PROVE HistoryBounded'
    <3>1. index' = index /\ running' \subseteq running
      BY <2>2 DEF UpdateChat
    <3>2. CASE c \in Listed(details)
      <4>1. NextRevision /\ \E list : SaveHistory(list, limit, {c}, {})
        BY <2>2, <3>2 DEF UpdateChat
      <4>2. limit' = limit
        BY <4>1 DEF SaveHistory
      <4> QED BY <1>2, <3>1, <4>1, <4>2
    <3>3. CASE c \notin Listed(details)
      BY <2>2, <3>1, <3>3 DEF UpdateChat
    <3> QED BY <3>2, <3>3
  <2> QED BY <1>3, <2>1, <2>2
<1>4. CASE ClearChats \/ \E c \in Chats : DeleteChat(c)
  <2>1. PICK leaving : DeleteChats(leaving)
    BY <1>4 DEF ClearChats, DeleteChat
  <2>2. UNCHANGED <<limit, index, running>> /\ NextRevision
    BY <2>1 DEF DeleteChats, SaveHistory
  <2> QED BY <1>2, <2>2
<1>5. CASE \E max \in Limits : SetLimit(max)
  BY <1>2, <1>5 DEF SetLimit, SaveHistory
<1>6. CASE (\E c \in Chats : RemoveFile(c) \/ WriteFile(c)) \/ WriteIndex \/ SaveFails \/ ShowList
  BY <1>6 DEF RemoveFile, WriteFile, WriteIndex, SaveFails, ShowList
<1>7. CASE HistoryCrash
  BY <1>7, HistoryAssumption DEF HistoryCrash
<1>8. ASSUME NEW unreadable \in SUBSET Chats, LoadHistory(unreadable) PROVE HistoryBounded'
  <2>1. index' = index /\ running' = running
    BY <1>8 DEF LoadHistory
  <2>2. CASE ~index.there
    BY <1>8, <2>1, <2>2, HistoryAssumption DEF LoadHistory, SaveHistory
  <2>3. CASE index.there
    <3>1. PICK list : Interrupted(list, unreadable)
      BY <1>8, <2>3 DEF LoadHistory
    <3>2. limit' = index.limit /\ clock' <= MaxRevision /\ torn' \subseteq torn \cup {index.revision}
      BY <3>1 DEF Interrupted, SaveHistory
    <3> QED BY <1>1, <2>1, <2>3, <3>2
  <2> QED BY <2>2, <2>3
<1>9. CASE UNCHANGED historyVars
  BY <1>9 DEF historyVars
<1> QED BY <1>3, <1>4, <1>5, <1>6, <1>7, <1>8, <1>9 DEF HistoryNext

LEMMA HistoryTypes == HistoryInv /\ HistoryBounded => HistoryTypeOK
<1> SUFFICES ASSUME HistoryInv, HistoryBounded PROVE HistoryTypeOK
  OBVIOUS
<1>1. /\ listRevision \in Nat /\ clock \in Nat /\ clock <= MaxRevision /\ listRevision <= clock
      /\ MaxRevision \in Nat
  BY HistoryAssumption DEF HistoryInv, HistoryShape, RevisionsTell, HistoryBounded
<1> QED BY <1>1 DEF HistoryInv, HistoryShape, HistoryBounded, HistoryTypeOK, Contents

-----------------------------------------------------------------------------
(***************************************************************************)
(* THE PROXY BINDINGS                                                      *)
(***************************************************************************)

(* A port is one node's, from base_port upwards, and the one its proxy     *)
(* names.                                                                  *)
PortsFit(c) ==
  \A n \in Nodes : c.ports[n] # 0 =>
    /\ c.base <= c.ports[n] /\ c.proxies[n] = c.ports[n]
    /\ \A m \in Nodes \ {n} : c.ports[m] # c.ports[n]
(* Nodes come with the subscription.                                       *)
SubFits(c) == c.sub = "none" => c.nodes = {}
(* A port is an existing node's, and whoever is bound has a proxy.         *)
NodesFit(c) == \A n \in Nodes : c.ports[n] # 0 => n \in c.nodes
BoundFit(c) == \A a \in ProxyAccounts : c.binding[a] \in Nodes => c.proxies[c.binding[a]] # 0
Fits(c) ==
  c \in Configurations /\ PortsFit(c) /\ SubFits(c) /\ NodesFit(c) /\ BoundFit(c)

ReconcileFits == reconcile = NoReconcile \/ reconcile \in Reconciles

ProxyInv == Fits(mihomo) /\ Valid(mihomo) /\ ReconcileFits /\ events \in Nat

LEMMA PortsTyped ==
  ASSUME NEW c \in Configurations
  PROVE  c.base \in Nat \ {0} /\ \A p \in Ports(c) : p \in Nat \ {0} /\ c.base <= p
<1>1. c.base \in Nat \ {0}
  BY ProxyAssumption DEF Configurations
<1>2. Cardinality(Nodes) \in Nat
  BY ProxyAssumption, FS_CardinalityType
<1> QED BY <1>1, <1>2 DEF Ports

(* The bindings a clean-up leaves are those to a proxy that exists, and    *)
(* the ports those of proxies in use.                                      *)
LEMMA GcFits ==
  ASSUME NEW c \in Configurations, PortsFit(c), SubFits(c)
  PROVE  /\ Fits(Gc(c))
         /\ \A a \in c.manual : (c.binding[a] \in Nodes => c.proxies[c.binding[a]] # 0)
              => a \in Gc(c).manual /\ Gc(c).binding[a] = c.binding[a]
<1> DEFINE proxies == [n \in Nodes |-> IF Users(c, n) = {} THEN 0 ELSE c.proxies[n]]
           dangling == {a \in ProxyAccounts : c.binding[a] \in {n \in Nodes : proxies[n] = 0}}
           binding == [a \in ProxyAccounts |-> IF a \in dangling THEN "unbound" ELSE c.binding[a]]
           ports == [n \in Nodes |-> IF n \in c.nodes /\ proxies[n] # 0 THEN c.ports[n] ELSE 0]
           manual == c.manual \ dangling
<1>1. Gc(c) = [c EXCEPT !.proxies = proxies, !.binding = binding, !.manual = manual, !.ports = ports]
  BY DEF Gc
<1>2. proxies \in [Nodes -> Nat] /\ ports \in [Nodes -> Nat]
  BY DEF Configurations
<1>3. binding \in [ProxyAccounts -> Bindings] /\ manual \subseteq ProxyAccounts
  BY DEF Configurations, Bindings
<1>4. \A n \in Nodes : /\ ports[n] # 0 => n \in c.nodes /\ ports[n] = c.ports[n] /\ proxies[n] = c.proxies[n]
                       /\ ports[n] = 0 \/ ports[n] = c.ports[n]
  OBVIOUS
<1>5. \A a \in ProxyAccounts : binding[a] \in Nodes => binding[a] = c.binding[a] /\ proxies[c.binding[a]] # 0
  BY ProxyAssumption DEF Configurations
<1>6. ASSUME NEW a \in c.manual, c.binding[a] \in Nodes => c.proxies[c.binding[a]] # 0
      PROVE  a \in manual /\ binding[a] = c.binding[a]
  <2>1. a \in ProxyAccounts
    BY DEF Configurations
  <2>2. c.binding[a] \in Nodes => proxies[c.binding[a]] # 0
    BY <1>6, <2>1 DEF Users
  <2>3. a \notin dangling
    BY <2>2
  <2> QED BY <2>1, <2>3
<1> HIDE DEF proxies, dangling, binding, ports, manual
<1>7. /\ Gc(c) \in Configurations /\ Gc(c).ports = ports /\ Gc(c).proxies = proxies
      /\ Gc(c).binding = binding /\ Gc(c).manual = manual /\ Gc(c).nodes = c.nodes
      /\ Gc(c).sub = c.sub /\ Gc(c).base = c.base
  <2>1. Gc(c) \in Configurations
    BY <1>1, <1>2, <1>3 DEF Configurations
  <2>2. /\ Gc(c).ports = ports /\ Gc(c).proxies = proxies
        /\ Gc(c).binding = binding /\ Gc(c).manual = manual
    BY <1>1 DEF Configurations
  <2>3. Gc(c).nodes = c.nodes /\ Gc(c).sub = c.sub /\ Gc(c).base = c.base
    BY <1>1 DEF Configurations
  <2> QED BY <2>1, <2>2, <2>3
<1>8. PortsFit(Gc(c))
  BY <1>4, <1>7 DEF PortsFit
<1>9. NodesFit(Gc(c)) /\ BoundFit(Gc(c))
  BY <1>4, <1>5, <1>7 DEF NodesFit, BoundFit
<1> QED BY <1>6, <1>7, <1>8, <1>9 DEF Fits, SubFits

(* A binding takes a port that is free, another for every node.            *)
LEMMA AssignmentFits ==
  ASSUME NEW c \in Configurations, PortsFit(c), NEW f, DOMAIN f \subseteq ProxyAccounts,
         \A a \in DOMAIN f : f[a] \in Nodes, NEW d \in Assignments(c, f)
  PROVE  /\ d \in Configurations /\ PortsFit(d)
         /\ d.nodes = c.nodes /\ d.manual = c.manual /\ d.sub = c.sub /\ d.base = c.base
         /\ \A a \in ProxyAccounts \ DOMAIN f : d.binding[a] = c.binding[a]
         /\ \A n \in Nodes : c.proxies[n] # 0 => d.proxies[n] # 0
<1> DEFINE used == {f[a] : a \in DOMAIN f}
           new == {n \in used : c.ports[n] = 0}
           low == Lowest(FreePorts(c), Cardinality(new))
           port(g) == [n \in Nodes |-> IF n \in new THEN g[n] ELSE c.ports[n]]
<1>1. PICK g \in Injection(new, low) :
        d = [c EXCEPT !.ports = port(g),
                      !.proxies = [n \in Nodes |-> IF n \in used THEN port(g)[n] ELSE c.proxies[n]],
                      !.binding = [a \in ProxyAccounts |-> IF a \in DOMAIN f THEN f[a]
                                                           ELSE c.binding[a]]]
  BY DEF Assignments
<1>2. low \subseteq FreePorts(c) /\ used \subseteq Nodes
  BY DEF Lowest
<1>3. \A p \in FreePorts(c) : p \in Nat \ {0} /\ c.base <= p /\ \A n \in Nodes : c.ports[n] # p
  BY PortsTyped DEF FreePorts, PortSet
<1>4. g \in [new -> low] /\ \A m, n \in new : g[m] = g[n] => m = n
  BY <1>1 DEF Injection, IsInjective
<1> DEFINE ports == port(g)
           proxies == [n \in Nodes |-> IF n \in used THEN port(g)[n] ELSE c.proxies[n]]
           binding == [a \in ProxyAccounts |-> IF a \in DOMAIN f THEN f[a] ELSE c.binding[a]]
<1>5. c.ports \in [Nodes -> Nat] /\ c.proxies \in [Nodes -> Nat]
      /\ c.binding \in [ProxyAccounts -> Bindings]
  BY DEF Configurations
<1> HIDE DEF low
<1>6. /\ \A n \in new : ports[n] \in Nat \ {0} /\ c.base <= ports[n]
                        /\ \A m \in Nodes : c.ports[m] # ports[n]
      /\ \A m, n \in new : ports[m] = ports[n] => m = n
      /\ \A n \in Nodes \ new : ports[n] = c.ports[n]
  BY <1>2, <1>3, <1>4
<1>7. \A n \in used \ new : c.ports[n] # 0
  OBVIOUS
<1>8. \A n \in Nodes : proxies[n] = IF n \in used THEN ports[n] ELSE c.proxies[n]
  OBVIOUS
<1>9. ports \in [Nodes -> Nat] /\ proxies \in [Nodes -> Nat]
      /\ binding \in [ProxyAccounts -> Bindings]
  <2>1. \A n \in Nodes : ports[n] \in Nat
    BY <1>5, <1>6
  <2> HIDE DEF used, new
  <2>2. proxies \in [Nodes -> Nat]
    BY <1>5, <2>1
  <2>3. binding \in [ProxyAccounts -> Bindings]
    BY <1>5 DEF Bindings
  <2> QED BY <2>1, <2>2, <2>3
<1>10. \A a \in ProxyAccounts \ DOMAIN f : binding[a] = c.binding[a]
  OBVIOUS
<1>11. new \subseteq used
  OBVIOUS
<1>12. d = [c EXCEPT !.ports = ports, !.proxies = proxies, !.binding = binding]
  BY <1>1
<1> HIDE DEF used, new, ports, proxies, binding
<1>13. /\ d \in Configurations /\ d.ports = ports /\ d.proxies = proxies /\ d.binding = binding
       /\ d.nodes = c.nodes /\ d.manual = c.manual /\ d.sub = c.sub /\ d.base = c.base
  BY <1>9, <1>12 DEF Configurations
<1>14. PortsFit(d)
  BY <1>2, <1>6, <1>8, <1>11, <1>13 DEF PortsFit
<1>15. \A n \in Nodes : c.proxies[n] # 0 => proxies[n] # 0
  BY <1>6, <1>7, <1>8
<1> QED BY <1>10, <1>13, <1>14, <1>15

LEMMA ProxyInitInv == ProxyInit => ProxyInv
<1> SUFFICES ASSUME ProxyInit PROVE ProxyInv
  OBVIOUS
<1>0. NoPorts \in [Nodes -> Nat] /\ "unbound" \notin Nodes
  BY ProxyAssumption DEF NoPorts
<1>1. CASE mihomo = FirstStart("none")
  <2>1. Fits(mihomo)
    BY <1>0, <1>1, ProxyAssumption
       DEF FirstStart, Fits, Configurations, Bindings, PortsFit, NodesFit, BoundFit, SubFits, NoPorts
  <2>2. Valid(mihomo)
    BY <1>1, ProxyAssumption DEF FirstStart, Valid, PortSet, NoPorts
  <2> QED BY <2>1, <2>2 DEF ProxyInit, ProxyInv, ReconcileFits
<1>2. ASSUME NEW a \in ProxyAccounts, NEW n \in Nodes, NEW p \in FreePorts(FirstStart("there")),
             mihomo = SavedStart(a, n, p)
      PROVE  ProxyInv
  <2>1. p \in Nat \ {0} /\ BasePort <= p /\ p # APIPort
    BY ProxyAssumption, FS_CardinalityType DEF FreePorts, Ports, FirstStart
  <2> DEFINE one == [NoPorts EXCEPT ![n] = p]
             binding == [FirstStart("there").binding EXCEPT ![a] = n]
  <2>2. /\ one \in [Nodes -> Nat] /\ one[n] = p
        /\ \A m \in Nodes \ {n} : one[m] = 0
    BY <2>1, <1>0 DEF NoPorts
  <2>3. binding \in [ProxyAccounts -> Bindings] /\ \A b \in ProxyAccounts : binding[b] \in Nodes => binding[b] = n
    BY <1>0 DEF FirstStart, Bindings
  <2>4. mihomo = [FirstStart("there") EXCEPT !.binding = binding, !.manual = {a},
                    !.off = [@ EXCEPT ![a] = "asleep"], !.ports = one, !.proxies = one]
    BY <1>2 DEF SavedStart, FirstStart
  <2> HIDE DEF one, binding
  <2>5. /\ mihomo \in Configurations /\ mihomo.ports = one /\ mihomo.proxies = one
        /\ mihomo.binding = binding /\ mihomo.nodes = Nodes
        /\ mihomo.sub = "there" /\ mihomo.base = BasePort /\ mihomo.api = APIPort
    BY <2>2, <2>3, <2>4, ProxyAssumption DEF FirstStart, Configurations
  <2>6. Valid(mihomo)
    BY <2>1, <2>2, <2>5, ProxyAssumption DEF Valid, PortSet
  <2> QED BY <2>1, <2>2, <2>3, <2>5, <2>6
          DEF Fits, PortsFit, SubFits, NodesFit, BoundFit, ProxyInit, ProxyInv, ReconcileFits
<1> QED BY <1>1, <1>2 DEF ProxyInit

(* What leaves ports, proxies and nodes alone keeps the agreement, if it   *)
(* binds to nothing but proxies that exist.                                *)
LEMMA SameFits ==
  ASSUME Fits(mihomo), NEW c \in Configurations,
         c.ports = mihomo.ports, c.proxies = mihomo.proxies, c.nodes = mihomo.nodes,
         c.sub = mihomo.sub, c.base = mihomo.base,
         \A a \in ProxyAccounts : c.binding[a] \in Nodes =>
            c.binding[a] = mihomo.binding[a] \/ mihomo.proxies[c.binding[a]] # 0
  PROVE  Fits(c)
BY DEF Fits, PortsFit, SubFits, NodesFit, BoundFit

LEMMA BindAccountStep ==
  ASSUME Fits(mihomo), NEW a \in ProxyAccounts, NEW n \in Nodes, BindAccount(a, n)
  PROVE  Fits(mihomo')
<1>0. mihomo \in Configurations /\ PortsFit(mihomo) /\ SubFits(mihomo)
  BY DEF Fits
<1> DEFINE f == [x \in {a} |-> n]
<1>1. PICK c \in Assignments(mihomo, f) : Saved(Gc([c EXCEPT !.manual = @ \cup {a}, !.cooling = @ \ {a}]))
  BY DEF BindAccount
<1>2. DOMAIN f \subseteq ProxyAccounts /\ \A b \in DOMAIN f : f[b] \in Nodes
  OBVIOUS
<1> HIDE DEF f
<1>3. c \in Configurations /\ PortsFit(c) /\ SubFits(c)
  BY <1>0, <1>1, <1>2, AssignmentFits DEF SubFits
<1> DEFINE d == [c EXCEPT !.manual = @ \cup {a}, !.cooling = @ \ {a}]
<1>4. d \in Configurations /\ d.ports = c.ports /\ d.proxies = c.proxies
  /\ d.sub = c.sub /\ d.base = c.base /\ d.nodes = c.nodes
  BY <1>3 DEF Configurations
<1>5. mihomo' = Gc(d)
  BY <1>1 DEF Saved
<1> HIDE DEF d
<1> QED BY <1>3, <1>4, <1>5, GcFits DEF PortsFit, SubFits

LEMMA UnbindAccountStep ==
  ASSUME Fits(mihomo), NEW a \in ProxyAccounts, UnbindAccount(a) PROVE Fits(mihomo')
<1>0. mihomo \in Configurations /\ PortsFit(mihomo) /\ SubFits(mihomo)
  BY DEF Fits
<1> DEFINE d == [mihomo EXCEPT !.binding[a] = "direct", !.manual = @ \ {a}, !.cooling = @ \ {a}]
<1>1. /\ d \in Configurations /\ d.ports = mihomo.ports /\ d.proxies = mihomo.proxies
      /\ d.sub = mihomo.sub /\ d.base = mihomo.base /\ d.nodes = mihomo.nodes
  BY <1>0 DEF Configurations, Bindings
<1>2. mihomo' = Gc(d)
  BY DEF UnbindAccount, Saved
<1> HIDE DEF d
<1> QED BY <1>0, <1>1, <1>2, GcFits DEF PortsFit, SubFits

LEMMA AssignAccountsStep == ASSUME Fits(mihomo), AssignAccounts PROVE Fits(mihomo')
<1> DEFINE binding == [a \in ProxyAccounts |->
                         IF a \notin mihomo.manual /\ mihomo.binding[a] \in Nodes
                         THEN "unbound" ELSE mihomo.binding[a]]
           freed == [mihomo EXCEPT !.binding = binding]
           moved == {a \in ProxyAccounts \ mihomo.manual :
                       mihomo.off[a] # "asleep" /\ mihomo.binding[a] # "direct"}
<1>1. PICK list \in SUBSET Candidates(mihomo) \ {{}} :
        \E f \in {g \in [moved -> list] : Dealt(g, list)} :
          \E c \in Assignments(Gc(freed), f) : Saved(Gc([c EXCEPT !.cooling = @ \ moved]))
  BY DEF AssignAccounts
<1>2. PICK f \in [moved -> list] :
        \E c \in Assignments(Gc(freed), f) : Saved(Gc([c EXCEPT !.cooling = @ \ moved]))
  BY <1>1
<1>3. PICK c \in Assignments(Gc(freed), f) : Saved(Gc([c EXCEPT !.cooling = @ \ moved]))
  BY <1>2
<1>4. mihomo \in Configurations /\ PortsFit(mihomo) /\ SubFits(mihomo)
  BY DEF Fits
<1>5. /\ freed \in Configurations /\ freed.ports = mihomo.ports /\ freed.proxies = mihomo.proxies
      /\ freed.sub = mihomo.sub /\ freed.base = mihomo.base /\ freed.nodes = mihomo.nodes
  <2>1. binding \in [ProxyAccounts -> Bindings]
    BY <1>4 DEF Configurations, Bindings
  <2> HIDE DEF binding
  <2> QED BY <1>4, <2>1 DEF Configurations
<1>6. moved \subseteq ProxyAccounts /\ list \subseteq Nodes
  BY <1>4 DEF Configurations, Candidates
<1> HIDE DEF freed, moved
<1>7. Gc(freed) \in Configurations /\ PortsFit(Gc(freed)) /\ SubFits(Gc(freed))
  BY <1>4, <1>5, GcFits DEF PortsFit, SubFits, Fits
<1>8. DOMAIN f \subseteq ProxyAccounts /\ \A a \in DOMAIN f : f[a] \in Nodes
  BY <1>6
<1>9. c \in Configurations /\ PortsFit(c) /\ SubFits(c)
  BY <1>3, <1>7, <1>8, AssignmentFits DEF SubFits
<1> DEFINE d == [c EXCEPT !.cooling = @ \ moved]
<1>10. d \in Configurations /\ d.ports = c.ports /\ d.proxies = c.proxies
    /\ d.sub = c.sub /\ d.base = c.base /\ d.nodes = c.nodes
  BY <1>9 DEF Configurations
<1>11. mihomo' = Gc(d)
  BY <1>3 DEF Saved
<1> HIDE DEF d
<1> QED BY <1>9, <1>10, <1>11, GcFits DEF PortsFit, SubFits

LEMMA SubscriptionStep ==
  ASSUME Fits(mihomo), NEW nodes \in SUBSET Nodes,
         AddSubscription(nodes) \/ RefreshSubscription(nodes) \/ DeleteSubscription
  PROVE  Fits(mihomo')
<1>0. mihomo \in Configurations /\ PortsFit(mihomo) /\ SubFits(mihomo)
  BY DEF Fits
<1>1. CASE AddSubscription(nodes)
  <2>1. mihomo' = [mihomo EXCEPT !.sub = "there", !.nodes = nodes, !.failed = {}]
    BY <1>1 DEF AddSubscription, Saved
  <2>2. \A n \in Nodes : mihomo.ports[n] = 0
    BY <1>1 DEF AddSubscription, Fits, SubFits, NodesFit
  <2>3. /\ mihomo' \in Configurations /\ mihomo'.ports = mihomo.ports
        /\ mihomo'.proxies = mihomo.proxies /\ mihomo'.binding = mihomo.binding
        /\ mihomo'.sub = "there" /\ mihomo'.base = mihomo.base
    BY <1>0, <2>1 DEF Configurations
  <2> QED BY <2>2, <2>3 DEF Fits, PortsFit, SubFits, NodesFit, BoundFit
<1>2. CASE RefreshSubscription(nodes)
  <2> DEFINE d == [mihomo EXCEPT !.nodes = nodes, !.failed = {}]
  <2>1. /\ d \in Configurations /\ d.ports = mihomo.ports /\ d.proxies = mihomo.proxies
        /\ d.sub = "there" /\ d.base = mihomo.base
    BY <1>0, <1>2 DEF Configurations, RefreshSubscription
  <2>2. mihomo' = Gc(d)
    BY <1>2 DEF RefreshSubscription, Saved
  <2> HIDE DEF d
  <2> QED BY <1>0, <2>1, <2>2, GcFits DEF PortsFit, SubFits
<1>3. CASE DeleteSubscription
  <2> DEFINE freed == {a \in ProxyAccounts : \E n \in Nodes :
                         mihomo.ports[n] # 0 /\ mihomo.binding[a] = n}
             binding == [a \in ProxyAccounts |-> IF a \in freed THEN "unbound" ELSE mihomo.binding[a]]
             d == [mihomo EXCEPT !.sub = "deleted", !.nodes = {}, !.failed = {},
                                 !.binding = binding, !.manual = @ \ freed]
  <2>1. mihomo' = Gc(d)
    BY <1>3 DEF DeleteSubscription, Saved
  <2>2. binding \in [ProxyAccounts -> Bindings]
    BY <1>0 DEF Configurations, Bindings
  <2> HIDE DEF freed, binding
  <2>3. /\ d \in Configurations /\ d.ports = mihomo.ports /\ d.proxies = mihomo.proxies
        /\ d.sub = "deleted" /\ d.base = mihomo.base
    BY <1>0, <2>2 DEF Configurations
  <2> HIDE DEF d
  <2> QED BY <1>0, <2>1, <2>3, GcFits DEF PortsFit, SubFits
<1> QED BY <1>1, <1>2, <1>3

LEMMA UpdateSettingsStep ==
  ASSUME Fits(mihomo), NEW enabled \in BOOLEAN, NEW auto \in BOOLEAN,
         NEW base \in BasePorts, NEW api \in APIPorts, UpdateSettings(enabled, auto, base, api)
  PROVE  Fits(mihomo')
<1>0. mihomo \in Configurations /\ PortsFit(mihomo) /\ SubFits(mihomo)
  BY DEF Fits
<1> DEFINE set == [mihomo EXCEPT !.enabled = enabled, !.auto = auto, !.base = base, !.api = api]
<1>1. /\ set \in Configurations /\ set.ports = mihomo.ports /\ set.proxies = mihomo.proxies
      /\ set.binding = mihomo.binding /\ set.sub = mihomo.sub /\ set.nodes = mihomo.nodes
      /\ set.base = base
  BY <1>0 DEF Configurations
<1>5. PortsFit(set)
  <2>1. base # mihomo.base => \A n \in Nodes : mihomo.ports[n] = 0
    BY DEF UpdateSettings, NoPorts
  <2> QED BY <1>0, <1>1, <2>1 DEF PortsFit
<1>2. mihomo' = IF enabled THEN set ELSE ClearManagedBindings(set)
  BY DEF UpdateSettings, Saved
<1> HIDE DEF set
<1>3. CASE enabled
  BY <1>1, <1>2, <1>3, <1>5 DEF Fits, SubFits, NodesFit, BoundFit
<1>4. CASE ~enabled
  <2> DEFINE managed == {a \in ProxyAccounts : set.binding[a] \in Nodes}
             binding == [a \in ProxyAccounts |-> IF a \in managed THEN "unbound" ELSE set.binding[a]]
             d == [set EXCEPT !.binding = binding, !.manual = @ \ managed, !.cooling = @ \ managed]
  <2>1. mihomo' = Gc(d)
    BY <1>2, <1>4 DEF ClearManagedBindings
  <2>2. binding \in [ProxyAccounts -> Bindings]
    BY <1>1 DEF Configurations, Bindings
  <2> HIDE DEF managed, binding
  <2>3. /\ d \in Configurations /\ d.ports = set.ports /\ d.proxies = set.proxies
        /\ d.sub = mihomo.sub /\ d.nodes = mihomo.nodes /\ d.base = set.base
    BY <1>1, <2>2 DEF Configurations
  <2> HIDE DEF d
  <2> QED BY <1>0, <1>5, <2>1, <2>3, GcFits DEF PortsFit, SubFits
<1> QED BY <1>3, <1>4

(* The accounts page and the elastic pool do not clean up.                 *)
LEMMA AccountsPageStep ==
  ASSUME Fits(mihomo), NEW a \in ProxyAccounts, NEW id \in Bindings,
         NEW off \in {"on", "asleep", "banned"},
         UpdateAccountProxy(a, id) \/ AutoMode(a) \/ DeleteOwnProxy \/ SetOff(a, off)
  PROVE  Fits(mihomo')
<1>0. mihomo \in Configurations /\ "unbound" \notin Nodes
  BY ProxyAssumption DEF Fits
<1>1. CASE UpdateAccountProxy(a, id)
  <2>1. PICK manual \in SUBSET ProxyAccounts :
          mihomo' = [mihomo EXCEPT !.binding[a] = id, !.manual = manual]
    <3>1. mihomo.manual \in SUBSET ProxyAccounts
      BY <1>0 DEF Configurations
    <3> DEFINE manual == IF id = "direct" THEN mihomo.manual \ {a} ELSE mihomo.manual \cup {a}
    <3>2. manual \in SUBSET ProxyAccounts
      BY <3>1
    <3>3. mihomo' = [mihomo EXCEPT !.binding[a] = id, !.manual = manual]
      BY <1>1, <1>0 DEF UpdateAccountProxy, SavedOnly, Configurations
    <3> QED BY <3>2, <3>3
  <2>2. /\ mihomo' \in Configurations /\ mihomo'.ports = mihomo.ports
        /\ mihomo'.proxies = mihomo.proxies /\ mihomo'.nodes = mihomo.nodes
        /\ mihomo'.sub = mihomo.sub /\ mihomo'.base = mihomo.base
        /\ \A b \in ProxyAccounts : mihomo'.binding[b] = IF b = a THEN id ELSE mihomo.binding[b]
    BY <1>0, <2>1 DEF Configurations
  <2>3. id \in Nodes => mihomo.proxies[id] # 0
    BY <1>1 DEF UpdateAccountProxy
  <2> QED BY <2>2, <2>3, SameFits
<1>2. CASE AutoMode(a)
  <2>1. mihomo' = [mihomo EXCEPT !.binding[a] = "unbound", !.manual = @ \ {a}]
    BY <1>2 DEF AutoMode, SavedOnly
  <2>2. /\ mihomo' \in Configurations /\ mihomo'.ports = mihomo.ports
        /\ mihomo'.proxies = mihomo.proxies /\ mihomo'.nodes = mihomo.nodes
        /\ mihomo'.sub = mihomo.sub /\ mihomo'.base = mihomo.base
        /\ \A b \in ProxyAccounts : mihomo'.binding[b] \in {"unbound", mihomo.binding[b]}
    BY <1>0, <2>1 DEF Configurations, Bindings
  <2> QED BY <1>0, <2>2, SameFits
<1>3. CASE DeleteOwnProxy
  <2> DEFINE binding == [b \in ProxyAccounts |-> IF mihomo.binding[b] = "own" THEN "unbound"
                                                 ELSE mihomo.binding[b]]
  <2>1. mihomo' = [mihomo EXCEPT !.binding = binding, !.manual = @ \ Users(mihomo, "own")]
    BY <1>3 DEF DeleteOwnProxy, SavedOnly
  <2>2. /\ binding \in [ProxyAccounts -> Bindings]
        /\ \A b \in ProxyAccounts : binding[b] \in {"unbound", mihomo.binding[b]}
    BY <1>0 DEF Configurations, Bindings
  <2> HIDE DEF binding
  <2>3. /\ mihomo' \in Configurations /\ mihomo'.ports = mihomo.ports
        /\ mihomo'.proxies = mihomo.proxies /\ mihomo'.nodes = mihomo.nodes
        /\ mihomo'.sub = mihomo.sub /\ mihomo'.base = mihomo.base /\ mihomo'.binding = binding
    BY <1>0, <2>1, <2>2 DEF Configurations
  <2> QED BY <1>0, <2>2, <2>3, SameFits
<1>4. CASE SetOff(a, off)
  <2>1. mihomo' = [mihomo EXCEPT !.off[a] = off]
    BY <1>4 DEF SetOff, SavedOnly
  <2>2. /\ mihomo' \in Configurations /\ mihomo'.ports = mihomo.ports
        /\ mihomo'.proxies = mihomo.proxies /\ mihomo'.nodes = mihomo.nodes
        /\ mihomo'.sub = mihomo.sub /\ mihomo'.base = mihomo.base /\ mihomo'.binding = mihomo.binding
    BY <1>0, <2>1 DEF Configurations
  <2> QED BY <2>2, SameFits
<1> QED BY <1>1, <1>2, <1>3, <1>4

LEMMA HealthStep == ASSUME Fits(mihomo), Health PROVE Fits(mihomo') /\ UNCHANGED reconcile
<1>0. mihomo \in Configurations
  BY DEF Fits
<1>1. ASSUME NEW failed \in SUBSET Nodes, NEW cooling \in SUBSET ProxyAccounts,
             mihomo' = [mihomo EXCEPT !.failed = failed, !.cooling = cooling]
      PROVE  Fits(mihomo')
  <2>1. /\ mihomo' \in Configurations /\ mihomo'.ports = mihomo.ports
        /\ mihomo'.proxies = mihomo.proxies /\ mihomo'.nodes = mihomo.nodes
        /\ mihomo'.sub = mihomo.sub /\ mihomo'.base = mihomo.base /\ mihomo'.binding = mihomo.binding
    BY <1>0, <1>1 DEF Configurations
  <2> QED BY <2>1, SameFits
<1>2. mihomo.failed \in SUBSET Nodes /\ mihomo.cooling \in SUBSET ProxyAccounts
  BY <1>0 DEF Configurations
<1>3. ASSUME NEW n \in Nodes, NEW bad \in BOOLEAN, mihomo' = Marked(n, bad) PROVE Fits(mihomo')
  <2> DEFINE failed == IF n \in mihomo.nodes /\ bad THEN mihomo.failed \cup {n}
                       ELSE mihomo.failed \ {n}
  <2>1. failed \in SUBSET Nodes
    BY <1>2
  <2>2. mihomo' = [mihomo EXCEPT !.failed = failed, !.cooling = mihomo.cooling]
    BY <1>0, <1>3 DEF Marked, Configurations
  <2> HIDE DEF failed
  <2> QED BY <1>1, <1>2, <2>1, <2>2
<1>4. ASSUME NEW a \in ProxyAccounts, CooldownEnds(a) PROVE Fits(mihomo')
  <2>1. mihomo' = [mihomo EXCEPT !.failed = mihomo.failed, !.cooling = mihomo.cooling \ {a}]
    BY <1>0, <1>4 DEF CooldownEnds, Configurations
  <2> QED BY <1>1, <1>2, <2>1
<1>5. TRUE \in BOOLEAN
  BY Zenon
<1> QED BY <1>3, <1>4, <1>5 DEF Health, ApplyHealthResult, MarkNodeFailByTraffic, CooldownEnds

(* What a reconcile has decided on is of the snapshot's type.              *)
LEMMA PlanTyped ==
  ASSUME mihomo \in Configurations, NEW kind \in {"rebind", "relisten"} PROVE Plan(kind) \in Plans
<1>1. Unbinds \subseteq ProxyAccounts /\ Rebinds \subseteq ProxyAccounts /\ Unplaced \subseteq ProxyAccounts
  BY DEF Unbinds, Rebinds, Unplaced, Automatic
<1>2. Candidates(mihomo) \subseteq Nodes /\ mihomo.binding \in [ProxyAccounts -> Bindings]
  BY DEF Candidates, Configurations
<1>3. Cardinality(ProxyAccounts) \in Nat
  BY ProxyAssumption, FS_CardinalityType
<1>4. BoundCounts \in [Nodes -> 0..Cardinality(ProxyAccounts)]
  <2>1. ASSUME NEW n \in Nodes
        PROVE  Cardinality({a \in Users(mihomo, n) : mihomo.off[a] # "asleep"})
                 \in 0..Cardinality(ProxyAccounts)
    <3> DEFINE some == {a \in Users(mihomo, n) : mihomo.off[a] # "asleep"}
    <3>1. some \subseteq ProxyAccounts
      BY DEF Users
    <3> HIDE DEF some
    <3>2. IsFiniteSet(some) /\ Cardinality(some) <= Cardinality(ProxyAccounts)
      BY <3>1, ProxyAssumption, FS_Subset
    <3>3. Cardinality(some) \in Nat
      BY <3>2, FS_CardinalityType
    <3>4. Cardinality(some) \in 0..Cardinality(ProxyAccounts)
      BY <1>3, <3>2, <3>3
    <3> QED BY <3>4 DEF some
  <2>2. 0 \in 0..Cardinality(ProxyAccounts)
    BY <1>3
  <2> QED BY <2>1, <2>2 DEF BoundCounts
<1> QED BY <1>1, <1>2, <1>4 DEF Plan, Plans

LEMMA DecidesStep ==
  ASSUME mihomo \in Configurations, ReconcileFits, WatcherReconciles \/ DrainReconciles
  PROVE  ReconcileFits' /\ UNCHANGED <<mihomo, events>>
<1>1. WorkFound \subseteq Plans
  BY PlanTyped DEF WorkFound
<1>2. \A by \in {"watcher", "drain"}, plan \in Plans : Ready(by, plan) => ReconcileFits'
  BY DEF Ready, ReconcileFits, Reconciles
<1>3. reconcile' = reconcile => ReconcileFits'
  BY DEF ReconcileFits
<1> QED BY <1>1, <1>2, <1>3 DEF WatcherReconciles, DrainReconciles

(* The scheduler's transaction: what was bound by hand is neither chosen   *)
(* nor cleaned up.                                                         *)
HandsKept == \A a \in mihomo.manual : a \in mihomo'.manual /\ mihomo'.binding[a] = mihomo.binding[a]

LEMMA ReconciledFits ==
  ASSUME Fits(mihomo), NEW plan \in Plans, NEW f \in DOMAIN Reconciled(plan),
         mihomo' \in Reconciled(plan)[f]
  PROVE  Fits(mihomo') /\ Valid(mihomo') /\ HandsKept
<1> DEFINE freed == {a \in plan.unbinds : /\ mihomo.off[a] = "asleep" /\ a \notin mihomo.manual
                                          /\ mihomo.binding[a] = plan.expected[a]}
           moved == {a \in plan.rebinds : Eligible(a, plan.expected[a])}
           filled == {a \in plan.backfills : Eligible(a, "unbound")}
           binding == [a \in ProxyAccounts |-> IF a \in freed THEN "unbound" ELSE mihomo.binding[a]]
           c == [mihomo EXCEPT !.binding = binding, !.cooling = @ \cup moved]
           choices == {g \in [moved \cup filled -> plan.candidates] : LeastLoaded(g, plan)}
<1>0. mihomo \in Configurations /\ PortsFit(mihomo) /\ SubFits(mihomo) /\ BoundFit(mihomo)
  BY DEF Fits
<1>1. Reconciled(plan) = [g \in choices |-> IF \A a \in DOMAIN g : g[a] \in mihomo.nodes
                                            THEN {d \in {Gc(e) : e \in Assignments(c, g)} : Valid(d)}
                                            ELSE {}]
  BY DEF Reconciled
<1> HIDE DEF choices, c
<1>2. /\ f \in choices
      /\ mihomo' \in IF \A a \in DOMAIN f : f[a] \in mihomo.nodes
                      THEN {d \in {Gc(e) : e \in Assignments(c, f)} : Valid(d)} ELSE {}
  BY <1>1
<1>3. PICK d \in Assignments(c, f) : mihomo' = Gc(d) /\ Valid(mihomo')
  BY <1>2
<1>12. f \in [moved \cup filled -> plan.candidates]
  BY <1>2 DEF choices
<1>4. /\ moved \cup filled \subseteq ProxyAccounts /\ plan.candidates \subseteq Nodes
      /\ moved \cap mihomo.manual = {} /\ filled \cap mihomo.manual = {}
      /\ freed \cap mihomo.manual = {} /\ moved \subseteq ProxyAccounts
  BY DEF Plans, Eligible
<1>5. /\ binding \in [ProxyAccounts -> Bindings]
      /\ \A a \in mihomo.manual : binding[a] = mihomo.binding[a]
  BY <1>0, <1>4 DEF Configurations, Bindings
<1> HIDE DEF freed, moved, filled, binding
<1>6. /\ c \in Configurations /\ c.ports = mihomo.ports /\ c.proxies = mihomo.proxies
      /\ c.sub = mihomo.sub /\ c.base = mihomo.base /\ c.nodes = mihomo.nodes /\ c.binding = binding
      /\ c.manual = mihomo.manual
  BY <1>0, <1>4, <1>5 DEF c, Configurations
<1>7. DOMAIN f \subseteq ProxyAccounts /\ \A a \in DOMAIN f : f[a] \in Nodes
  BY <1>12, <1>4
<1>8. PortsFit(c) /\ SubFits(c)
  BY <1>0, <1>6 DEF PortsFit, SubFits
<1>9. /\ d \in Configurations /\ PortsFit(d) /\ SubFits(d) /\ d.manual = mihomo.manual
      /\ \A a \in ProxyAccounts \ DOMAIN f : d.binding[a] = c.binding[a]
      /\ \A n \in Nodes : c.proxies[n] # 0 => d.proxies[n] # 0
  BY <1>3, <1>6, <1>7, <1>8, AssignmentFits DEF SubFits
<1>10. \A a \in mihomo.manual : /\ a \in ProxyAccounts /\ d.binding[a] = mihomo.binding[a]
                                /\ d.binding[a] \in Nodes => d.proxies[d.binding[a]] # 0
  BY <1>0, <1>12, <1>4, <1>5, <1>6, <1>9 DEF Configurations, BoundFit
<1>11. /\ Fits(Gc(d))
       /\ \A a \in d.manual : (d.binding[a] \in Nodes => d.proxies[d.binding[a]] # 0)
              => a \in Gc(d).manual /\ Gc(d).binding[a] = d.binding[a]
  BY <1>9, GcFits
<1> QED BY <1>3, <1>9, <1>10, <1>11 DEF HandsKept

(* Every command of an administrator, and every failure, counts as one of  *)
(* the events.                                                             *)
LEMMA AdministersStep == ASSUME Administer PROVE Event /\ UNCHANGED reconcile
BY DEF Administer, BindAccount, UnbindAccount, AutoMode, UpdateAccountProxy, SetOff, AssignAccounts,
   DeleteOwnProxy, DeleteSubscription, AddSubscription, RefreshSubscription, UpdateSettings, Saved,
   SavedOnly, Unmoved

LEMMA EventsStep == ASSUME [ProxyNext]_proxyVars PROVE Event \/ UNCHANGED events
BY AdministersStep DEF ProxyNext, Reconcile, Health, ApplyHealthResult, MarkNodeFailByTraffic, CooldownEnds, Apply,
   ApplyBestEffort, TrySelfHeal, Crash, RequestStarts, RequestsEnd, WatcherReconciles,
   DrainReconciles, UpdateBindings, ReconcileApplies, proxyVars

LEMMA UpdateBindingsStep ==
  ASSUME ProxyInv, UpdateBindings
  PROVE  Fits(mihomo') /\ Valid(mihomo') /\ ReconcileFits' /\ HandsKept
<1>1. /\ Fits(mihomo) /\ Valid(mihomo) /\ reconcile \in [phase : {"ready", "apply"}, by : {"watcher", "drain"}, plan : Plans]
  BY DEF ProxyInv, ReconcileFits, NoReconcile, Reconciles, UpdateBindings
<1>2. reconcile' = [reconcile EXCEPT !.phase = "apply"] \/ reconcile' = NoReconcile
  BY DEF UpdateBindings, Ended
<1>3. ReconcileFits'
  BY <1>1, <1>2 DEF ReconcileFits, Reconciles
<1>4. CASE mihomo' = mihomo
  BY <1>1, <1>3, <1>4 DEF HandsKept
<1>5. CASE mihomo' # mihomo
  <2>1. PICK f \in DOMAIN Reconciled(reconcile.plan) : mihomo' \in Reconciled(reconcile.plan)[f]
    BY <1>5 DEF UpdateBindings
  <2>2. reconcile.plan \in Plans
    BY <1>1
  <2> QED BY <1>1, <1>3, <2>1, <2>2, ReconciledFits
<1> QED BY <1>4, <1>5

(* What the validation looks at changes only in steps that are validated.  *)
LEMMA SameValid ==
  ASSUME NEW c, c.ports = mihomo.ports, c.base = mihomo.base, c.api = mihomo.api, Valid(mihomo)
  PROVE  Valid(c)
BY DEF Valid, PortCount

LEMMA AdministersValid ==
  ASSUME mihomo \in Configurations, Valid(mihomo), Administer PROVE Valid(mihomo')
<1>1. ASSUME NEW c, Saved(c) PROVE Valid(mihomo')
  BY <1>1 DEF Saved
<1>2. ASSUME NEW a \in ProxyAccounts, NEW id \in Bindings, NEW off \in {"on", "asleep", "banned"},
             UpdateAccountProxy(a, id) \/ AutoMode(a) \/ DeleteOwnProxy \/ SetOff(a, off)
      PROVE  Valid(mihomo')
  <2>1. mihomo'.ports = mihomo.ports /\ mihomo'.base = mihomo.base /\ mihomo'.api = mihomo.api
    BY <1>2 DEF UpdateAccountProxy, AutoMode, DeleteOwnProxy, SetOff, SavedOnly, Configurations
  <2> QED BY <2>1, SameValid
<1>3. ASSUME DeleteOwnProxy PROVE \E a \in ProxyAccounts : TRUE
  BY <1>3 DEF DeleteOwnProxy, Users
<1>4. "own" \in Bindings /\ "on" \in {"on", "asleep", "banned"}
  BY DEF Bindings
<1> QED BY <1>1, <1>2, <1>3, <1>4
        DEF Administer, BindAccount, UnbindAccount, AssignAccounts, DeleteSubscription, AddSubscription,
            RefreshSubscription, UpdateSettings

LEMMA HealthValid == ASSUME mihomo \in Configurations, Valid(mihomo), Health PROVE Valid(mihomo')
<1>1. mihomo'.ports = mihomo.ports /\ mihomo'.base = mihomo.base /\ mihomo'.api = mihomo.api
  BY DEF Health, ApplyHealthResult, MarkNodeFailByTraffic, CooldownEnds, Marked, Configurations
<1> QED BY <1>1, SameValid

(* A step either changes neither configuration nor plan, or is one of the  *)
(* above.                                                                  *)
LEMMA ProxyStep == ASSUME ProxyInv, [ProxyNext]_proxyVars PROVE ProxyInv'
<1>0. Fits(mihomo) /\ Valid(mihomo) /\ ReconcileFits /\ mihomo \in Configurations
  BY DEF ProxyInv, Fits
<1>8. events' \in Nat
  BY EventsStep DEF Event, ProxyInv
<1>1. CASE Administer
  <2>0. reconcile' = reconcile
    BY <1>1, AdministersStep
  <2>1. ASSUME NEW a \in ProxyAccounts, NEW n \in Nodes, BindAccount(a, n) PROVE Fits(mihomo')
    BY <1>0, <2>1, BindAccountStep
  <2>2. ASSUME NEW a \in ProxyAccounts, UnbindAccount(a) PROVE Fits(mihomo')
    BY <1>0, <2>2, UnbindAccountStep
  <2>3. ASSUME NEW a \in ProxyAccounts, NEW id \in Bindings, UpdateAccountProxy(a, id) PROVE Fits(mihomo')
    BY <1>0, <2>3, AccountsPageStep
  <2>4. ASSUME NEW a \in ProxyAccounts, AutoMode(a) PROVE Fits(mihomo')
    <3>1. "own" \in Bindings
      BY DEF Bindings
    <3> QED BY <1>0, <2>4, <3>1, AccountsPageStep
  <2>5. ASSUME NEW a \in ProxyAccounts, NEW off \in {"on", "asleep", "banned"}, SetOff(a, off)
        PROVE  Fits(mihomo')
    <3>1. "own" \in Bindings
      BY DEF Bindings
    <3> QED BY <1>0, <2>5, <3>1, AccountsPageStep
  <2>6. ASSUME DeleteOwnProxy PROVE Fits(mihomo')
    <3>1. "own" \in Bindings
      BY DEF Bindings
    <3>2. PICK a \in ProxyAccounts : TRUE
      BY <2>6 DEF DeleteOwnProxy, Users
    <3> QED BY <1>0, <2>6, <3>1, <3>2, AccountsPageStep
  <2>7. ASSUME AssignAccounts PROVE Fits(mihomo')
    BY <1>0, <2>7, AssignAccountsStep
  <2>8. ASSUME NEW nodes \in SUBSET Nodes,
               AddSubscription(nodes) \/ RefreshSubscription(nodes) \/ DeleteSubscription
        PROVE  Fits(mihomo')
    BY <1>0, <2>8, SubscriptionStep
  <2>9. ASSUME NEW enabled \in BOOLEAN, NEW auto \in BOOLEAN, NEW base \in BasePorts,
               NEW api \in APIPorts, UpdateSettings(enabled, auto, base, api)
        PROVE  Fits(mihomo')
    BY <1>0, <2>9, UpdateSettingsStep
  <2>10. {} \in SUBSET Nodes
    OBVIOUS
  <2>11. Fits(mihomo')
    BY <1>1, <2>1, <2>2, <2>3, <2>4, <2>5, <2>6, <2>7, <2>8, <2>9, <2>10 DEF Administer
  <2>12. Valid(mihomo')
    BY <1>0, <1>1, AdministersValid
  <2> QED BY <1>0, <1>8, <2>0, <2>11, <2>12 DEF ProxyInv, ReconcileFits
<1>2. CASE Health
  BY <1>0, <1>8, <1>2, HealthStep, HealthValid DEF ProxyInv, ReconcileFits
<1>3. CASE WatcherReconciles \/ DrainReconciles
  BY <1>0, <1>8, <1>3, DecidesStep DEF ProxyInv
<1>4. CASE UpdateBindings
  BY <1>4, <1>8, UpdateBindingsStep DEF ProxyInv
<1>5. CASE ReconcileApplies
  BY <1>0, <1>8, <1>5 DEF ReconcileApplies, Ended, ProxyInv, ReconcileFits
<1>6. CASE ApplyBestEffort \/ TrySelfHeal \/ Crash \/ RequestStarts \/ RequestsEnd
  BY <1>0, <1>8, <1>6 DEF ApplyBestEffort, TrySelfHeal, Crash, RequestStarts, RequestsEnd, ProxyInv, ReconcileFits
<1>7. CASE UNCHANGED proxyVars
  BY <1>0, <1>8, <1>7 DEF proxyVars, ProxyInv, ReconcileFits
<1> QED BY <1>1, <1>2, <1>3, <1>4, <1>5, <1>6, <1>7 DEF ProxyNext, Reconcile

LEMMA ProxySafe == ProxyInv => PortsAndProxiesAgree
<1> SUFFICES ASSUME ProxyInv PROVE PortsAndProxiesAgree
  OBVIOUS
<1>1. mihomo \in Configurations /\ PortsFit(mihomo) /\ NodesFit(mihomo) /\ BoundFit(mihomo)
  BY DEF ProxyInv, Fits
<1>2. ASSUME NEW n \in Nodes, mihomo.ports[n] # 0, mihomo.ports[n] = mihomo.api
      PROVE  mihomo.api >= mihomo.base + PortCount(mihomo) + Margin
  <2>1. mihomo.base <= mihomo.api /\ mihomo.api \in PortSet(mihomo.ports)
    BY <1>1, <1>2 DEF PortsFit, PortSet
  <2>2. mihomo.api \in Nat /\ mihomo.base \in Nat /\ Margin \in Nat
    BY <1>1, ProxyAssumption DEF Configurations
  <2>3. PortCount(mihomo) \in Nat
    BY ProxyAssumption, FS_Subset, FS_CardinalityType DEF PortCount
  <2> QED BY <2>1, <2>2, <2>3 DEF ProxyInv, Valid
<1> QED BY <1>1, <1>2 DEF PortsFit, NodesFit, BoundFit, PortsAndProxiesAgree

(* Ports, managed proxies and bindings agree, for any accounts and nodes   *)
(* and any order of commands, settings, refreshes, tests and reconciles.   *)
THEOREM PortsAndProxiesAgreeHolds == ProxySpec => []PortsAndProxiesAgree
BY ProxyInitInv, ProxyStep, ProxySafe, PTL DEF ProxySpec

LEMMA HandsKeptStep ==
  ASSUME ProxyInv, [ProxyNext]_proxyVars, events' = events PROVE HandsKept
<1>1. ~Event /\ ~Administer
  BY AdministersStep DEF ProxyInv, Event
<1>2. CASE UpdateBindings
  BY <1>2, UpdateBindingsStep
<1>3. ASSUME NEW a \in ProxyAccounts, CooldownEnds(a) PROVE HandsKept
  BY <1>3 DEF CooldownEnds, HandsKept, ProxyInv, Fits, Configurations
<1>4. CASE mihomo' = mihomo
  BY <1>4 DEF HandsKept
<1> QED BY <1>1, <1>2, <1>3, <1>4
        DEF ProxyNext, Reconcile, Health, ApplyHealthResult, MarkNodeFailByTraffic, ApplyBestEffort,
            TrySelfHeal, Crash, RequestStarts, RequestsEnd, WatcherReconciles, DrainReconciles,
            ReconcileApplies, proxyVars

(* The scheduler moves nobody who is bound by hand, whenever the hand      *)
(* comes between its snapshot and its update.                              *)
THEOREM ManualBindingKeptHolds == ProxySpec => ManualBindingKept
<1>1. ProxyInv /\ [ProxyNext]_proxyVars
        => [events' = events =>
              \A a \in mihomo.manual : /\ a \in mihomo'.manual
                                       /\ mihomo'.binding[a] = mihomo.binding[a]]_proxyVars
  BY HandsKeptStep DEF HandsKept
<1> QED BY ProxyInitInv, ProxyStep, <1>1, PTL DEF ProxySpec, ManualBindingKept

(***************************************************************************)
(* What ProxyInv leaves open.                                              *)
(***************************************************************************)
ProxyBounded ==
  /\ streak \in [Nodes -> 0..Threshold]
  /\ kernel \in [alive : BOOLEAN, running : BOOLEAN, api : APIPorts \cup {0}, serves : [Nodes -> Nat]]
  /\ applyDue \in BOOLEAN /\ busy \in BOOLEAN
  /\ drain \in {"no", "waiting", "running"} /\ events \in 0..MaxEvents

LEMMA ProxyBoundedInit == ProxyInit => ProxyBounded
<1> SUFFICES ASSUME ProxyInit PROVE ProxyBounded
  OBVIOUS
<1>1. [n \in Nodes |-> 0] \in [Nodes -> 0..Threshold]
  BY ProxyAssumption
<1>2. NoPorts \in [Nodes -> Nat]
  BY DEF NoPorts
<1>3. 0 \in 0..MaxEvents
  BY ProxyAssumption
<1> QED BY <1>1, <1>2, <1>3 DEF ProxyInit, ProxyBounded, Stopped

LEMMA ProxyBoundedStep ==
  ASSUME ProxyInv, ProxyBounded, [ProxyNext]_proxyVars PROVE ProxyBounded'
<1> DEFINE Kernels == [alive : BOOLEAN, running : BOOLEAN, api : APIPorts \cup {0},
                       serves : [Nodes -> Nat]]
<1>1. Listeners(mihomo) \in [Nodes -> Nat] /\ NoPorts \in [Nodes -> Nat]
  <2>1. mihomo.ports \in [Nodes -> Nat]
    BY DEF ProxyInv, Fits, Configurations
  <2> QED BY <2>1 DEF Listeners, NoPorts
<1>2. Event => events' \in 0..MaxEvents
  BY ProxyAssumption DEF Event, ProxyBounded
<1>3. Stopped \in Kernels
  BY <1>1 DEF Stopped
<1>4. ASSUME Apply PROVE kernel' \in Kernels /\ events' \in 0..MaxEvents
  <2>1. [kernel EXCEPT !.running = FALSE] \in Kernels
    BY DEF ProxyBounded
  <2>2. [alive |-> TRUE, running |-> TRUE, api |-> mihomo.api, serves |-> Listeners(mihomo)]
          \in Kernels
    BY <1>1 DEF ProxyInv, Fits, Configurations
  <2>3. events \in 0..MaxEvents
    BY DEF ProxyBounded
  <2> HIDE DEF Kernels
  <2> QED BY <1>2, <1>3, <1>4, <2>1, <2>2, <2>3 DEF Apply
<1>5. ASSUME UNCHANGED <<streak, kernel, busy, drain>>, applyDue' \in BOOLEAN,
             Event \/ UNCHANGED events
      PROVE  ProxyBounded'
  BY <1>2, <1>5 DEF ProxyBounded
<1>6. ASSUME NEW c, Saved(c) \/ SavedOnly(c) PROVE ProxyBounded'
  BY <1>5, <1>6 DEF Saved, SavedOnly, Unmoved, ProxyBounded
<1>7. CASE Administer
  <2>1. \E c : Saved(c) \/ SavedOnly(c)
    BY <1>7 DEF Administer, BindAccount, UnbindAccount, AutoMode, UpdateAccountProxy, SetOff,
       AssignAccounts, DeleteOwnProxy, DeleteSubscription, AddSubscription, RefreshSubscription,
       UpdateSettings
  <2> QED BY <1>6, <2>1
<1>8. CASE Health
  <2>1. ASSUME NEW n \in Nodes, NEW failed \in BOOLEAN, ApplyHealthResult(n, failed)
        PROVE  ProxyBounded'
    <3>1. streak' \in [Nodes -> 0..Threshold]
      BY <2>1, ProxyAssumption DEF ApplyHealthResult, ProxyBounded
    <3>2. Event /\ UNCHANGED <<kernel, applyDue, drain, busy>>
      BY <2>1 DEF ApplyHealthResult
    <3> QED BY <1>2, <3>1, <3>2 DEF ProxyBounded
  <2>2. ASSUME NEW n \in Nodes, MarkNodeFailByTraffic(n) PROVE ProxyBounded'
    <3>1. streak' \in [Nodes -> 0..Threshold]
      BY <2>2, ProxyAssumption DEF MarkNodeFailByTraffic, ProxyBounded
    <3>2. Event /\ UNCHANGED <<kernel, applyDue, drain, busy>>
      BY <2>2 DEF MarkNodeFailByTraffic
    <3> QED BY <1>2, <3>1, <3>2 DEF ProxyBounded
  <2>3. ASSUME NEW a \in ProxyAccounts, CooldownEnds(a) PROVE ProxyBounded'
    BY <1>5, <2>3 DEF CooldownEnds, ProxyBounded
  <2> QED BY <1>8, <2>1, <2>2, <2>3 DEF Health
<1>9. CASE Reconcile
  <2>1. CASE WatcherReconciles \/ DrainReconciles
    <3>1. UNCHANGED <<streak, kernel, applyDue, busy, events>> /\ drain' \in {drain, "no", "waiting", "running"}
      BY <2>1 DEF WatcherReconciles, DrainReconciles
    <3> QED BY <3>1 DEF ProxyBounded
  <2>2. CASE UpdateBindings
    <3>1. UNCHANGED <<streak, kernel, applyDue, busy, events>> /\ drain' \in {drain, "no"}
      BY <2>2 DEF UpdateBindings, Ended
    <3> QED BY <3>1 DEF ProxyBounded
  <2>3. CASE ReconcileApplies
    <3>1. UNCHANGED <<streak, applyDue, busy>> /\ drain' \in {drain, "no"} /\ Apply
      BY <2>3 DEF ReconcileApplies, Ended
    <3> QED BY <1>4, <3>1 DEF ProxyBounded
  <2> QED BY <1>9, <2>1, <2>2, <2>3 DEF Reconcile
<1>10. CASE ApplyBestEffort \/ TrySelfHeal \/ Crash
  <2>1. CASE Crash
    BY <1>2, <1>3, <2>1 DEF Crash, ProxyBounded
  <2>2. CASE ApplyBestEffort \/ TrySelfHeal
    <3>1. UNCHANGED <<streak, drain, busy>> /\ applyDue' \in {applyDue, FALSE} /\ Apply
      BY <2>2 DEF ApplyBestEffort, TrySelfHeal
    <3> QED BY <1>4, <3>1 DEF ProxyBounded
  <2> QED BY <1>10, <2>1, <2>2
<1>11. CASE RequestStarts \/ RequestsEnd
  BY <1>11 DEF RequestStarts, RequestsEnd, ProxyBounded
<1>12. CASE UNCHANGED proxyVars
  BY <1>12 DEF proxyVars, ProxyBounded
<1> QED BY <1>7, <1>8, <1>9, <1>10, <1>11, <1>12 DEF ProxyNext

LEMMA ProxyTypes == ProxyInv /\ ProxyBounded => ProxyTypeOK
BY DEF ProxyInv, Fits, ReconcileFits, ProxyBounded, ProxyTypeOK

(***************************************************************************)
(* THE STREAM                                                              *)
(*                                                                         *)
(* What upstream has sent and the pump has processed is delivered, in a    *)
(* batch on its way, or collected.                                         *)
(***************************************************************************)

Chunk == [lines : Seq(Nat), stop : BOOLEAN]

(* The lines with content among the first p of r.                          *)
Brings(p, r) == {k \in 1..p : r[k] # "stop"}

(* Lines in their order, but for thinking that comes with the end.         *)
InLineOrder(s, r) ==
  \A i, j \in DOMAIN s :
    i < j => s[i] # s[j] /\ (s[i] < s[j] \/ r[s[i]] = "stopThink")

(* The stages of the way: d is delivered, q are batches on their way, s is *)
(* collected; p lines of r were processed.                                 *)
KnownLines(d, q, s, p, r) ==
  /\ ToSet(d) \subseteq Brings(p, r) /\ ToSet(s) \subseteq Brings(p, r)
  /\ \A j \in DOMAIN q : ToSet(q[j].lines) \subseteq Brings(p, r)
NothingLost(d, q, s, p, r) ==
  \A k \in Brings(p, r) :
    k \in ToSet(d) \/ k \in ToSet(s) \/ \E j \in DOMAIN q : k \in ToSet(q[j].lines)
StagesInOrder(d, q, s) ==
  /\ \A a \in ToSet(d), b \in ToSet(s) : a < b
  /\ \A j \in DOMAIN q : /\ \A a \in ToSet(d), b \in ToSet(q[j].lines) : a < b
                         /\ \A a \in ToSet(q[j].lines), b \in ToSet(s) : a < b
  /\ \A i, j \in DOMAIN q :
       i < j => \A a \in ToSet(q[i].lines), b \in ToSet(q[j].lines) : a < b
OrderKept(q, s, r) ==
  /\ InLineOrder(s, r)
  /\ \A j \in DOMAIN q : InLineOrder(q[j].lines, r)

(* A batch that ends the answer follows all content up to a terminal line. *)
EndsFit(d, q, p, r) ==
  \A j \in DOMAIN q : q[j].stop =>
    /\ q[j].lines = <<>>
    /\ \E e \in 1..p :
         /\ r[e] \in Stops
         /\ \A k \in Brings(e, r) :
              k \in ToSet(d) \/ \E i \in DOMAIN q : i < j /\ k \in ToSet(q[i].lines)

WayFits(d, q, s, p, r) ==
  /\ KnownLines(d, q, s, p, r) /\ NothingLost(d, q, s, p, r)
  /\ StagesInOrder(d, q, s) /\ OrderKept(q, s, r) /\ EndsFit(d, q, p, r)

(* What is delivered is content, each line once and after all before it.   *)
DeliveredFits(d, r) ==
  /\ ToSet(d) \subseteq Brings(Len(r), r)
  /\ \A i, j \in DOMAIN d : i < j => d[i] # d[j]
  /\ \A i \in DOMAIN d :
       r[d[i]] # "stopThink" =>
         \A k \in Brings(Len(r), r) : k < d[i] => \E j \in 1..i : d[j] = k

(* The elements of a sequence that has grown.                              *)
LEMMA ElementsJoin ==
  ASSUME NEW S, NEW s \in Seq(S), NEW t \in Seq(S)
  PROVE  ToSet(s \o t) = ToSet(s) \cup ToSet(t)
<1>1. /\ s \o t \in Seq(S) /\ Len(s \o t) = Len(s) + Len(t)
      /\ \A i \in 1..(Len(s) + Len(t)) :
           (s \o t)[i] = IF i <= Len(s) THEN s[i] ELSE t[i - Len(s)]
  BY ConcatProperties
<1>2. /\ Len(s) \in Nat /\ Len(t) \in Nat /\ DOMAIN s = 1..Len(s) /\ DOMAIN t = 1..Len(t)
      /\ DOMAIN (s \o t) = 1..(Len(s) + Len(t))
  BY <1>1, LenProperties
<1> DEFINE u == s \o t
<1> HIDE DEF u
<1>3. ASSUME NEW x \in ToSet(u) PROVE x \in ToSet(s) \cup ToSet(t)
  <2>1. PICK i \in 1..(Len(s) + Len(t)) : x = u[i]
    BY <1>2 DEF ToSet, u
  <2>2. CASE i <= Len(s)
    BY <1>1, <1>2, <2>1, <2>2 DEF ToSet, u
  <2>3. CASE ~(i <= Len(s))
    <3>1. i - Len(s) \in 1..Len(t) /\ x = t[i - Len(s)]
      BY <1>1, <1>2, <2>1, <2>3 DEF u
    <3> QED BY <1>2, <3>1 DEF ToSet
  <2> QED BY <2>2, <2>3
<1>4. ASSUME NEW x \in ToSet(s) PROVE x \in ToSet(u)
  <2>1. PICK i \in 1..Len(s) : x = s[i]
    BY <1>2 DEF ToSet
  <2>2. i \in 1..(Len(s) + Len(t)) /\ u[i] = s[i]
    BY <1>1, <1>2 DEF u
  <2> QED BY <1>2, <2>1, <2>2 DEF ToSet, u
<1>5. ASSUME NEW x \in ToSet(t) PROVE x \in ToSet(u)
  <2>1. PICK i \in 1..Len(t) : x = t[i]
    BY <1>2 DEF ToSet
  <2>2. Len(s) + i \in 1..(Len(s) + Len(t)) /\ ~(Len(s) + i <= Len(s)) /\ Len(s) + i - Len(s) = i
    BY <1>2
  <2>3. u[Len(s) + i] = t[i]
    BY <1>1, <2>2 DEF u
  <2> QED BY <1>2, <2>1, <2>2, <2>3 DEF ToSet, u
<1> QED BY <1>3, <1>4, <1>5 DEF u

LEMMA ElementsAppend ==
  ASSUME NEW S, NEW s \in Seq(S), NEW e \in S
  PROVE  ToSet(Append(s, e)) = ToSet(s) \cup {e}
<1> DEFINE o == <<e>>
<1>1. ToSet(o) = {e}
  BY DEF ToSet
<1>2. Append(s, e) = s \o o
  BY AppendIsConcat
<1>3. s \in Seq(S) /\ o \in Seq(S)
  OBVIOUS
<1> HIDE DEF o
<1>4. ToSet(s \o o) = ToSet(s) \cup ToSet(o)
  BY ONLY <1>3, ElementsJoin
<1> QED BY <1>1, <1>2, <1>4

LEMMA NoElements == ToSet(<<>>) = {}
BY DEF ToSet

(* The elements and the places of an appended batch.                       *)
LEMMA AppendPlaces ==
  ASSUME NEW S, NEW q \in Seq(S), NEW b \in S
  PROVE  /\ Append(q, b) \in Seq(S)
         /\ DOMAIN Append(q, b) = DOMAIN q \cup {Len(q) + 1}
         /\ \A j \in DOMAIN q : Append(q, b)[j] = q[j] /\ j < Len(q) + 1 /\ j \in Nat
         /\ Append(q, b)[Len(q) + 1] = b
<1>1. DOMAIN q = 1..Len(q) /\ Len(q) \in Nat
  BY LenProperties
<1>2. Append(q, b) \in Seq(S) /\ Len(Append(q, b)) = Len(q) + 1
  OBVIOUS
<1>3. DOMAIN Append(q, b) = 1..(Len(q) + 1)
  BY <1>2
<1>4. 1..(Len(q) + 1) = 1..Len(q) \cup {Len(q) + 1}
  BY <1>1
<1>5. \A j \in 1..Len(q) : Append(q, b)[j] = q[j] /\ j < Len(q) + 1 /\ j \in Nat
  BY <1>1
<1> QED BY <1>1, <1>2, <1>3, <1>4, <1>5

(* A collection is sent on as a batch.                                     *)
LEMMA Forwards ==
  ASSUME NEW d, NEW q \in Seq(Chunk), NEW s \in Seq(Nat), NEW p \in Nat, NEW r,
         WayFits(d, q, s, p, r)
  PROVE  WayFits(d, Append(q, [lines |-> s, stop |-> FALSE]), <<>>, p, r)
<1> DEFINE b == [lines |-> s, stop |-> FALSE]
           n == Len(q) + 1
           Q == Append(q, b)
<1>1. b \in Chunk /\ b.lines = s /\ b.stop = FALSE
  BY DEF Chunk
<1> HIDE DEF b
<1>2. /\ DOMAIN Q = DOMAIN q \cup {n} /\ Q[n] = b
      /\ \A j \in DOMAIN q : Q[j] = q[j] /\ j < n /\ j \in Nat
  BY <1>1, AppendPlaces
<1>3. n \in Nat
  BY LenProperties
<1> HIDE DEF n, Q
<1> USE NoElements DEF WayFits
<1>4. KnownLines(d, Q, <<>>, p, r)
  BY <1>1, <1>2 DEF KnownLines
<1>5. NothingLost(d, Q, <<>>, p, r)
  BY <1>1, <1>2 DEF NothingLost
<1>6. StagesInOrder(d, Q, <<>>)
  <2>1. ASSUME NEW i \in DOMAIN Q, NEW j \in DOMAIN Q, i < j,
               NEW x \in ToSet(Q[i].lines), NEW y \in ToSet(Q[j].lines)
        PROVE  x < y
    <3>1. i # n
      BY <1>2, <1>3, <2>1
    <3>2. CASE j = n
      BY <1>1, <1>2, <2>1, <3>1, <3>2 DEF StagesInOrder
    <3>3. CASE j # n
      BY <1>2, <2>1, <3>1, <3>3 DEF StagesInOrder
    <3> QED BY <3>2, <3>3
  <2> QED BY <1>1, <1>2, <2>1 DEF StagesInOrder
<1>7. OrderKept(Q, <<>>, r)
  BY <1>1, <1>2 DEF OrderKept, InLineOrder
<1>8. EndsFit(d, Q, p, r)
  <2>1. ASSUME NEW j \in DOMAIN Q, Q[j].stop
        PROVE  /\ Q[j].lines = <<>>
               /\ \E e \in 1..p : r[e] \in Stops /\ \A k \in Brings(e, r) :
                    k \in ToSet(d) \/ \E i \in DOMAIN Q : i < j /\ k \in ToSet(Q[i].lines)
    <3>1. j \in DOMAIN q /\ Q[j] = q[j]
      BY <1>1, <1>2, <2>1
    <3> QED BY <1>2, <2>1, <3>1 DEF EndsFit
  <2> QED BY <2>1 DEF EndsFit
<1> QED BY <1>4, <1>5, <1>6, <1>7, <1>8 DEF b, Q

(* A line with content is collected.                                       *)
LEMMA Collects ==
  ASSUME NEW d, NEW q, NEW s, NEW t, NEW p \in Nat, NEW r,
         WayFits(d, q, s, p, r), r[p + 1] # "stop",
         ToSet(t) = ToSet(s) \cup {p + 1}, InLineOrder(t, r)
  PROVE  WayFits(d, q, t, p + 1, r)
<1> USE DEF WayFits
<1>1. Brings(p + 1, r) = Brings(p, r) \cup {p + 1}
  BY DEF Brings
<1>2. \A k \in Brings(p, r) : k < p + 1
  BY DEF Brings
<1>3. KnownLines(d, q, t, p + 1, r)
  BY <1>1 DEF KnownLines
<1>4. NothingLost(d, q, t, p + 1, r)
  BY <1>1 DEF NothingLost
<1>5. StagesInOrder(d, q, t)
  BY <1>2 DEF StagesInOrder, KnownLines
<1>6. EndsFit(d, q, p + 1, r)
  BY DEF EndsFit
<1> QED BY <1>3, <1>4, <1>5, <1>6 DEF OrderKept

(* A line without content is passed over.                                  *)
LEMMA PassesOver ==
  ASSUME NEW d, NEW q, NEW s, NEW p \in Nat, NEW r,
         WayFits(d, q, s, p, r), r[p + 1] = "stop"
  PROVE  WayFits(d, q, s, p + 1, r)
<1>1. Brings(p + 1, r) = Brings(p, r)
  BY DEF Brings
<1> QED BY <1>1 DEF WayFits, KnownLines, NothingLost, EndsFit

(* The answer ends once everything up to its last line is on its way.      *)
LEMMA AnswerEnds ==
  ASSUME NEW d, NEW q \in Seq(Chunk), NEW p \in Nat, NEW r,
         WayFits(d, q, <<>>, p, r), p > 0, r[p] \in Stops
  PROVE  WayFits(d, Append(q, [lines |-> <<>>, stop |-> TRUE]), <<>>, p, r)
<1> DEFINE b == [lines |-> <<>>, stop |-> TRUE]
           n == Len(q) + 1
           Q == Append(q, b)
<1>1. b \in Chunk /\ b.lines = <<>> /\ b.stop = TRUE
  BY DEF Chunk
<1> HIDE DEF b
<1>2. /\ DOMAIN Q = DOMAIN q \cup {n} /\ Q[n] = b
      /\ \A j \in DOMAIN q : Q[j] = q[j] /\ j < n /\ j \in Nat
  BY <1>1, AppendPlaces
<1>3. n \in Nat
  BY LenProperties
<1> HIDE DEF n, Q
<1> USE NoElements DEF WayFits
<1>4. KnownLines(d, Q, <<>>, p, r)
  BY <1>1, <1>2 DEF KnownLines
<1>5. NothingLost(d, Q, <<>>, p, r)
  BY <1>1, <1>2 DEF NothingLost
<1>6. StagesInOrder(d, Q, <<>>)
  <2>1. ASSUME NEW i \in DOMAIN Q, NEW j \in DOMAIN Q, i < j,
               NEW x \in ToSet(Q[i].lines), NEW y \in ToSet(Q[j].lines)
        PROVE  x < y
    <3>1. i # n /\ j # n
      BY <1>1, <1>2, <1>3, <2>1
    <3> QED BY <1>2, <2>1, <3>1 DEF StagesInOrder
  <2> QED BY <1>1, <1>2, <2>1 DEF StagesInOrder
<1>7. OrderKept(Q, <<>>, r)
  BY <1>1, <1>2 DEF OrderKept, InLineOrder
<1>8. EndsFit(d, Q, p, r)
  <2>1. ASSUME NEW j \in DOMAIN q, Q[j].stop
        PROVE  /\ Q[j].lines = <<>>
               /\ \E e \in 1..p : r[e] \in Stops /\ \A k \in Brings(e, r) :
                    k \in ToSet(d) \/ \E i \in DOMAIN Q : i < j /\ k \in ToSet(Q[i].lines)
    BY <1>2, <2>1 DEF EndsFit
  <2>2. \A k \in Brings(p, r) :
          k \in ToSet(d) \/ \E i \in DOMAIN Q : i < n /\ k \in ToSet(Q[i].lines)
    BY <1>2 DEF NothingLost
  <2>3. p \in 1..p
    OBVIOUS
  <2> QED BY <1>1, <1>2, <2>1, <2>2, <2>3 DEF EndsFit
<1> QED BY <1>4, <1>5, <1>6, <1>7, <1>8 DEF b, Q

(* The first batch on its way is delivered.                                *)
LEMMA Delivers ==
  ASSUME NEW d \in Seq(Nat), NEW q \in Seq(Chunk), q # <<>>, NEW s, NEW p \in Nat, NEW r,
         WayFits(d, q, s, p, r)
  PROVE  WayFits(d \o Head(q).lines, Tail(q), s, p, r)
<1> DEFINE l == Head(q).lines
           D == d \o l
           Q == Tail(q)
<1>1. /\ Len(q) \in Nat \ {0} /\ DOMAIN q = 1..Len(q)
      /\ 1 \in DOMAIN q /\ l = q[1].lines /\ l \in Seq(Nat)
  <2>1. Len(q) \in Nat \ {0} /\ DOMAIN q = 1..Len(q)
    BY EmptySeq, LenProperties
  <2>2. Head(q) = q[1] /\ q[1] \in Chunk /\ 1 \in 1..Len(q)
    BY <2>1, ElementOfSeq
  <2> QED BY <2>1, <2>2 DEF Chunk
<1>2. /\ Len(Q) = Len(q) - 1 /\ DOMAIN Q = 1..(Len(q) - 1)
      /\ \A i \in 1..(Len(q) - 1) : Q[i] = q[i + 1]
  <2>1. Q \in Seq(Chunk) /\ Len(Q) = Len(q) - 1 /\ \A i \in 1..Len(Q) : Q[i] = q[i + 1]
    BY HeadTailProperties
  <2> QED BY <2>1, LenProperties
<1>3. ToSet(D) = ToSet(d) \cup ToSet(l)
  BY <1>1, ElementsJoin
<1> HIDE DEF l, D, Q
<1>4. ASSUME NEW i \in DOMAIN Q
      PROVE  i + 1 \in DOMAIN q /\ Q[i] = q[i + 1] /\ 1 < i + 1 /\ i \in Nat
  BY <1>1, <1>2
<1>5. ASSUME NEW i \in DOMAIN q, i # 1
      PROVE  i - 1 \in DOMAIN Q /\ Q[i - 1] = q[i] /\ i \in Nat
  <2>1. i - 1 \in 1..(Len(q) - 1) /\ (i - 1) + 1 = i
    BY <1>1, <1>5
  <2> QED BY <1>1, <1>2, <2>1
<1> USE DEF WayFits
<1>6. KnownLines(D, Q, s, p, r)
  BY <1>1, <1>3, <1>4 DEF KnownLines
<1>7. NothingLost(D, Q, s, p, r)
  <2>1. ASSUME NEW k \in Brings(p, r), k \notin ToSet(D), k \notin ToSet(s)
        PROVE  \E j \in DOMAIN Q : k \in ToSet(Q[j].lines)
    <3>1. PICK j \in DOMAIN q : k \in ToSet(q[j].lines)
      BY <1>3, <2>1 DEF NothingLost
    <3>2. j # 1
      BY <1>1, <1>3, <2>1, <3>1
    <3> QED BY <1>5, <3>1, <3>2
  <2> QED BY <2>1 DEF NothingLost
<1>8. StagesInOrder(D, Q, s)
  <2>1. \A a \in ToSet(D), b \in ToSet(s) : a < b
    BY <1>1, <1>3 DEF StagesInOrder
  <2>2. ASSUME NEW j \in DOMAIN Q
        PROVE  /\ \A a \in ToSet(D), b \in ToSet(Q[j].lines) : a < b
               /\ \A a \in ToSet(Q[j].lines), b \in ToSet(s) : a < b
    BY <1>1, <1>3, <1>4 DEF StagesInOrder
  <2>3. ASSUME NEW i \in DOMAIN Q, NEW j \in DOMAIN Q, i < j
        PROVE  \A a \in ToSet(Q[i].lines), b \in ToSet(Q[j].lines) : a < b
    <3>1. i + 1 < j + 1
      BY <1>4, <2>3
    <3> QED BY <1>4, <3>1 DEF StagesInOrder
  <2> QED BY <2>1, <2>2, <2>3 DEF StagesInOrder
<1>9. OrderKept(Q, s, r)
  BY <1>4 DEF OrderKept
<1>10. EndsFit(D, Q, p, r)
  <2>1. ASSUME NEW j \in DOMAIN Q, Q[j].stop
        PROVE  /\ Q[j].lines = <<>>
               /\ \E e \in 1..p : r[e] \in Stops /\ \A k \in Brings(e, r) :
                    k \in ToSet(D) \/ \E i \in DOMAIN Q : i < j /\ k \in ToSet(Q[i].lines)
    <3>1. Q[j].lines = <<>>
      BY <1>4, <2>1 DEF EndsFit
    <3>2. PICK e \in 1..p : r[e] \in Stops /\ \A k \in Brings(e, r) :
            k \in ToSet(d) \/ \E i \in DOMAIN q : i < j + 1 /\ k \in ToSet(q[i].lines)
      BY <1>4, <2>1 DEF EndsFit
    <3>3. ASSUME NEW k \in Brings(e, r), k \notin ToSet(D)
          PROVE  \E i \in DOMAIN Q : i < j /\ k \in ToSet(Q[i].lines)
      <4>1. PICK i \in DOMAIN q : i < j + 1 /\ k \in ToSet(q[i].lines)
        BY <1>3, <3>2, <3>3
      <4>2. i # 1
        BY <1>1, <1>3, <3>3, <4>1
      <4>3. i - 1 \in DOMAIN Q /\ Q[i - 1] = q[i] /\ i - 1 < j
        BY <1>4, <1>5, <4>1, <4>2
      <4> QED BY <4>1, <4>3
    <3> QED BY <3>1, <3>2, <3>3
  <2> QED BY <2>1 DEF EndsFit
<1> QED BY <1>6, <1>7, <1>8, <1>9, <1>10 DEF D, Q, l

(* What is delivered then is in order and complete.                        *)
LEMMA DeliveredGrows ==
  ASSUME NEW d \in Seq(Nat), NEW q \in Seq(Chunk), q # <<>>, NEW s, NEW p \in Nat,
         NEW r \in Seq(Kinds), p <= Len(r), WayFits(d, q, s, p, r), DeliveredFits(d, r)
  PROVE  DeliveredFits(d \o Head(q).lines, r)
<1> DEFINE l == Head(q).lines
           u == d \o l
<1>1. 1 \in DOMAIN q /\ l = q[1].lines /\ l \in Seq(Nat)
  <2>1. Len(q) \in Nat \ {0} /\ DOMAIN q = 1..Len(q)
    BY EmptySeq, LenProperties
  <2>2. Head(q) = q[1] /\ q[1] \in Chunk /\ 1 \in 1..Len(q)
    BY <2>1, ElementOfSeq
  <2> QED BY <2>1, <2>2 DEF Chunk
<1> HIDE DEF l
<1>2. /\ Len(d) \in Nat /\ Len(l) \in Nat /\ DOMAIN d = 1..Len(d) /\ DOMAIN l = 1..Len(l)
      /\ \A i \in 1..Len(d) : d[i] \in Nat /\ d[i] \in ToSet(d)
      /\ \A i \in 1..Len(l) : l[i] \in Nat /\ l[i] \in ToSet(l)
  BY <1>1, LenProperties, ElementOfSeq DEF ToSet
<1>3. /\ DOMAIN u = 1..(Len(d) + Len(l))
      /\ \A i \in 1..(Len(d) + Len(l)) : u[i] = IF i <= Len(d) THEN d[i] ELSE l[i - Len(d)]
  <2>1. /\ u \in Seq(Nat) /\ Len(u) = Len(d) + Len(l)
        /\ \A i \in 1..(Len(d) + Len(l)) : u[i] = IF i <= Len(d) THEN d[i] ELSE l[i - Len(d)]
    BY <1>1, ConcatProperties
  <2> QED BY <2>1, LenProperties
<1>4. ToSet(u) = ToSet(d) \cup ToSet(l)
  BY <1>1, ElementsJoin
<1> HIDE DEF u
<1>5. Len(r) \in Nat /\ Brings(p, r) \subseteq Brings(Len(r), r)
  BY LenProperties DEF Brings
<1>6. ToSet(u) \subseteq Brings(Len(r), r)
  BY <1>1, <1>4, <1>5 DEF DeliveredFits, WayFits, KnownLines
<1>7. InLineOrder(l, r) /\ ToSet(l) \subseteq Brings(p, r)
      /\ \A a \in ToSet(d), b \in ToSet(l) : a < b
  BY <1>1 DEF WayFits, OrderKept, KnownLines, StagesInOrder
<1>8. ASSUME NEW i \in DOMAIN u, NEW j \in DOMAIN u, i < j
      PROVE  u[i] # u[j]
  <2>1. CASE j <= Len(d)
    <3>1. i \in DOMAIN d /\ j \in DOMAIN d /\ u[i] = d[i] /\ u[j] = d[j]
      BY <1>2, <1>3, <1>8, <2>1
    <3> QED BY <1>8, <3>1 DEF DeliveredFits
  <2>2. CASE i <= Len(d) /\ ~(j <= Len(d))
    <3>1. /\ i \in 1..Len(d) /\ j - Len(d) \in 1..Len(l)
          /\ u[i] = d[i] /\ u[j] = l[j - Len(d)]
      BY <1>2, <1>3, <1>8, <2>2
    <3>2. d[i] < l[j - Len(d)] /\ d[i] \in Nat /\ l[j - Len(d)] \in Nat
      BY <1>2, <1>7, <3>1
    <3> QED BY <3>1, <3>2
  <2>3. CASE ~(i <= Len(d))
    <3>1. /\ i - Len(d) \in 1..Len(l) /\ j - Len(d) \in 1..Len(l)
          /\ i - Len(d) < j - Len(d) /\ ~(j <= Len(d))
      BY <1>2, <1>3, <1>8, <2>3
    <3>2. u[i] = l[i - Len(d)] /\ u[j] = l[j - Len(d)]
      BY <1>3, <2>3, <3>1
    <3> QED BY <1>2, <1>7, <3>1, <3>2 DEF InLineOrder
  <2> QED BY <1>2, <1>3, <1>8, <2>1, <2>2, <2>3
<1>9. ASSUME NEW i \in DOMAIN u, r[u[i]] # "stopThink",
             NEW k \in Brings(Len(r), r), k < u[i]
      PROVE  \E j \in 1..i : u[j] = k
  <2>1. CASE i <= Len(d)
    <3>1. i \in DOMAIN d /\ u[i] = d[i]
      BY <1>2, <1>3, <2>1
    <3>2. PICK j \in 1..i : d[j] = k
      BY <1>9, <3>1 DEF DeliveredFits
    <3>3. u[j] = d[j]
      BY <1>2, <1>3, <2>1
    <3> QED BY <3>2, <3>3
  <2>2. CASE ~(i <= Len(d))
    <3> DEFINE m == i - Len(d)
    <3>1. m \in 1..Len(l) /\ u[i] = l[m] /\ i = Len(d) + m
      BY <1>2, <1>3, <2>2
    <3> HIDE DEF m
    <3>2. l[m] \in ToSet(l) /\ l[m] \in Nat /\ l[m] \in 1..p /\ k \in Nat
      BY <1>2, <1>7, <3>1 DEF Brings
    <3>3. k \in Brings(p, r)
      BY <1>9, <3>1, <3>2 DEF Brings
    <3>4. k \notin ToSet(s)
      <4>1. ASSUME k \in ToSet(s) PROVE l[m] < k
        BY <1>1, <3>2, <4>1 DEF WayFits, StagesInOrder
      <4> QED BY <1>9, <3>1, <3>2, <4>1
    <3>5. CASE k \in ToSet(d)
      <4>1. PICK j \in 1..Len(d) : d[j] = k
        BY <1>2, <3>5 DEF ToSet
      <4>2. j \in 1..i /\ u[j] = d[j]
        BY <1>2, <1>3, <3>1, <4>1
      <4> QED BY <4>1, <4>2
    <3>6. CASE k \notin ToSet(d)
      <4>1. PICK j \in DOMAIN q : k \in ToSet(q[j].lines)
        BY <3>3, <3>4, <3>6 DEF WayFits, NothingLost
      <4>2. j = 1
        <5>1. j \in Nat \ {0}
          BY LenProperties
        <5>2. ASSUME j # 1 PROVE l[m] < k
          <6>1. 1 < j
            BY <5>1, <5>2
          <6> QED BY <1>1, <3>2, <4>1, <6>1 DEF WayFits, StagesInOrder
        <5> QED BY <1>9, <3>1, <3>2, <5>2
      <4>3. PICK x \in 1..Len(l) : l[x] = k
        BY <1>1, <1>2, <4>1, <4>2 DEF ToSet
      <4>4. ~(m < x)
        <5>1. ASSUME m < x PROVE l[m] < l[x]
          BY <1>2, <1>7, <1>9, <3>1, <5>1 DEF InLineOrder
        <5> QED BY <1>9, <3>1, <3>2, <4>3, <5>1
      <4>5. Len(d) + x \in 1..i /\ u[Len(d) + x] = l[x]
        <5>1. /\ Len(d) \in Nat /\ Len(l) \in Nat /\ x \in Nat \ {0} /\ m \in Nat
              /\ x <= Len(l) /\ x <= m /\ i = Len(d) + m
          BY <1>2, <3>1, <4>4
        <5>2. /\ Len(d) + x \in 1..(Len(d) + Len(l)) /\ ~(Len(d) + x <= Len(d))
              /\ Len(d) + x - Len(d) = x /\ Len(d) + x \in 1..i
          BY ONLY <5>1
        <5>3. u[Len(d) + x] = l[x]
          BY <1>3, <5>2
        <5> QED BY <5>2, <5>3
      <4> QED BY <4>3, <4>5
    <3> QED BY <3>5, <3>6
  <2> QED BY <2>1, <2>2
<1> QED BY <1>6, <1>8, <1>9 DEF DeliveredFits, u, l

(* Upstream sends another line.                                            *)
LEMMA ReadGrows ==
  ASSUME NEW d \in Seq(Nat), NEW q \in Seq(Chunk), NEW s \in Seq(Nat), NEW p \in Nat,
         NEW r \in Seq(Kinds), NEW kind \in Kinds
  PROVE  /\ DeliveredFits(d, r) => DeliveredFits(d, Append(r, kind))
         /\ WayFits(d, q, s, p, r) /\ p <= Len(r) => WayFits(d, q, s, p, Append(r, kind))
<1> DEFINE R == Append(r, kind)
<1>1. /\ Len(r) \in Nat /\ R \in Seq(Kinds) /\ Len(R) = Len(r) + 1
      /\ \A k \in 1..Len(r) : R[k] = r[k]
  BY LenProperties, AppendProperties
<1> HIDE DEF R
<1>2. ASSUME NEW n \in 0..Len(r) PROVE Brings(n, R) = Brings(n, r)
  <2>1. \A k \in 1..n : R[k] = r[k]
    BY <1>1
  <2> QED BY <2>1 DEF Brings
<1>3. ASSUME DeliveredFits(d, r) PROVE DeliveredFits(d, R)
  <2>1. \A i \in DOMAIN d : d[i] \in ToSet(d)
    BY DEF ToSet
  <2>2. \A i \in DOMAIN d : d[i] \in 1..Len(r) /\ R[d[i]] = r[d[i]]
    BY <1>1, <1>3, <2>1 DEF DeliveredFits, Brings
  <2>3. ToSet(d) \subseteq Brings(Len(R), R)
    <3>1. \A n \in 1..Len(r) : n \in 1..Len(R)
      <4>1. Len(r) \in Nat /\ Len(R) = Len(r) + 1
        BY <1>1, Zenon
      <4> QED BY <4>1
    <3> QED BY <1>1, <1>3, <3>1 DEF DeliveredFits, Brings
  <2>4. ASSUME NEW i \in DOMAIN d, R[d[i]] # "stopThink",
               NEW k \in Brings(Len(R), R), k < d[i]
        PROVE  \E j \in 1..i : d[j] = k
    <3>1. k \in Brings(Len(r), r)
      BY <1>1, <2>2, <2>4 DEF Brings
    <3> QED BY <1>3, <2>2, <2>4, <3>1 DEF DeliveredFits
  <2> QED BY <1>3, <2>3, <2>4 DEF DeliveredFits
<1>4. ASSUME WayFits(d, q, s, p, r), p <= Len(r) PROVE WayFits(d, q, s, p, R)
  <2> USE DEF WayFits
  <2>1. p \in 0..Len(r) /\ Brings(p, R) = Brings(p, r)
    BY <1>1, <1>2, <1>4
  <2>2. \A k \in Brings(p, r) : R[k] = r[k]
    BY <1>1, <2>1 DEF Brings
  <2>3. KnownLines(d, q, s, p, R) /\ NothingLost(d, q, s, p, R)
    BY <1>4, <2>1 DEF KnownLines, NothingLost
  <2>4. OrderKept(q, s, R)
    <3>1. ASSUME NEW l, ToSet(l) \subseteq Brings(p, r), InLineOrder(l, r)
          PROVE  InLineOrder(l, R)
      <4>1. \A i \in DOMAIN l : R[l[i]] = r[l[i]]
        BY <2>2, <3>1 DEF ToSet
      <4> QED BY <3>1, <4>1 DEF InLineOrder
    <3> QED BY <1>4, <3>1 DEF KnownLines, OrderKept
  <2>5. EndsFit(d, q, p, R)
    <3>1. \A e \in 1..p : R[e] = r[e] /\ Brings(e, R) = Brings(e, r)
      BY <1>1, <1>2, <1>4
    <3> QED BY <1>4, <3>1 DEF EndsFit
  <2> QED BY <1>4, <2>3, <2>4, <2>5
<1> QED BY <1>3, <1>4 DEF R

(***************************************************************************)
(* What holds in every state of the stream.  Lines are processed in turn;  *)
(* until the stream is cancelled, nothing is lost on the way.              *)
(***************************************************************************)
Processed == Len(read) - Len(scanCh) - (IF scan = "sending" THEN 1 ELSE 0)

StreamTyped ==
  /\ read \in Seq(Kinds) /\ scanCh \in Seq(Nat) /\ delivered \in Seq(Nat)
  /\ thinking \in Seq(Nat) /\ text \in Seq(Nat)
  /\ out \in Seq(Chunk) /\ emit \in Seq(Chunk)
  /\ scan \in {"reading", "sending", "closed"} /\ terminalSeen \in BOOLEAN
  /\ scanErr \in {"none", "eof", "failed", "limit"} /\ pumpErr \in {"none", "failed", "limit"}

ScanFits ==
  Processed \in Nat /\ \A i \in 1..Len(scanCh) : scanCh[i] = Processed + i
TerminalProcessed ==
  terminalSeen => \E e \in 1..Processed : read[e] \in Stops
PumpDrained ==
  /\ pump \in {"closing", "over"} => thinking = <<>> /\ text = <<>>
  /\ pump \in {"done", "over"} => emit = <<>>
Flowing ==
  /\ ScanFits /\ TerminalProcessed /\ PumpDrained
  /\ WayFits(delivered, out \o emit, thinking \o text, Processed, read)

AnswerWhole(d, r) ==
  \E e \in 1..Len(r) : r[e] \in Stops /\ Brings(e, r) \subseteq ToSet(d)

StreamInv ==
  /\ StreamTyped /\ DeliveredFits(delivered, read)
  /\ ~Cancelled => Flowing
  /\ report = "ok" => terminalSeen
  /\ outcome \in {"stopped", "completed"} => AnswerWhole(delivered, read)

(* A line is collected behind the others.                                  *)
LEMMA CollectsLast ==
  ASSUME NEW d, NEW q, NEW s \in Seq(Nat), NEW p \in Nat, NEW r,
         WayFits(d, q, s, p, r), r[p + 1] # "stop"
  PROVE  WayFits(d, q, Append(s, p + 1), p + 1, r)
<1> DEFINE n == p + 1
           t == Append(s, n)
<1>1. ToSet(t) = ToSet(s) \cup {n}
  <2>1. n \in Nat
    OBVIOUS
  <2> HIDE DEF n
  <2> QED BY <2>1, ElementsAppend
<1>2. /\ DOMAIN s = 1..Len(s) /\ Len(s) \in Nat
      /\ DOMAIN t = 1..(Len(s) + 1) /\ t[Len(s) + 1] = n
      /\ \A i \in 1..Len(s) : t[i] = s[i] /\ s[i] \in ToSet(s)
  <2>1. DOMAIN s = 1..Len(s) /\ Len(s) \in Nat
    BY LenProperties
  <2>2. /\ t \in Seq(Nat) /\ Len(t) = Len(s) + 1 /\ t[Len(s) + 1] = n
        /\ \A i \in 1..Len(s) : t[i] = s[i]
    BY AppendProperties
  <2>3. DOMAIN t = 1..(Len(s) + 1)
    BY <2>2, LenProperties
  <2> QED BY <2>1, <2>2, <2>3 DEF ToSet
<1>3. \A a \in ToSet(s) : a \in Nat /\ a < n
  BY DEF WayFits, KnownLines, Brings
<1> HIDE DEF t
<1>4. ASSUME NEW i \in DOMAIN t, NEW j \in DOMAIN t, i < j
      PROVE  t[i] # t[j] /\ (t[i] < t[j] \/ r[t[i]] = "stopThink")
  <2>1. i \in 1..Len(s) /\ (j \in 1..Len(s) \/ j = Len(s) + 1)
    BY <1>2, <1>4
  <2>2. CASE j \in 1..Len(s)
    BY <1>2, <1>4, <2>1, <2>2 DEF WayFits, OrderKept, InLineOrder
  <2>3. CASE j = Len(s) + 1
    BY <1>2, <1>3, <2>1, <2>3
  <2> QED BY <2>1, <2>2, <2>3
<1>5. InLineOrder(t, r)
  BY <1>4 DEF InLineOrder
<1>6. WayFits(d, q, t, p + 1, r)
  BY <1>1, <1>5, Collects
<1> QED BY <1>6 DEF t

(* Thinking that comes with the end is collected ahead of waiting text.    *)
LEMMA CollectsAhead ==
  ASSUME NEW d, NEW q, NEW t \in Seq(Nat), NEW x \in Seq(Nat), NEW p \in Nat, NEW r,
         WayFits(d, q, t \o x, p, r), r[p + 1] = "stopThink"
  PROVE  WayFits(d, q, Append(t, p + 1) \o x, p + 1, r)
<1> DEFINE n == p + 1
           s == t \o x
           w == Append(t, n)
           u == w \o x
           a == Len(t)
           b == Len(x)
<1>1. /\ a \in Nat /\ b \in Nat /\ w \in Seq(Nat) /\ Len(w) = a + 1
      /\ w[a + 1] = n /\ \A i \in 1..a : w[i] = t[i]
  BY LenProperties, AppendProperties
<1>2. ToSet(u) = ToSet(s) \cup {n}
  <2>1. ToSet(w) = ToSet(t) \cup {n}
    <3>1. n \in Nat
      OBVIOUS
    <3> HIDE DEF n
    <3> QED BY <3>1, ElementsAppend
  <2>2. ToSet(u) = ToSet(w) \cup ToSet(x)
    <3>1. w \in Seq(Nat) /\ x \in Seq(Nat)
      BY <1>1
    <3> HIDE DEF w
    <3> QED BY ONLY <3>1, ElementsJoin
  <2>3. ToSet(s) = ToSet(t) \cup ToSet(x)
    <3>1. t \in Seq(Nat) /\ x \in Seq(Nat)
      OBVIOUS
    <3> QED BY ONLY <3>1, ElementsJoin
  <2> QED BY <2>1, <2>2, <2>3
<1>3. /\ DOMAIN s = 1..(a + b)
      /\ \A i \in 1..(a + b) : s[i] = IF i <= a THEN t[i] ELSE x[i - a]
  <2>1. /\ s \in Seq(Nat) /\ Len(s) = a + b
        /\ \A i \in 1..(a + b) : s[i] = IF i <= a THEN t[i] ELSE x[i - a]
    BY ConcatProperties
  <2> QED BY <2>1, LenProperties
<1>4. /\ DOMAIN u = 1..(a + 1 + b)
      /\ \A i \in 1..(a + 1 + b) : u[i] = IF i <= a + 1 THEN w[i] ELSE x[i - (a + 1)]
  <2>1. /\ u \in Seq(Nat) /\ Len(u) = a + 1 + b
        /\ \A i \in 1..(a + 1 + b) : u[i] = IF i <= a + 1 THEN w[i] ELSE x[i - (a + 1)]
    BY <1>1, ConcatProperties
  <2> QED BY <2>1, LenProperties
<1>5. \A c \in ToSet(s) : c \in Nat /\ c < n
  BY DEF WayFits, KnownLines, Brings
<1> DEFINE Place(i) == IF i <= a THEN i ELSE i - 1
<1> HIDE DEF a, b, s, w, u
<1>6. ASSUME NEW i \in DOMAIN u, i # a + 1
      PROVE  Place(i) \in DOMAIN s /\ u[i] = s[Place(i)] /\ u[i] \in ToSet(s)
  <2>1. CASE i <= a
    <3>1. i \in 1..(a + b) /\ i \in 1..a /\ i <= a + 1 /\ Place(i) = i
      BY <1>1, <1>4, <2>1
    <3>2. u[i] = w[i] /\ w[i] = t[i] /\ s[i] = t[i]
      BY <1>1, <1>3, <1>4, <3>1
    <3> QED BY <1>3, <3>1, <3>2 DEF ToSet
  <2>2. CASE ~(i <= a)
    <3>1. i \in 1..(a + 1 + b) /\ a \in Nat /\ b \in Nat /\ i # a + 1
      BY <1>1, <1>4, <1>6
    <3>2. /\ i - 1 \in 1..(a + b) /\ ~(i - 1 <= a) /\ ~(i <= a + 1)
          /\ i - (a + 1) = (i - 1) - a
      BY ONLY <2>2, <3>1
    <3>3. u[i] = x[i - (a + 1)] /\ s[i - 1] = x[(i - 1) - a]
      BY <1>3, <1>4, <3>1, <3>2
    <3>4. u[i] = s[i - 1] /\ Place(i) = i - 1
      BY <2>2, <3>2, <3>3
    <3> QED BY <1>3, <3>2, <3>4 DEF ToSet
  <2> QED BY <2>1, <2>2
<1>7. a + 1 \in DOMAIN u => u[a + 1] = n
  BY <1>1, <1>4
<1>8. ASSUME NEW i \in DOMAIN u, NEW j \in DOMAIN u, i < j
      PROVE  u[i] # u[j] /\ (u[i] < u[j] \/ r[u[i]] = "stopThink")
  <2>1. CASE i = a + 1
    <3>1. u[i] = n /\ u[j] \in ToSet(s)
      BY <1>1, <1>4, <1>6, <1>7, <1>8, <2>1
    <3> QED BY <1>5, <3>1
  <2>2. CASE i # a + 1 /\ j = a + 1
    <3>1. u[j] = n /\ u[i] \in ToSet(s)
      BY <1>6, <1>7, <2>2
    <3> QED BY <1>5, <3>1
  <2>3. CASE i # a + 1 /\ j # a + 1
    <3>1. /\ Place(i) \in DOMAIN s /\ u[i] = s[Place(i)]
          /\ Place(j) \in DOMAIN s /\ u[j] = s[Place(j)]
      BY <1>6, <2>3
    <3>2. Place(i) < Place(j)
      BY <1>1, <1>4, <1>8, <2>3
    <3>3. InLineOrder(s, r)
      BY DEF WayFits, OrderKept, s
    <3> HIDE DEF Place
    <3> QED BY <3>1, <3>2, <3>3 DEF InLineOrder
  <2> QED BY <2>1, <2>2, <2>3
<1>9. InLineOrder(u, r)
  BY <1>8 DEF InLineOrder
<1>10. WayFits(d, q, u, p + 1, r)
  <2>1. WayFits(d, q, s, p, r)
    BY DEF s
  <2>2. r[p + 1] # "stop"
    OBVIOUS
  <2> QED BY <1>2, <1>9, <2>1, <2>2, Collects
<1> QED BY <1>10 DEF u, w

(* What is collected is sent on, if anything is.                           *)
LEMMA Flushes ==
  ASSUME NEW d, NEW q \in Seq(Chunk), NEW t \in Seq(Nat), NEW x \in Seq(Nat),
         NEW p \in Nat, NEW r, WayFits(d, q, t \o x, p, r)
  PROVE  WayFits(d, q \o Flushed(t, x), <<>>, p, r)
<1>1. CASE t \o x = <<>>
  <2>1. Flushed(t, x) = <<>> /\ q \o <<>> = q
    BY <1>1, ConcatEmptySeq DEF Flushed
  <2> QED BY <1>1, <2>1
<1>2. CASE t \o x # <<>>
  <2> DEFINE b == [lines |-> t \o x, stop |-> FALSE]
  <2>1. b \in Chunk /\ t \o x \in Seq(Nat)
    BY ConcatProperties DEF Chunk
  <2>2. Flushed(t, x) = <<b>>
    BY <1>2 DEF Flushed
  <2>3. WayFits(d, Append(q, b), <<>>, p, r)
    BY <2>1, Forwards
  <2>4. Append(q, b) = q \o <<b>>
    BY <2>1, AppendIsConcat
  <2> QED BY <2>2, <2>3, <2>4
<1> QED BY <1>1, <1>2

LEMMA FlushedType ==
  ASSUME NEW t \in Seq(Nat), NEW x \in Seq(Nat)
  PROVE  Flushed(t, x) \in Seq(Chunk)
<1>1. t \o x \in Seq(Nat)
  BY ConcatProperties
<1>2. [lines |-> t \o x, stop |-> FALSE] \in Chunk
  BY <1>1 DEF Chunk
<1> QED BY <1>2 DEF Flushed

LEMMA EndType == TheEnd \in Seq(Chunk)
<1>1. <<>> \in Seq(Nat)
  OBVIOUS
<1>2. [lines |-> <<>>, stop |-> TRUE] \in Chunk
  BY <1>1 DEF Chunk
<1> QED BY <1>2 DEF TheEnd

(* A further batch behind those that are being sent.                       *)
LEMMA BehindOthers ==
  ASSUME NEW S, NEW q \in Seq(S), NEW f \in Seq(S), NEW b \in S
  PROVE  q \o (f \o <<b>>) = Append(q \o f, b)
<1>1. q \o f \in Seq(S) /\ <<b>> \in Seq(S)
  BY ConcatProperties
<1>2. Append(q \o f, b) = (q \o f) \o <<b>>
  BY <1>1, AppendIsConcat
<1>3. (q \o f) \o <<b>> = q \o (f \o <<b>>)
  BY <1>1, ConcatAssociative
<1> QED BY <1>2, <1>3

(* The pump moves a batch into the channel.                                *)
LEMMA BatchMoves ==
  ASSUME NEW S, NEW q \in Seq(S), NEW f \in Seq(S), f # <<>>
  PROVE  Append(q, Head(f)) \o Tail(f) = q \o f
<1>1. Head(f) \in S /\ Tail(f) \in Seq(S)
  BY HeadTailProperties
<1>2. <<Head(f)>> \in Seq(S) /\ Append(q, Head(f)) = q \o <<Head(f)>>
  BY <1>1, AppendIsConcat
<1>3. (q \o <<Head(f)>>) \o Tail(f) = q \o (<<Head(f)>> \o Tail(f))
  BY <1>1, <1>2, ConcatAssociative
<1>4. <<Head(f)>> \o Tail(f) = f
  <2> DEFINE g == <<Head(f)>> \o Tail(f)
  <2>1. Len(f) \in Nat \ {0} /\ Head(f) = f[1]
    BY EmptySeq
  <2>2. Len(Tail(f)) = Len(f) - 1 /\ \A i \in 1..(Len(f) - 1) : Tail(f)[i] = f[i + 1]
    BY HeadTailProperties
  <2>3. /\ g \in Seq(S) /\ Len(g) = 1 + Len(Tail(f))
        /\ \A i \in 1..(1 + Len(Tail(f))) : g[i] = IF i <= 1 THEN f[1] ELSE Tail(f)[i - 1]
    <3>1. Len(<<Head(f)>>) = 1 /\ <<Head(f)>>[1] = f[1]
      BY <2>1
    <3>2. /\ g \in Seq(S) /\ Len(g) = Len(<<Head(f)>>) + Len(Tail(f))
          /\ \A i \in 1..(Len(<<Head(f)>>) + Len(Tail(f))) :
               g[i] = IF i <= Len(<<Head(f)>>) THEN <<Head(f)>>[i]
                      ELSE Tail(f)[i - Len(<<Head(f)>>)]
      BY <1>1, <1>2, ConcatProperties
    <3>3. \A i \in 1..(1 + Len(Tail(f))) : i <= 1 => i = 1
      OBVIOUS
    <3> HIDE DEF g
    <3> QED BY <3>1, <3>2, <3>3
  <2> HIDE DEF g
  <2>4. Len(g) = Len(f)
    BY <2>1, <2>2, <2>3
  <2>5. ASSUME NEW i \in 1..Len(g) PROVE g[i] = f[i]
    <3>1. CASE i = 1
      BY <2>1, <2>2, <2>3, <3>1
    <3>2. CASE i # 1
      <4>1. i - 1 \in 1..(Len(f) - 1) /\ ~(i <= 1) /\ (i - 1) + 1 = i
        BY <2>1, <2>4, <3>2
      <4> QED BY <2>2, <2>3, <2>5, <4>1
    <3> QED BY <3>1, <3>2
  <2>6. g = f
    BY <2>3, <2>4, <2>5, SeqEqual
  <2> QED BY <2>6 DEF g
<1> QED BY <1>2, <1>3, <1>4

(* The consumer takes the first batch of the channel.                      *)
LEMMA FirstTaken ==
  ASSUME NEW S, NEW q \in Seq(S), NEW f \in Seq(S), q # <<>>
  PROVE  /\ Head(q \o f) = Head(q) /\ Tail(q \o f) = Tail(q) \o f
         /\ q \o f \in Seq(S) /\ q \o f # <<>>
<1> DEFINE g == q \o f
           h == Tail(q) \o f
<1>1. Len(q) \in Nat \ {0} /\ Head(q) = q[1] /\ Len(f) \in Nat
  BY EmptySeq, LenProperties
<1>2. /\ Tail(q) \in Seq(S) /\ Len(Tail(q)) = Len(q) - 1
      /\ \A i \in 1..(Len(q) - 1) : Tail(q)[i] = q[i + 1]
  BY HeadTailProperties
<1>3. /\ g \in Seq(S) /\ Len(g) = Len(q) + Len(f)
      /\ \A i \in 1..(Len(q) + Len(f)) : g[i] = IF i <= Len(q) THEN q[i] ELSE f[i - Len(q)]
  BY ConcatProperties
<1>4. /\ h \in Seq(S) /\ Len(h) = Len(q) - 1 + Len(f)
      /\ \A i \in 1..(Len(q) - 1 + Len(f)) :
           h[i] = IF i <= Len(q) - 1 THEN Tail(q)[i] ELSE f[i - (Len(q) - 1)]
  BY <1>2, ConcatProperties
<1> HIDE DEF g, h
<1>5. g # <<>>
  <2>1. Len(g) # 0
    BY <1>1, <1>3
  <2> QED BY <2>1, EmptySeq
<1>6. Head(g) = q[1]
  <2>1. 1 \in 1..(Len(q) + Len(f)) /\ 1 <= Len(q)
    BY <1>1
  <2>2. Head(g) = g[1]
    BY <1>3, <1>5
  <2> QED BY <1>3, <2>1, <2>2
<1>7. /\ Tail(g) \in Seq(S) /\ Len(Tail(g)) = Len(g) - 1
      /\ \A i \in 1..Len(Tail(g)) : Tail(g)[i] = g[i + 1]
  BY <1>3, <1>5, HeadTailProperties
<1>8. Len(Tail(g)) = Len(h)
  BY <1>1, <1>3, <1>4, <1>7
<1>9. ASSUME NEW i \in 1..Len(Tail(g)) PROVE Tail(g)[i] = h[i]
  <2>1. Tail(g)[i] = g[i + 1] /\ i + 1 \in 1..(Len(q) + Len(f)) /\ i \in 1..(Len(q) - 1 + Len(f))
    BY <1>1, <1>3, <1>7, <1>9
  <2>2. CASE i <= Len(q) - 1
    <3>1. i \in 1..(Len(q) - 1) /\ i + 1 <= Len(q)
      BY <1>1, <2>1, <2>2
    <3> QED BY <1>2, <1>3, <1>4, <2>1, <2>2, <3>1
  <2>3. CASE ~(i <= Len(q) - 1)
    <3>1. ~(i + 1 <= Len(q)) /\ i + 1 - Len(q) = i - (Len(q) - 1)
      BY <1>1, <2>1, <2>3
    <3>2. g[i + 1] = f[i + 1 - Len(q)]
      BY <1>3, <2>1, <3>1
    <3>3. h[i] = f[i - (Len(q) - 1)]
      BY <1>4, <2>1, <2>3
    <3> QED BY <2>1, <3>1, <3>2, <3>3
  <2> QED BY <2>2, <2>3
<1>10. Tail(g) = h
  BY <1>4, <1>7, <1>8, <1>9, SeqEqual
<1> QED BY <1>1, <1>3, <1>5, <1>6, <1>10 DEF g, h


LEMMA StreamStart == PumpInit => StreamInv
<1> SUFFICES ASSUME PumpInit PROVE StreamInv
  OBVIOUS
<1> USE DEF PumpInit
<1>1. StreamTyped
  <2>1. <<>> \in Seq(Nat) /\ <<>> \in Seq(Kinds) /\ <<>> \in Seq(Chunk)
    BY EmptySeq
  <2> QED BY <2>1 DEF StreamTyped
<1>2. Processed = 0 /\ <<>> \o <<>> = <<>> /\ Len(<<>>) = 0
  BY DEF Processed
<1>3. DeliveredFits(<<>>, <<>>)
  BY NoElements DEF DeliveredFits
<1>4. WayFits(<<>>, <<>>, <<>>, 0, <<>>)
  <2>1. Brings(0, <<>>) = {} /\ DOMAIN <<>> = {}
    BY DEF Brings
  <2> QED BY <2>1, NoElements
      DEF WayFits, KnownLines, NothingLost, StagesInOrder, OrderKept, InLineOrder, EndsFit
<1>5. Flowing
  BY <1>2, <1>4 DEF Flowing, ScanFits, TerminalProcessed, PumpDrained
<1> QED BY <1>1, <1>3, <1>5 DEF StreamInv

(* Types.                                                                  *)
LEMMA ProcessTyped ==
  ASSUME StreamTyped, ProcessLine PROVE StreamTyped'
<1> DEFINE line == Head(scanCh)
           kind == read[line]
<1> USE DEF StreamTyped, ProcessLine
<1>1. line \in Nat /\ Tail(scanCh) \in Seq(Nat)
  BY HeadTailProperties
<1>2. /\ Append(thinking, line) \in Seq(Nat) /\ Append(text, line) \in Seq(Nat)
      /\ <<line>> \in Seq(Nat) /\ <<>> \in Seq(Nat)
  BY <1>1, AppendProperties
<1>3. <<>> \in Seq(Chunk) /\ TheEnd \in Seq(Chunk) /\ FlushesAll \in Seq(Chunk)
      /\ Flushed(thinking, Append(text, line)) \in Seq(Chunk)
      /\ Flushed(Append(thinking, line), text) \in Seq(Chunk)
  BY <1>2, EndType, FlushedType DEF FlushesAll
<1>4. <<[lines |-> <<line>>, stop |-> FALSE]>> \in Seq(Chunk)
  <2>1. [lines |-> <<line>>, stop |-> FALSE] \in Chunk
    BY <1>2 DEF Chunk
  <2> QED BY <2>1
<1>5. /\ scanCh' = Tail(scanCh) /\ UNCHANGED <<read, scan, scanErr, pumpErr, out, delivered>>
      /\ terminalSeen' = (terminalSeen \/ kind \in Stops)
      /\ \/ kind = "think" /\ AddThinking(line)
         \/ kind = "text" /\ AddText(line)
         \/ kind = "snapshot" /\ AddSnapshot(line)
         \/ kind \in Stops /\ Stop(line, kind)
  BY DEF scanVars, consumerVars
<1> HIDE DEF line, kind
<1>6. thinking' \in Seq(Nat) /\ text' \in Seq(Nat) /\ emit' \in Seq(Chunk)
  <2>1. CASE AddThinking(line)
    BY <1>2, <1>3, <2>1 DEF AddThinking, Buffers
  <2>2. CASE AddText(line)
    BY <1>2, <1>3, <2>2 DEF AddText, Buffers
  <2>3. CASE AddSnapshot(line)
    BY <1>2, <1>3, <1>4, <2>3, ConcatProperties DEF AddSnapshot, Buffers
  <2>4. CASE Stop(line, kind)
    <3>1. Flushed(thinking, text) \in Seq(Chunk)
      BY <1>3 DEF FlushesAll
    <3>2. Flushed(IF kind = "stopThink" THEN Append(thinking, line) ELSE thinking, text)
            \in Seq(Chunk)
      BY <1>3, <3>1
    <3> QED BY <1>2, <1>3, <2>4, <3>2, ConcatProperties DEF Stop, Buffers
  <2> QED BY <1>5, <2>1, <2>2, <2>3, <2>4
<1>7. terminalSeen' \in BOOLEAN
  BY <1>5
<1> QED BY <1>1, <1>5, <1>6, <1>7

LEMMA StreamTypes == StreamTyped /\ [StreamNext]_streamVars => StreamTyped'
<1> SUFFICES ASSUME StreamTyped, [StreamNext]_streamVars PROVE StreamTyped'
  OBVIOUS
<1> USE DEF StreamTyped, scanVars, pumpVars, consumerVars, bodyVars
<1>1. ASSUME NEW kind \in Kinds, ReadLine(kind) PROVE StreamTyped'
  BY <1>1, AppendProperties DEF ReadLine
<1>2. CASE SendLine
  <2>1. Len(read) \in Nat
    BY LenProperties
  <2> QED BY <1>2, <2>1, AppendProperties DEF SendLine
<1>3. CASE ScannerCancelled \/ BodyEnds \/ ReadFails
  BY <1>3 DEF ScannerCancelled, BodyEnds, ReadFails
<1>4. CASE ProcessLine
  BY <1>4, ProcessTyped
<1>5. CASE SendBatch
  BY <1>5, HeadTailProperties, AppendProperties DEF SendBatch
<1>6. CASE DropBatch
  BY <1>6, HeadTailProperties DEF DropBatch
<1>7. CASE LinesEnd \/ PumpCancelled \/ PumpReturns \/ Callback
  BY <1>7 DEF LinesEnd, PumpCancelled, PumpReturns, Callback, BodyCleanedUp
<1>8. CASE LastFlush \/ MaxWaitFlush
  <2>1. Flushed(thinking, text) \in Seq(Chunk) /\ <<>> \in Seq(Nat)
    BY FlushedType, EmptySeq
  <2> QED BY <1>8, <2>1 DEF LastFlush, MaxWaitFlush, Buffers, FlushesAll
<1>9. CASE OnParsed
  <2>1. Head(out) \in Chunk /\ Tail(out) \in Seq(Chunk)
    BY <1>9, HeadTailProperties DEF OnParsed
  <2>2. delivered \o Head(out).lines \in Seq(Nat)
    BY <2>1, ConcatProperties DEF Chunk
  <2> QED BY <1>9, <2>1, <2>2 DEF OnParsed
<1>10. CASE StreamEnds \/ KeepAliveTick \/ CallerLeaves \/ ContextDone
  BY <1>10 DEF StreamEnds, KeepAliveTick, CallerLeaves, ContextDone
<1>11. CASE UNCHANGED streamVars
  BY <1>11 DEF streamVars
<1> QED BY <1>1, <1>2, <1>3, <1>4, <1>5, <1>6, <1>7, <1>8, <1>9, <1>10, <1>11
    DEF StreamNext, ScannerSteps, PumpSteps

(* Lines that are not yet processed.                                       *)
LEMMA ProcessedBound ==
  ASSUME StreamTyped
  PROVE  Processed \in Int /\ Processed <= Len(read) /\ Len(read) \in Nat /\ Len(scanCh) \in Nat
BY LenProperties DEF StreamTyped, Processed

(* Once cancelled, a stream stays so.                                      *)
LEMMA CancelledStays == Cancelled /\ [StreamNext]_streamVars => Cancelled'
<1> SUFFICES ASSUME Cancelled, [StreamNext]_streamVars PROVE Cancelled'
  OBVIOUS
<1>1. CASE UNCHANGED <<gone, outcome>>
  BY <1>1 DEF Cancelled
<1>2. CASE OnParsed \/ StreamEnds \/ KeepAliveTick \/ CallerLeaves
  BY <1>2 DEF OnParsed, StreamEnds, KeepAliveTick, CallerLeaves, Cancelled
<1>3. CASE ContextDone
  BY <1>3 DEF ContextDone, Cancelled
<1> QED BY <1>1, <1>2, <1>3
    DEF StreamNext, ScannerSteps, PumpSteps, ReadLine, SendLine, ScannerCancelled, BodyEnds,
        ReadFails, ProcessLine, MaxWaitFlush, SendBatch, DropBatch, LinesEnd, PumpCancelled,
        LastFlush, PumpReturns, Callback, consumerVars, streamVars

(* The next line, and what the pump has then processed.                    *)
LEMMA NextLine ==
  ASSUME StreamTyped, ScanFits, scanCh # <<>>, scanCh' = Tail(scanCh), UNCHANGED <<read, scan>>
  PROVE  /\ Head(scanCh) = Processed + 1 /\ Processed' = Processed + 1
         /\ Processed + 1 \in 1..Len(read) /\ read[Processed + 1] \in Kinds
         /\ ScanFits'
<1> USE DEF StreamTyped
<1>1. /\ Len(scanCh) \in Nat \ {0} /\ Len(Tail(scanCh)) = Len(scanCh) - 1
      /\ Head(scanCh) = scanCh[1]
      /\ \A i \in 1..(Len(scanCh) - 1) : Tail(scanCh)[i] = scanCh[i + 1]
  BY EmptySeq, HeadTailProperties
<1>2. Processed \in Nat /\ \A i \in 1..Len(scanCh) : scanCh[i] = Processed + i
  BY DEF ScanFits
<1>3. 1 \in 1..Len(scanCh) /\ Head(scanCh) = Processed + 1
  BY <1>1, <1>2
<1>4. Len(read) \in Nat
  BY LenProperties
<1>5. Processed + 1 <= Len(read) /\ Processed' = Processed + 1
  BY <1>1, <1>2, <1>4 DEF Processed
<1>6. read[Processed + 1] \in Kinds
  BY <1>2, <1>4, <1>5, ElementOfSeq
<1>7. ASSUME NEW i \in 1..Len(scanCh') PROVE scanCh'[i] = Processed' + i
  <2>1. /\ i \in 1..(Len(scanCh) - 1) /\ i + 1 \in 1..Len(scanCh)
        /\ scanCh'[i] = scanCh[i + 1]
    BY <1>1, <1>7
  <2> QED BY <1>2, <1>5, <2>1
<1> QED BY <1>2, <1>3, <1>4, <1>5, <1>6, <1>7 DEF ScanFits

(* processLine: the line is collected, passed over or ends the answer, and *)
(* what it sends on goes behind what is on its way.                        *)
LEMMA ProcessFlows ==
  ASSUME StreamTyped, Flowing, ProcessLine
  PROVE  WayFits(delivered, out \o emit', thinking' \o text', Processed + 1, read)
<1> DEFINE p == Processed
           n == p + 1
           kind == read[n]
           Ahead(f, s) == WayFits(delivered, out \o f, s, n, read)
<1> USE DEF StreamTyped
<1>1. /\ emit = <<>> /\ scanCh # <<>> /\ scanCh' = Tail(scanCh)
      /\ UNCHANGED <<read, scan, out, delivered>>
  BY DEF ProcessLine, scanVars, consumerVars
<1>2. Head(scanCh) = n /\ p \in Nat /\ kind \in Kinds
  BY <1>1, NextLine DEF Flowing, ScanFits
<1>3. \/ kind = "think" /\ AddThinking(n)
      \/ kind = "text" /\ AddText(n)
      \/ kind = "snapshot" /\ AddSnapshot(n)
      \/ kind \in Stops /\ Stop(n, kind)
  BY <1>2 DEF ProcessLine
<1>4. out \o <<>> = out /\ WayFits(delivered, out, thinking \o text, p, read)
  BY <1>1, ConcatEmptySeq DEF Flowing
<1>5. <<n>> \in Seq(Nat) /\ n \in Nat /\ Append(thinking, n) \in Seq(Nat)
      /\ Append(text, n) \in Seq(Nat) /\ Append(<<>>, n) = <<n>>
      /\ thinking \o text \in Seq(Nat) /\ <<>> \in Seq(Nat) /\ n > 0
  BY <1>2, AppendProperties, ConcatProperties, EmptySeq
<1>6. WayFits(delivered, out \o FlushesAll, <<>>, p, read)
  BY <1>2, <1>4, Flushes DEF FlushesAll
<1>7. /\ \A s \in Seq(Nat) : s \o <<>> = s /\ <<>> \o s = s
      /\ FlushesAll \in Seq(Chunk) /\ out \o FlushesAll \in Seq(Chunk)
  BY ConcatEmptySeq, FlushedType, ConcatProperties DEF FlushesAll
<1> HIDE DEF p, n, kind
<1>8. ASSUME kind # "stop"
      PROVE  Ahead(FlushesAll, <<n>>)
  <2>1. WayFits(delivered, out \o FlushesAll, Append(<<>>, n), n, read)
    BY <1>2, <1>5, <1>6, <1>8, CollectsLast DEF n, kind
  <2> QED BY <1>5, <2>1
<1>9. ASSUME kind # "stop"
      PROVE  Ahead(<<>>, Append(thinking \o text, n))
  BY <1>2, <1>4, <1>5, <1>9, CollectsLast DEF n, kind
<1>10. CASE kind = "think" /\ AddThinking(n)
  <2>1. CASE text = <<>>
    <3>1. thinking' = Append(thinking, n) /\ text' = <<>> /\ emit' = <<>>
      BY <1>10, <2>1 DEF AddThinking, Buffers
    <3>2. thinking' \o text' = Append(thinking \o text, n)
      BY <1>5, <1>7, <2>1, <3>1
    <3> QED BY <1>9, <1>10, <3>1, <3>2 DEF n, p
  <2>2. CASE text # <<>>
    <3>1. thinking' = <<n>> /\ text' = <<>> /\ emit' = FlushesAll
      BY <1>10, <2>2 DEF AddThinking, Buffers
    <3>2. thinking' \o text' = <<n>>
      BY <1>5, <1>7, <3>1
    <3> QED BY <1>8, <1>10, <3>1, <3>2 DEF n, p
  <2> QED BY <2>1, <2>2
<1>11. thinking \o Append(text, n) = Append(thinking \o text, n)
  <2>1. thinking \in Seq(Nat) /\ text \in Seq(Nat) /\ n \in Nat
    BY <1>5
  <2>2. Append(text, n) = text \o <<n>>
    BY ONLY <2>1, AppendIsConcat
  <2>3. thinking \o (text \o <<n>>) = Append(thinking \o text, n)
    BY ONLY <2>1, BehindOthers
  <2> QED BY <2>2, <2>3
<1>12. CASE kind = "text" /\ AddText(n)
  <2>1. Ahead(<<>>, thinking \o Append(text, n))
    BY <1>9, <1>11, <1>12
  <2>2. CASE Buffers(thinking, Append(text, n)) /\ emit' = <<>>
    BY <2>1, <2>2 DEF Buffers, n, p
  <2>3. CASE Buffers(<<>>, <<>>) /\ emit' = Flushed(thinking, Append(text, n))
    <3>1. WayFits(delivered, out, thinking \o Append(text, n), n, read)
      BY <1>4, <2>1
    <3>2. Ahead(Flushed(thinking, Append(text, n)), <<>>)
      BY <1>5, <3>1, Flushes
    <3>3. thinking' \o text' = <<>>
      BY <1>5, <1>7, <2>3 DEF Buffers
    <3> QED BY <2>3, <3>2, <3>3 DEF n, p
  <2> QED BY <1>12, <2>2, <2>3 DEF AddText
<1>13. CASE kind = "snapshot" /\ AddSnapshot(n)
  <2> DEFINE b == [lines |-> <<n>>, stop |-> FALSE]
  <2>1. b \in Chunk
    BY <1>5 DEF Chunk
  <2>2. WayFits(delivered, Append(out \o FlushesAll, b), <<>>, n, read)
    BY <1>5, <1>7, <1>8, <1>13, Forwards
  <2>3. emit' = FlushesAll \o <<b>> /\ thinking' = <<>> /\ text' = <<>>
    BY <1>13 DEF AddSnapshot, Buffers
  <2> HIDE DEF b
  <2>4. out \o emit' = Append(out \o FlushesAll, b)
    <3>1. out \in Seq(Chunk) /\ FlushesAll \in Seq(Chunk)
      BY <1>7
    <3>2. out \o (FlushesAll \o <<b>>) = Append(out \o FlushesAll, b)
      BY ONLY <2>1, <3>1, BehindOthers
    <3> QED BY <2>3, <3>2
  <2>5. thinking' \o text' = <<>>
    BY <1>5, <1>7, <2>3
  <2> QED BY <2>2, <2>4, <2>5 DEF n, p
<1>14. CASE kind \in Stops /\ Stop(n, kind)
  <2> DEFINE t == IF kind = "stopThink" THEN Append(thinking, n) ELSE thinking
             b == [lines |-> <<>>, stop |-> TRUE]
  <2>1. t \in Seq(Nat) /\ b \in Chunk
    BY <1>5 DEF Chunk
  <2>2. WayFits(delivered, out, t \o text, n, read)
    <3>1. CASE kind = "stopThink"
      BY <1>2, <1>4, <3>1, CollectsAhead DEF n, kind
    <3>2. CASE kind = "stop"
      BY <1>2, <1>4, <3>2, PassesOver DEF n, kind
    <3> QED BY <1>14, <3>1, <3>2 DEF Stops
  <2>3. emit' = Flushed(t, text) \o TheEnd /\ thinking' = <<>> /\ text' = <<>>
    BY <1>14 DEF Stop, Buffers
  <2>4. TheEnd = <<b>>
    BY DEF TheEnd
  <2> HIDE DEF t
  <2>5. WayFits(delivered, out \o Flushed(t, text), <<>>, n, read)
    BY <1>5, <2>1, <2>2, Flushes
  <2>6. Flushed(t, text) \in Seq(Chunk) /\ out \o Flushed(t, text) \in Seq(Chunk)
    BY <2>1, FlushedType, ConcatProperties
  <2>7. WayFits(delivered, Append(out \o Flushed(t, text), b), <<>>, n, read)
    BY <1>5, <1>14, <2>5, <2>6, AnswerEnds DEF kind
  <2> HIDE DEF b
  <2>8. out \o emit' = Append(out \o Flushed(t, text), b)
    <3>1. out \in Seq(Chunk) /\ Flushed(t, text) \in Seq(Chunk) /\ b \in Chunk
      BY <2>1, <2>6
    <3>2. out \o (Flushed(t, text) \o <<b>>) = Append(out \o Flushed(t, text), b)
      BY ONLY <3>1, BehindOthers
    <3> QED BY <2>3, <2>4, <3>2
  <2>9. thinking' \o text' = <<>>
    BY <1>5, <1>7, <2>3
  <2> QED BY <2>7, <2>8, <2>9 DEF n, p
<1> QED BY <1>3, <1>10, <1>12, <1>13, <1>14

(* A stream that is not cancelled flows on.                                *)
LEMMA FlowKept ==
  ASSUME StreamInv, [StreamNext]_streamVars, ~Cancelled'
  PROVE  Flowing'
<1>1. ~Cancelled /\ Flowing
  BY CancelledStays DEF StreamInv
<1>2. StreamTyped /\ Processed \in Nat /\ Processed <= Len(read)
  BY <1>1, ProcessedBound DEF StreamInv, Flowing, ScanFits
<1>3. out \o emit \in Seq(Chunk) /\ thinking \o text \in Seq(Nat) /\ <<>> \in Seq(Chunk)
  BY <1>2, ConcatProperties, EmptySeq DEF StreamTyped
<1>4. ScanFits /\ TerminalProcessed /\ PumpDrained
      /\ WayFits(delivered, out \o emit, thinking \o text, Processed, read)
  BY <1>1 DEF Flowing
<1> USE DEF scanVars, pumpVars, consumerVars, bodyVars
<1>5. ASSUME UNCHANGED <<read, scanCh, terminalSeen, delivered, out, emit, thinking, text>>,
             Processed' = Processed, PumpDrained'
      PROVE  Flowing'
  BY <1>4, <1>5 DEF Flowing, ScanFits, TerminalProcessed
<1>6. ASSUME NEW kind \in Kinds, ReadLine(kind) PROVE Flowing'
  <2>1. /\ read \in Seq(Kinds) /\ Len(read) \in Nat /\ Len(scanCh) \in Nat
        /\ read' = Append(read, kind) /\ scan = "reading" /\ scan' = "sending"
        /\ UNCHANGED <<scanCh, thinking, text, emit, out, pump, terminalSeen, delivered>>
    BY <1>2, <1>6, ProcessedBound DEF ReadLine, StreamTyped
  <2>2. Len(read') = Len(read) + 1 /\ \A k \in 1..Len(read) : read'[k] = read[k]
    BY <2>1, AppendProperties
  <2>3. Processed' = Processed
    BY <2>1, <2>2 DEF Processed
  <2>4. WayFits(delivered, out \o emit, thinking \o text, Processed, read')
    <3>1. delivered \in Seq(Nat)
      BY <1>2 DEF StreamTyped
    <3> QED BY <1>2, <1>3, <1>4, <2>1, <3>1, ReadGrows
  <2>5. TerminalProcessed'
    <3>1. \A e \in 1..Processed : read'[e] = read[e]
      BY <1>2, <2>1, <2>2
    <3> QED BY <1>4, <2>1, <2>3, <3>1 DEF TerminalProcessed
  <2>6. ScanFits' /\ PumpDrained'
    BY <1>4, <2>1, <2>3 DEF ScanFits, PumpDrained
  <2> QED BY <2>1, <2>3, <2>4, <2>5, <2>6 DEF Flowing
<1>7. CASE SendLine
  <2>1. /\ scanCh \in Seq(Nat) /\ Len(read) \in Nat /\ Len(scanCh) \in Nat
        /\ scanCh' = Append(scanCh, Len(read)) /\ scan = "sending" /\ scan' = "reading"
        /\ UNCHANGED <<read, thinking, text, emit, out, pump, terminalSeen, delivered>>
    BY <1>2, <1>7, ProcessedBound DEF SendLine, StreamTyped
  <2>2. /\ Len(scanCh') = Len(scanCh) + 1 /\ scanCh'[Len(scanCh) + 1] = Len(read)
        /\ \A i \in 1..Len(scanCh) : scanCh'[i] = scanCh[i]
    BY <2>1, AppendProperties
  <2>3. Processed' = Processed /\ Len(read) = Processed + (Len(scanCh) + 1)
    BY <2>1, <2>2 DEF Processed
  <2>4. ScanFits'
    <3>1. ASSUME NEW i \in 1..Len(scanCh') PROVE scanCh'[i] = Processed + i
      <4>1. i \in 1..Len(scanCh) \/ i = Len(scanCh) + 1
        BY <2>1, <2>2, <3>1
      <4> QED BY <1>4, <2>2, <2>3, <4>1 DEF ScanFits
    <3> QED BY <1>2, <2>3, <3>1 DEF ScanFits
  <2>5. TerminalProcessed' /\ PumpDrained'
    BY <1>4, <2>1, <2>3 DEF TerminalProcessed, PumpDrained
  <2> QED BY <1>4, <2>1, <2>3, <2>4, <2>5 DEF Flowing
<1>8. CASE BodyEnds \/ ReadFails
  <2>1. UNCHANGED <<read, scanCh, terminalSeen, delivered, out, emit, thinking, text, pump>>
        /\ scan = "reading" /\ scan' = "closed"
    BY <1>8 DEF BodyEnds, ReadFails
  <2>2. Processed' = Processed
    BY <2>1 DEF Processed
  <2>3. PumpDrained'
    BY <1>4, <2>1 DEF PumpDrained
  <2> QED BY <1>5, <2>1, <2>2, <2>3
<1>9. CASE ProcessLine
  <2>1. /\ scanCh # <<>> /\ scanCh' = Tail(scanCh) /\ pump = "loop"
        /\ terminalSeen' = (terminalSeen \/ read[Head(scanCh)] \in Stops)
        /\ UNCHANGED <<read, scan, pump, out, delivered>>
    BY <1>9 DEF ProcessLine
  <2>2. /\ Head(scanCh) = Processed + 1 /\ Processed' = Processed + 1 /\ ScanFits'
    BY <1>2, <1>4, <2>1, NextLine
  <2>3. WayFits(delivered, out \o emit', thinking' \o text', Processed + 1, read)
    BY <1>1, <1>2, <1>9, ProcessFlows
  <2>4. TerminalProcessed'
    <3>1. Processed + 1 \in 1..(Processed + 1)
          /\ \A e \in 1..Processed : e \in 1..(Processed + 1)
      BY <1>2
    <3> QED BY <1>4, <2>1, <2>2, <3>1 DEF TerminalProcessed
  <2>5. PumpDrained'
    BY <2>1 DEF PumpDrained
  <2> QED BY <2>1, <2>2, <2>3, <2>4, <2>5 DEF Flowing
<1>10. CASE SendBatch
  <2>1. /\ emit # <<>> /\ out' = Append(out, Head(emit)) /\ emit' = Tail(emit)
        /\ UNCHANGED <<read, scan, scanCh, thinking, text, pump, terminalSeen, delivered>>
    BY <1>10 DEF SendBatch
  <2>2. out' \o emit' = out \o emit
    <3>1. out \in Seq(Chunk) /\ emit \in Seq(Chunk)
      BY <1>2 DEF StreamTyped
    <3> QED BY <2>1, <3>1, BatchMoves
  <2>3. Processed' = Processed
    BY <2>1 DEF Processed
  <2>4. PumpDrained'
    BY <1>4, <2>1 DEF PumpDrained
  <2> QED BY <1>4, <2>1, <2>2, <2>3, <2>4 DEF Flowing, ScanFits, TerminalProcessed
<1>11. CASE LinesEnd \/ PumpReturns
  <2>1. UNCHANGED <<read, scan, scanCh, terminalSeen, delivered, out, emit, thinking, text>>
        /\ emit = <<>> /\ (pump' = "done" \/ (pump = "closing" /\ pump' = "over"))
    <3>1. CASE LinesEnd
      BY <3>1 DEF LinesEnd
    <3>2. CASE PumpReturns
      BY <3>2 DEF PumpReturns
    <3> QED BY <1>11, <3>1, <3>2
  <2>2. Processed' = Processed
    BY <2>1 DEF Processed
  <2>3. PumpDrained'
    BY <1>4, <2>1 DEF PumpDrained
  <2> QED BY <1>5, <2>1, <2>2, <2>3
<1>12. CASE MaxWaitFlush \/ LastFlush
  <2>1. /\ emit = <<>> /\ emit' = FlushesAll /\ thinking' = <<>> /\ text' = <<>>
        /\ UNCHANGED <<read, scan, scanCh, terminalSeen, delivered, out>>
        /\ pump' \in {"loop", "closing"}
    BY <1>4, <1>12 DEF MaxWaitFlush, LastFlush, Buffers, PumpDrained
  <2>2. out \in Seq(Chunk) /\ thinking \in Seq(Nat) /\ text \in Seq(Nat)
    BY <1>2 DEF StreamTyped
  <2>3. WayFits(delivered, out, thinking \o text, Processed, read)
    BY <1>4, <2>1, <2>2, ConcatEmptySeq
  <2>4. WayFits(delivered, out \o FlushesAll, <<>>, Processed, read)
    BY <1>2, <2>2, <2>3, Flushes DEF FlushesAll
  <2>5. <<>> \o <<>> = <<>>
    OBVIOUS
  <2>6. Processed' = Processed
    BY <2>1 DEF Processed
  <2>7. PumpDrained'
    BY <2>1 DEF PumpDrained
  <2> QED BY <1>4, <2>1, <2>4, <2>5, <2>6, <2>7 DEF Flowing, ScanFits, TerminalProcessed
<1>13. CASE OnParsed
  <2>1. /\ out # <<>> /\ out' = Tail(out) /\ delivered' = delivered \o Head(out).lines
        /\ UNCHANGED <<read, scan, scanCh, thinking, text, emit, pump, terminalSeen>>
    BY <1>13 DEF OnParsed
  <2>2. out \in Seq(Chunk) /\ emit \in Seq(Chunk) /\ delivered \in Seq(Nat)
    BY <1>2 DEF StreamTyped
  <2>3. /\ Head(out \o emit) = Head(out) /\ Tail(out \o emit) = Tail(out) \o emit
        /\ out \o emit # <<>>
    BY <2>1, <2>2, FirstTaken
  <2>4. WayFits(delivered', out' \o emit', thinking \o text, Processed, read)
    BY <1>2, <1>3, <1>4, <2>1, <2>2, <2>3, Delivers
  <2>5. Processed' = Processed
    BY <2>1 DEF Processed
  <2>6. PumpDrained'
    BY <1>4, <2>1 DEF PumpDrained
  <2> QED BY <1>4, <2>1, <2>4, <2>5, <2>6 DEF Flowing, ScanFits, TerminalProcessed
<1>14. CASE Callback \/ UNCHANGED streamVars
  <2>1. UNCHANGED <<read, scan, scanCh, terminalSeen, delivered, out, emit, thinking, text, pump>>
    BY <1>14 DEF Callback, streamVars
  <2>2. Processed' = Processed
    BY <2>1 DEF Processed
  <2>3. PumpDrained'
    BY <1>4, <2>1 DEF PumpDrained
  <2> QED BY <1>5, <2>1, <2>2, <2>3
<1>15. ~(ScannerCancelled \/ DropBatch \/ PumpCancelled)
  BY <1>1 DEF ScannerCancelled, DropBatch, PumpCancelled
<1>16. ~(StreamEnds \/ KeepAliveTick \/ CallerLeaves \/ ContextDone)
  <2>1. ~gone' /\ outcome' = "none"
    BY DEF Cancelled
  <2> QED BY <2>1 DEF StreamEnds, KeepAliveTick, CallerLeaves, ContextDone, Finalize
<1> QED BY <1>6, <1>7, <1>8, <1>9, <1>10, <1>11, <1>12, <1>13, <1>14, <1>15, <1>16
    DEF StreamNext, ScannerSteps, PumpSteps

(* What is delivered stays in order, and whole once the answer has ended.  *)
LEMMA DeliveryKept ==
  ASSUME StreamInv, [StreamNext]_streamVars
  PROVE  /\ DeliveredFits(delivered, read)'
         /\ AnswerWhole(delivered, read) => AnswerWhole(delivered, read)'
<1>1. StreamTyped /\ DeliveredFits(delivered, read)
  BY DEF StreamInv
<1>2. /\ delivered \in Seq(Nat) /\ read \in Seq(Kinds)
      /\ out \in Seq(Chunk) /\ emit \in Seq(Chunk) /\ Len(read) \in Nat
  BY <1>1, LenProperties DEF StreamTyped
<1> USE DEF scanVars, pumpVars, consumerVars, bodyVars
<1>3. ASSUME NEW kind \in Kinds, ReadLine(kind)
      PROVE  /\ DeliveredFits(delivered, read)'
             /\ AnswerWhole(delivered, read) => AnswerWhole(delivered, read)'
  <2>1. read' = Append(read, kind) /\ delivered' = delivered
    BY <1>3 DEF ReadLine
  <2>2. DeliveredFits(delivered, read)'
    <3>1. DeliveredFits(delivered, Append(read, kind))
      <4>1. <<>> \in Seq(Chunk) /\ <<>> \in Seq(Nat) /\ 0 \in Nat
        BY EmptySeq
      <4> QED BY <1>1, <1>2, <4>1, ReadGrows
    <3> QED BY <2>1, <3>1
  <2>3. Len(read') = Len(read) + 1 /\ \A k \in 1..Len(read) : read'[k] = read[k]
    BY <1>2, <2>1, AppendProperties
  <2>4. ASSUME AnswerWhole(delivered, read) PROVE AnswerWhole(delivered', read')
    <3>1. PICK e \in 1..Len(read) :
            read[e] \in Stops /\ Brings(e, read) \subseteq ToSet(delivered)
      BY <2>4 DEF AnswerWhole
    <3>2. e \in 1..Len(read') /\ \A k \in 1..e : k \in 1..Len(read)
      BY <1>2, <2>3
    <3>3. read'[e] = read[e] /\ Brings(e, read') = Brings(e, read)
      BY <2>3, <3>2 DEF Brings
    <3> QED BY <2>1, <3>1, <3>2, <3>3 DEF AnswerWhole
  <2> QED BY <2>2, <2>4
<1>4. CASE OnParsed
  <2>1. /\ ~Cancelled /\ out # <<>> /\ delivered' = delivered \o Head(out).lines
        /\ read' = read
    BY <1>4 DEF OnParsed, Cancelled
  <2>2. WayFits(delivered, out \o emit, thinking \o text, Processed, read)
        /\ Processed \in Nat /\ Processed <= Len(read)
    BY <1>1, <2>1, ProcessedBound DEF StreamInv, Flowing, ScanFits
  <2>3. /\ Head(out \o emit) = Head(out) /\ out \o emit \in Seq(Chunk)
        /\ out \o emit # <<>>
    BY <1>2, <2>1, FirstTaken
  <2>4. DeliveredFits(delivered \o Head(out).lines, read)
    BY <1>1, <1>2, <2>2, <2>3, DeliveredGrows
  <2>5. ToSet(delivered) \subseteq ToSet(delivered')
    <3>1. Head(out) \in Chunk
      BY <1>2, <2>1, HeadTailProperties
    <3>2. Head(out).lines \in Seq(Nat)
      BY <3>1 DEF Chunk
    <3> QED BY <1>2, <2>1, <3>2, ElementsJoin
  <2> QED BY <2>1, <2>4, <2>5 DEF AnswerWhole
<1>5. CASE UNCHANGED <<read, delivered>>
  BY <1>1, <1>5
<1> QED BY <1>3, <1>4, <1>5
    DEF StreamNext, ScannerSteps, PumpSteps, SendLine, ScannerCancelled, BodyEnds,
        ReadFails, ProcessLine, MaxWaitFlush, SendBatch, DropBatch, LinesEnd, PumpCancelled,
        LastFlush, PumpReturns, Callback, StreamEnds, KeepAliveTick, CallerLeaves,
        ContextDone, streamVars

(* A batch that ends the answer comes after all of it.                     *)
LEMMA EndIsWhole ==
  ASSUME StreamInv, OnParsed, Head(out).stop
  PROVE  AnswerWhole(delivered, read)
<1>1. StreamTyped /\ ~Cancelled /\ out # <<>>
  BY DEF StreamInv, OnParsed, Cancelled
<1>2. EndsFit(delivered, out \o emit, Processed, read)
      /\ Processed \in Nat /\ Processed <= Len(read) /\ Len(read) \in Nat
  BY <1>1, ProcessedBound DEF StreamInv, Flowing, ScanFits, WayFits
<1> DEFINE q == out \o emit
<1>3. q \in Seq(Chunk) /\ q # <<>> /\ Head(q) = Head(out)
  BY <1>1, FirstTaken DEF StreamTyped
<1>4. EndsFit(delivered, q, Processed, read)
  BY <1>2
<1> HIDE DEF q
<1>5. 1 \in DOMAIN q /\ q[1].stop /\ \A i \in DOMAIN q : ~(i < 1)
  <2>1. Len(q) \in Nat \ {0} /\ DOMAIN q = 1..Len(q) /\ Head(q) = q[1]
    BY <1>3, EmptySeq, LenProperties
  <2> QED BY <1>3, <2>1
<1>6. PICK e \in 1..Processed :
        /\ read[e] \in Stops
        /\ \A k \in Brings(e, read) :
             k \in ToSet(delivered) \/ \E i \in DOMAIN q : i < 1 /\ k \in ToSet(q[i].lines)
  BY <1>4, <1>5 DEF EndsFit
<1>7. e \in 1..Len(read)
  BY <1>2
<1> QED BY <1>5, <1>6, <1>7 DEF AnswerWhole

(* A stream that its pump ends well has nothing left on the way.           *)
LEMMA CompletedIsWhole ==
  ASSUME StreamInv, StreamEnds, report = "ok"
  PROVE  AnswerWhole(delivered, read)
<1>1. StreamTyped /\ ~Cancelled /\ out = <<>> /\ pump = "over" /\ terminalSeen
  BY DEF StreamInv, StreamEnds, Cancelled
<1>2. Flowing /\ Processed \in Nat /\ Processed <= Len(read) /\ Len(read) \in Nat
  BY <1>1, ProcessedBound DEF StreamInv, Flowing, ScanFits
<1>3. out \o emit = <<>> /\ thinking \o text = <<>>
  BY <1>1, <1>2 DEF Flowing, PumpDrained
<1>4. NothingLost(delivered, <<>>, <<>>, Processed, read)
  BY <1>2, <1>3 DEF Flowing, WayFits
<1>5. \A k \in Brings(Processed, read) : k \in ToSet(delivered)
  BY <1>4, NoElements DEF NothingLost
<1>6. PICK e \in 1..Processed : read[e] \in Stops
  BY <1>1, <1>2 DEF Flowing, TerminalProcessed
<1>7. e \in 1..Len(read) /\ Brings(e, read) \subseteq Brings(Processed, read)
  BY <1>2 DEF Brings
<1> QED BY <1>5, <1>6, <1>7 DEF AnswerWhole

LEMMA StreamKept == StreamInv /\ [StreamNext]_streamVars => StreamInv'
<1> SUFFICES ASSUME StreamInv, [StreamNext]_streamVars PROVE StreamInv'
  OBVIOUS
<1>1. StreamTyped' /\ DeliveredFits(delivered, read)' /\ (~Cancelled' => Flowing')
  BY StreamTypes, DeliveryKept, FlowKept DEF StreamInv
<1> USE DEF scanVars, pumpVars, consumerVars, bodyVars
<1>2. report' = "ok" => terminalSeen'
  <2>1. CASE PumpReturns
    BY <2>1 DEF PumpReturns, StreamInv, StreamTyped
  <2>2. CASE ProcessLine
    BY <2>2 DEF ProcessLine, StreamInv
  <2>3. CASE UNCHANGED <<report, terminalSeen>>
    BY <2>3 DEF StreamInv
  <2> QED BY <2>1, <2>2, <2>3
      DEF StreamNext, ScannerSteps, PumpSteps, ReadLine, SendLine, ScannerCancelled, BodyEnds,
          ReadFails, MaxWaitFlush, SendBatch, DropBatch, LinesEnd, PumpCancelled, LastFlush,
          Callback, OnParsed, StreamEnds, KeepAliveTick, CallerLeaves, ContextDone, streamVars
<1>3. outcome' \in {"stopped", "completed"} => AnswerWhole(delivered, read)'
  <2>1. CASE OnParsed
    BY <2>1, EndIsWhole, DeliveryKept DEF OnParsed, Finalize, StreamInv
  <2>2. CASE StreamEnds
    BY <2>2, CompletedIsWhole, DeliveryKept DEF StreamEnds, Finalize, StreamInv
  <2>3. CASE KeepAliveTick \/ CallerLeaves \/ ContextDone
    BY <2>3, DeliveryKept DEF KeepAliveTick, CallerLeaves, ContextDone, Finalize, StreamInv
  <2>4. CASE UNCHANGED outcome
    BY <2>4, DeliveryKept DEF StreamInv
  <2> QED BY <2>1, <2>2, <2>3, <2>4
      DEF StreamNext, ScannerSteps, PumpSteps, ReadLine, SendLine, ScannerCancelled, BodyEnds,
          ReadFails, ProcessLine, MaxWaitFlush, SendBatch, DropBatch, LinesEnd, PumpCancelled,
          LastFlush, PumpReturns, Callback, streamVars
<1> QED BY <1>1, <1>2, <1>3 DEF StreamInv

(* In the words of the property.                                           *)
LEMMA StreamInvFaithful == StreamInv => StreamFaithful
<1> SUFFICES ASSUME StreamInv PROVE StreamFaithful
  OBVIOUS
<1>1. DeliveredFits(delivered, read)
      /\ (outcome \in {"stopped", "completed"} => AnswerWhole(delivered, read))
  BY DEF StreamInv
<1>2. /\ delivered \in Seq(Nat) /\ Len(read) \in Nat /\ DOMAIN read = 1..Len(read)
      /\ Len(delivered) \in Nat /\ DOMAIN delivered = 1..Len(delivered)
  BY LenProperties DEF StreamInv, StreamTyped
<1>3. Content = Brings(Len(read), read)
  BY <1>2 DEF Content, Brings
<1>4. IsInjective(delivered)
  <2>1. ASSUME NEW i \in DOMAIN delivered, NEW j \in DOMAIN delivered,
               delivered[i] = delivered[j]
        PROVE  i = j
    <3>1. ~(i < j) /\ ~(j < i)
      BY <1>1, <2>1 DEF DeliveredFits
    <3> QED BY <1>2, <3>1
  <2> QED BY <2>1 DEF IsInjective
<1>5. ASSUME NEW i \in DOMAIN delivered, read[delivered[i]] # "stopThink",
             NEW k \in Content, k < delivered[i]
      PROVE  k \in ToSet(SubSeq(delivered, 1, i))
  <2>1. PICK j \in 1..i : delivered[j] = k
    BY <1>1, <1>3, <1>5 DEF DeliveredFits
  <2> DEFINE s == SubSeq(delivered, 1, i)
  <2>2. s \in Seq(Nat) /\ Len(s) = i /\ \A m \in 1..i : s[m] = delivered[m]
    <3>1. i \in Nat /\ 1 <= i /\ \A m \in 1..i : delivered[m] \in Nat
      BY <1>2, ElementOfSeq
    <3>2. /\ s \in Seq(Nat) /\ Len(s) = IF 1 <= i THEN i - 1 + 1 ELSE 0
          /\ \A m \in 1..(i - 1 + 1) : s[m] = delivered[1 + m - 1]
      BY <3>1, SubSeqProperties
    <3> QED BY <3>1, <3>2
  <2>3. DOMAIN s = 1..i
    BY <2>2, LenProperties
  <2> QED BY <2>1, <2>2, <2>3 DEF ToSet
<1>6. ASSUME outcome \in {"stopped", "completed"}
      PROVE  \E end \in Terminals : \A k \in Content : k <= end => k \in ToSet(delivered)
  <2>1. PICK e \in 1..Len(read) :
          read[e] \in Stops /\ Brings(e, read) \subseteq ToSet(delivered)
    BY <1>1, <1>6 DEF AnswerWhole
  <2>2. e \in Terminals
    BY <1>2, <2>1 DEF Terminals
  <2>3. \A k \in Content : k <= e => k \in Brings(e, read)
    BY <1>2 DEF Content, Brings
  <2> QED BY <2>1, <2>2, <2>3
<1> QED BY <1>1, <1>3, <1>4, <1>5, <1>6 DEF StreamFaithful, DeliveredFits

(* The hooks get the content in upstream's order, nothing twice and        *)
(* nothing missing in between, and a stream that counts as ended has its   *)
(* whole answer delivered, however many lines and batches are on the way   *)
(* and whenever the context ends.                                          *)
THEOREM StreamFaithfulHolds == StreamSpec => []StreamFaithful
<1>1. StreamInv => StreamFaithful
  BY StreamInvFaithful
<1> QED BY <1>1, StreamStart, StreamKept, PTL DEF StreamSpec

(***************************************************************************)
(* The bounds, which StreamInv leaves open: a line is in one place at a    *)
(* time, so that what is on its way to a batch is no more than was read.   *)
(***************************************************************************)
Numbers == 1..MaxLines
OnTheWay ==
  Len(scanCh) + Len(thinking) + Len(text) + (IF scan = "sending" THEN 1 ELSE 0)

LinesBounded ==
  /\ scanCh \in Seq(Numbers) /\ thinking \in Seq(Numbers) /\ text \in Seq(Numbers)
  /\ delivered \in Seq(Numbers) /\ emit \in Seq(Batches) /\ out \in Seq(Batches)
  /\ OnTheWay <= Len(read) /\ Len(read) <= MaxLines
  /\ Len(scanCh) <= ChanCap /\ Len(out) <= ChanCap
PumpPlaced ==
  /\ pump \in {"loop", "done", "closing", "over"}
  /\ report \in {"none", "ok", "failed", "limit", "unexpected EOF"}
  /\ body \in {"open", "closed"} /\ callback \in {"armed", "stopped"}
  /\ gone \in BOOLEAN /\ outcome \in Outcomes
StreamBounded == LinesBounded /\ PumpPlaced

LEMMA ShortSeq ==
  ASSUME NEW S, NEW n \in Nat, NEW s \in Seq(S), Len(s) <= n
  PROVE  s \in SeqOf(S, n)
<1>1. s \in [1..Len(s) -> S] /\ Len(s) \in 0..n
  BY LenProperties
<1>2. [1..Len(s) -> S] \in {[1..m -> S] : m \in 0..n}
  BY <1>1
<1> QED BY <1>1, <1>2 DEF SeqOf

LEMMA BoundedIsSeq ==
  ASSUME NEW S, NEW n \in Nat, NEW s \in SeqOf(S, n)
  PROVE  s \in Seq(S)
<1>1. PICK m \in 0..n : s \in [1..m -> S]
  BY DEF SeqOf
<1> QED BY <1>1

LEMMA BatchBounded ==
  ASSUME NEW s \in Seq(Numbers), Len(s) <= MaxLines, NEW stop \in BOOLEAN
  PROVE  <<[lines |-> s, stop |-> stop]>> \in Seq(Batches)
<1>1. s \in LineNumbers
  BY ShortSeq, PumpAssumption, Zenon DEF LineNumbers, Numbers
<1>2. [lines |-> s, stop |-> stop] \in Batches
  BY <1>1 DEF Batches
<1> QED BY <1>2

LEMMA FlushedBounded ==
  ASSUME NEW t \in Seq(Numbers), NEW x \in Seq(Numbers), Len(t) + Len(x) <= MaxLines
  PROVE  Flushed(t, x) \in Seq(Batches)
<1>1. t \o x \in Seq(Numbers) /\ Len(t \o x) <= MaxLines
  BY ConcatProperties
<1>2. <<[lines |-> t \o x, stop |-> FALSE]>> \in Seq(Batches)
  BY <1>1, BatchBounded
<1>3. <<>> \in Seq(Batches)
  OBVIOUS
<1> QED BY <1>2, <1>3 DEF Flushed

LEMMA EndBounded == TheEnd \in Seq(Batches)
<1>1. <<>> \in Seq(Numbers) /\ Len(<<>>) <= MaxLines
  BY PumpAssumption
<1>2. <<[lines |-> <<>>, stop |-> TRUE]>> \in Seq(Batches)
  BY <1>1, BatchBounded
<1> QED BY <1>2 DEF TheEnd

LEMMA StreamBoundedInit == PumpInit => StreamBounded
<1> SUFFICES ASSUME PumpInit PROVE StreamBounded
  OBVIOUS
<1>1. /\ read = <<>> /\ scanCh = <<>> /\ thinking = <<>> /\ text = <<>> /\ emit = <<>>
      /\ out = <<>> /\ delivered = <<>> /\ scan = "reading"
  BY DEF PumpInit
<1>2. LinesBounded
  <2>1. Len(<<>>) = 0 /\ <<>> \in Seq(Numbers) /\ <<>> \in Seq(Batches)
    OBVIOUS
  <2> QED BY <1>1, <2>1, PumpAssumption DEF LinesBounded, OnTheWay
<1>3. PumpPlaced
  BY DEF PumpInit, PumpPlaced, Outcomes
<1> QED BY <1>2, <1>3 DEF StreamBounded

(* A line leaves the channel for the buffers or for what the pump sends.   *)
LEMMA ProcessBounded ==
  ASSUME StreamTyped, LinesBounded, ProcessLine PROVE LinesBounded'
<1> DEFINE line == Head(scanCh)
           kind == read[line]
<1>1. /\ Len(scanCh) \in Nat /\ Len(thinking) \in Nat /\ Len(text) \in Nat /\ Len(read) \in Nat
      /\ MaxLines \in Nat /\ ChanCap \in Nat
  BY LenProperties, PumpAssumption DEF StreamTyped
<1>2. /\ line \in Numbers /\ Tail(scanCh) \in Seq(Numbers) /\ Len(Tail(scanCh)) = Len(scanCh) - 1
      /\ Len(scanCh) > 0
  BY <1>1, HeadTailProperties, EmptySeq DEF ProcessLine, LinesBounded
<1>3. /\ scanCh' = Tail(scanCh) /\ UNCHANGED <<read, scan, out, delivered>>
      /\ \/ AddThinking(line) \/ AddText(line) \/ AddSnapshot(line) \/ Stop(line, kind)
  BY DEF ProcessLine, scanVars, consumerVars
<1>4. /\ thinking \in Seq(Numbers) /\ text \in Seq(Numbers)
      /\ Len(thinking) + Len(text) + 1 <= Len(scanCh) + Len(thinking) + Len(text)
      /\ Len(scanCh) + Len(thinking) + Len(text) <= Len(read) /\ Len(read) <= MaxLines
  BY <1>1, <1>2 DEF LinesBounded, OnTheWay
<1> HIDE DEF line, kind
<1>5. /\ Append(thinking, line) \in Seq(Numbers) /\ Len(Append(thinking, line)) = Len(thinking) + 1
      /\ Append(text, line) \in Seq(Numbers) /\ Len(Append(text, line)) = Len(text) + 1
  BY <1>2, <1>4, AppendProperties
<1>6. <<line>> \in Seq(Numbers) /\ Len(<<line>>) = 1 /\ <<>> \in Seq(Numbers) /\ Len(<<>>) = 0
      /\ <<>> \in Seq(Batches)
  BY <1>2
<1>7. /\ Flushed(thinking, text) \in Seq(Batches)
      /\ Flushed(thinking, Append(text, line)) \in Seq(Batches)
      /\ Flushed(Append(thinking, line), text) \in Seq(Batches)
  <2>1. /\ Len(thinking) + Len(text) <= MaxLines
        /\ Len(thinking) + Len(Append(text, line)) <= MaxLines
        /\ Len(Append(thinking, line)) + Len(text) <= MaxLines
    BY <1>1, <1>4, <1>5
  <2> QED BY ONLY <1>4, <1>5, <2>1, FlushedBounded
<1>8. <<[lines |-> <<line>>, stop |-> FALSE]>> \in Seq(Batches)
  <2>1. Len(<<line>>) <= MaxLines
    BY <1>1, <1>4, <1>6
  <2> DEFINE o == <<line>>
  <2> HIDE DEF o
  <2>2. <<[lines |-> o, stop |-> FALSE]>> \in Seq(Batches)
    BY <1>6, <2>1, BatchBounded DEF o
  <2> QED BY <2>2 DEF o
<1> DEFINE Room(t, x, e) ==
             /\ t \in Seq(Numbers) /\ x \in Seq(Numbers) /\ e \in Seq(Batches)
             /\ Len(t) + Len(x) <= Len(thinking) + Len(text) + 1
<1>9. Room(thinking', text', emit')
  <2>1. CASE AddThinking(line)
    <3>1. \/ thinking' = Append(thinking, line) /\ text' = <<>> /\ emit' = <<>>
          \/ thinking' = <<line>> /\ text' = <<>> /\ emit' = Flushed(thinking, text)
      BY <2>1 DEF AddThinking, Buffers, FlushesAll
    <3>2. thinking' \in Seq(Numbers) /\ text' \in Seq(Numbers) /\ emit' \in Seq(Batches)
      BY <1>4, <1>5, <1>6, <1>7, <3>1
    <3>3. Len(text') = 0
      BY <1>6, <3>1
    <3>4. Len(thinking') = Len(thinking) + 1 \/ Len(thinking') = 1
      BY <1>5, <1>6, <3>1
    <3>5. Len(thinking') + Len(text') <= Len(thinking) + Len(text) + 1
      <4> DEFINE a == Len(thinking)
                 b == Len(text)
                 c == Len(thinking')
                 d == Len(text')
      <4>1. a \in Nat /\ b \in Nat /\ d = 0 /\ (c = a + 1 \/ c = 1)
        BY <1>1, <3>3, <3>4
      <4> HIDE DEF a, b, c, d
      <4>2. c + d <= a + b + 1
        BY ONLY <4>1
      <4> QED BY <4>2 DEF a, b, c, d
    <3> QED BY <3>2, <3>5
  <2>2. CASE AddText(line)
    <3>1. \/ thinking' = thinking /\ text' = Append(text, line) /\ emit' = <<>>
          \/ thinking' = <<>> /\ text' = <<>> /\ emit' = Flushed(thinking, Append(text, line))
      BY <2>2 DEF AddText, Buffers
    <3>2. thinking' \in Seq(Numbers) /\ text' \in Seq(Numbers) /\ emit' \in Seq(Batches)
      BY <1>4, <1>5, <1>6, <1>7, <3>1
    <3>3. Len(thinking') + Len(text') <= Len(thinking) + Len(text) + 1
      BY <1>1, <1>5, <1>6, <3>1
    <3> QED BY <3>2, <3>3
  <2>3. CASE AddSnapshot(line)
    BY <1>1, <1>4, <1>6, <1>7, <1>8, <2>3, ConcatProperties DEF AddSnapshot, Buffers, FlushesAll
  <2>4. CASE Stop(line, kind)
    <3>1. Flushed(IF kind = "stopThink" THEN Append(thinking, line) ELSE thinking, text)
            \in Seq(Batches)
      BY <1>7
    <3> QED BY <1>1, <1>4, <1>6, <2>4, <3>1, EndBounded, ConcatProperties DEF Stop, Buffers
  <2> QED BY <1>3, <2>1, <2>2, <2>3, <2>4
<1>10. /\ Len(thinking') \in Nat /\ Len(text') \in Nat /\ Len(scanCh') = Len(scanCh) - 1
  BY <1>2, <1>3, <1>9, LenProperties
<1>11. OnTheWay' <= Len(read)'
  <2>1. /\ Len(thinking') + Len(text') <= Len(thinking) + Len(text) + 1
        /\ OnTheWay <= Len(read) /\ read' = read /\ scan' = scan
    BY <1>3, <1>9 DEF LinesBounded
  <2> QED BY <1>1, <1>10, <2>1 DEF OnTheWay
<1>12. Len(scanCh') <= ChanCap
  BY <1>1, <1>10 DEF LinesBounded
<1> QED BY <1>2, <1>3, <1>9, <1>11, <1>12 DEF LinesBounded

LEMMA LinesBoundedStep ==
  ASSUME StreamTyped, LinesBounded, [StreamNext]_streamVars PROVE LinesBounded'
<1>1. /\ Len(scanCh) \in Nat /\ Len(thinking) \in Nat /\ Len(text) \in Nat /\ Len(read) \in Nat
      /\ Len(out) \in Nat /\ MaxLines \in Nat /\ ChanCap \in Nat
  BY LenProperties, PumpAssumption DEF StreamTyped
<1>2. ASSUME NEW kind \in Kinds, ReadLine(kind) PROVE LinesBounded'
  <2>1. Len(read') = Len(read) + 1
    BY <1>2, AppendProperties DEF ReadLine, StreamTyped
  <2>2. OnTheWay' = OnTheWay + 1
    BY <1>1, <1>2 DEF ReadLine, OnTheWay, pumpVars
  <2>3. Len(read') <= MaxLines
    BY <1>1, <1>2, <2>1 DEF ReadLine
  <2>4. OnTheWay' <= Len(read')
    BY <1>1, <2>1, <2>2 DEF LinesBounded, OnTheWay
  <2> QED BY <1>2, <2>3, <2>4 DEF ReadLine, LinesBounded, pumpVars, consumerVars
<1>3. CASE SendLine
  <2>1. Len(read) \in Numbers
    BY <1>1, <1>3 DEF SendLine, LinesBounded, OnTheWay, Numbers
  <2>2. scanCh' \in Seq(Numbers) /\ Len(scanCh') = Len(scanCh) + 1
    BY <1>3, <2>1, AppendProperties DEF SendLine, LinesBounded
  <2>3. OnTheWay' = OnTheWay /\ Len(scanCh') <= ChanCap
    BY <1>1, <1>3, <2>2 DEF SendLine, OnTheWay, pumpVars
  <2> QED BY <1>3, <2>2, <2>3 DEF SendLine, LinesBounded, pumpVars, consumerVars
<1>4. CASE ScannerCancelled \/ BodyEnds \/ ReadFails
  <2>1. UNCHANGED <<read, scanCh, thinking, text, emit, out, delivered>> /\ scan' = "closed"
    BY <1>4 DEF ScannerCancelled, BodyEnds, ReadFails, pumpVars, consumerVars
  <2>2. OnTheWay' <= OnTheWay
    BY <1>1, <2>1 DEF OnTheWay
  <2>3. OnTheWay \in Nat /\ OnTheWay' \in Nat
    BY <1>1, <2>1 DEF OnTheWay
  <2>4. OnTheWay' <= Len(read)
    BY <1>1, <2>2, <2>3 DEF LinesBounded
  <2> QED BY <2>1, <2>4 DEF LinesBounded
<1>5. CASE ProcessLine
  BY <1>5, ProcessBounded
<1>6. CASE SendBatch
  <2>1. /\ UNCHANGED <<read, scan, scanCh, thinking, text, delivered>>
        /\ emit # <<>> /\ out' = Append(out, Head(emit)) /\ emit' = Tail(emit) /\ Len(out) < ChanCap
    BY <1>6 DEF SendBatch, scanVars, consumerVars
  <2>2. /\ emit' \in Seq(Batches) /\ out' \in Seq(Batches) /\ Len(out') = Len(out) + 1
    BY <2>1, HeadTailProperties, AppendProperties DEF LinesBounded
  <2>3. Len(out') <= ChanCap /\ OnTheWay' = OnTheWay
    BY <1>1, <2>1, <2>2 DEF OnTheWay
  <2> QED BY <2>1, <2>2, <2>3 DEF LinesBounded
<1>7. CASE DropBatch
  <2>1. /\ UNCHANGED <<read, scan, scanCh, thinking, text, out, delivered>>
        /\ emit # <<>> /\ emit' = Tail(emit)
    BY <1>7 DEF DropBatch, scanVars, consumerVars
  <2>2. emit' \in Seq(Batches)
    BY <2>1, HeadTailProperties DEF LinesBounded
  <2> QED BY <2>1, <2>2 DEF LinesBounded, OnTheWay
<1>8. CASE LastFlush \/ MaxWaitFlush
  <2>1. /\ UNCHANGED <<read, scan, scanCh, out, delivered>>
        /\ thinking' = <<>> /\ text' = <<>> /\ emit' = Flushed(thinking, text)
    BY <1>8 DEF LastFlush, MaxWaitFlush, Buffers, FlushesAll, scanVars, consumerVars
  <2>2. Flushed(thinking, text) \in Seq(Batches)
    <3>1. Len(thinking) + Len(text) <= MaxLines
      BY <1>1 DEF LinesBounded, OnTheWay
    <3> QED BY <3>1, FlushedBounded DEF LinesBounded
  <2>3. OnTheWay' <= OnTheWay /\ OnTheWay \in Nat /\ OnTheWay' \in Nat
    <3>1. Len(thinking') = 0 /\ Len(text') = 0
      BY <2>1
    <3> QED BY <1>1, <2>1, <3>1 DEF OnTheWay
  <2>4. OnTheWay' <= Len(read)
    BY <1>1, <2>3 DEF LinesBounded
  <2>5. <<>> \in Seq(Numbers)
    OBVIOUS
  <2> QED BY <2>1, <2>2, <2>4, <2>5 DEF LinesBounded
<1>9. CASE OnParsed
  <2>1. /\ UNCHANGED <<read, scan, scanCh, thinking, text, emit>>
        /\ out # <<>> /\ out' = Tail(out) /\ delivered' = delivered \o Head(out).lines
    BY <1>9 DEF OnParsed, scanVars, pumpVars
  <2>2. Head(out) \in Batches /\ Tail(out) \in Seq(Batches) /\ Len(Tail(out)) = Len(out) - 1
    BY <2>1, HeadTailProperties DEF LinesBounded
  <2>3. Head(out).lines \in Seq(Numbers)
    <3>1. Head(out).lines \in LineNumbers
      BY <2>2 DEF Batches
    <3> QED BY <3>1, BoundedIsSeq, PumpAssumption DEF LineNumbers, Numbers
  <2>4. delivered' \in Seq(Numbers)
    BY <2>1, <2>3, ConcatProperties DEF LinesBounded
  <2>5. Len(out') <= ChanCap /\ OnTheWay' = OnTheWay
    BY <1>1, <2>1, <2>2 DEF LinesBounded, OnTheWay
  <2> QED BY <2>1, <2>2, <2>4, <2>5 DEF LinesBounded
<1>10. CASE UNCHANGED <<read, scan, scanCh, thinking, text, emit, out, delivered>>
  BY <1>10 DEF LinesBounded, OnTheWay
<1>11. CASE LinesEnd \/ PumpCancelled \/ PumpReturns \/ Callback
  BY <1>10, <1>11 DEF LinesEnd, PumpCancelled, PumpReturns, Callback, scanVars, pumpVars, consumerVars
<1>12. CASE StreamEnds \/ KeepAliveTick \/ CallerLeaves \/ ContextDone
  BY <1>10, <1>12 DEF StreamEnds, KeepAliveTick, CallerLeaves, ContextDone, scanVars, pumpVars
<1>13. CASE UNCHANGED streamVars
  BY <1>10, <1>13 DEF streamVars
<1> QED BY <1>2, <1>3, <1>4, <1>5, <1>6, <1>7, <1>8, <1>9, <1>11, <1>12, <1>13
        DEF StreamNext, ScannerSteps, PumpSteps

LEMMA PumpPlacedStep ==
  ASSUME StreamTyped, PumpPlaced, [StreamNext]_streamVars PROVE PumpPlaced'
<1> USE DEF PumpPlaced
<1>1. CASE UNCHANGED <<pump, report, body, callback, gone, outcome>>
  BY <1>1
<1>2. CASE (\E kind \in Kinds : ReadLine(kind)) \/ SendLine \/ ScannerCancelled \/ BodyEnds \/ ReadFails
  BY <1>1, <1>2 DEF ReadLine, SendLine, ScannerCancelled, BodyEnds, ReadFails, pumpVars, bodyVars, consumerVars
<1>3. CASE ProcessLine \/ MaxWaitFlush \/ SendBatch
  BY <1>1, <1>3 DEF ProcessLine, MaxWaitFlush, SendBatch, bodyVars, consumerVars
<1>4. CASE DropBatch \/ LinesEnd \/ PumpCancelled \/ LastFlush
  <2>1. UNCHANGED <<report, body, callback, gone, outcome>> /\ pump' \in {pump, "done", "closing"}
    BY <1>4 DEF DropBatch, LinesEnd, PumpCancelled, LastFlush, bodyVars, consumerVars
  <2> QED BY <2>1
<1>5. CASE PumpReturns
  <2>1. UNCHANGED <<gone, outcome>> /\ pump' = "over" /\ callback' = "stopped"
    BY <1>5 DEF PumpReturns, consumerVars, BodyCleanedUp
  <2>2. body' \in {"closed", body}
    BY <1>5 DEF PumpReturns, BodyCleanedUp
  <2>3. report' \in {pumpErr, "ok", "unexpected EOF"} /\ (report' = pumpErr => pumpErr # "none")
    BY <1>5 DEF PumpReturns, StreamTyped
  <2> QED BY <2>1, <2>2, <2>3 DEF StreamTyped
<1>6. CASE Callback
  BY <1>6 DEF Callback, pumpVars, consumerVars
<1>7. CASE OnParsed \/ StreamEnds \/ KeepAliveTick
  <2>1. UNCHANGED <<pump, report, body, callback, gone>>
    BY <1>7 DEF OnParsed, StreamEnds, KeepAliveTick, Finalize, pumpVars, bodyVars
  <2>2. outcome' \in Outcomes
    BY <1>7 DEF OnParsed, StreamEnds, KeepAliveTick, Finalize, Outcomes
  <2> QED BY <2>1, <2>2
<1>8. CASE CallerLeaves \/ ContextDone
  BY <1>8 DEF CallerLeaves, ContextDone, pumpVars, bodyVars, Outcomes
<1>9. CASE UNCHANGED streamVars
  BY <1>1, <1>9 DEF streamVars
<1> QED BY <1>2, <1>3, <1>4, <1>5, <1>6, <1>7, <1>8, <1>9 DEF StreamNext, ScannerSteps, PumpSteps

LEMMA StreamBoundedStep ==
  ASSUME StreamInv, StreamBounded, [StreamNext]_streamVars PROVE StreamBounded'
BY LinesBoundedStep, PumpPlacedStep DEF StreamInv, StreamBounded

(* A line is delivered once, so that no more are delivered than were read. *)
LEMMA DeliveredShort ==
  ASSUME StreamInv, StreamBounded PROVE Len(delivered) <= MaxLines
<1>1. DOMAIN delivered = 1..Len(delivered) /\ Len(delivered) \in Nat
      /\ delivered \in [1..Len(delivered) -> Numbers]
  BY LenProperties DEF StreamBounded, LinesBounded
<1>2. ASSUME NEW i \in 1..Len(delivered), NEW j \in 1..Len(delivered), delivered[i] = delivered[j]
      PROVE  i = j
  BY <1>1, <1>2 DEF StreamInv, DeliveredFits
<1>3. delivered \in Injection(1..Len(delivered), Numbers)
  BY <1>1, <1>2 DEF Injection, IsInjective
<1>4. IsFiniteSet(1..Len(delivered)) /\ Cardinality(1..Len(delivered)) = Len(delivered)
  <2>1. /\ IsFiniteSet(1..Len(delivered))
        /\ Cardinality(1..Len(delivered))
             = IF 1 > Len(delivered) THEN 0 ELSE Len(delivered) - 1 + 1
    BY <1>1, FS_Interval
  <2> QED BY <1>1, <2>1
<1>5. IsFiniteSet(Numbers) /\ Cardinality(Numbers) = MaxLines
  <2>1. /\ IsFiniteSet(1..MaxLines)
        /\ Cardinality(1..MaxLines) = IF 1 > MaxLines THEN 0 ELSE MaxLines - 1 + 1
    BY PumpAssumption, FS_Interval
  <2> QED BY PumpAssumption, <2>1 DEF Numbers
<1>6. Cardinality(1..Len(delivered)) <= Cardinality(Numbers)
  BY <1>3, <1>5, FS_Injection
<1> QED BY <1>4, <1>5, <1>6

LEMMA StreamBoundedTypes == StreamInv /\ StreamBounded => PumpTypeOK
<1> SUFFICES ASSUME StreamInv, StreamBounded PROVE PumpTypeOK
  OBVIOUS
<1>1. StreamTyped /\ LinesBounded /\ PumpPlaced
  BY DEF StreamInv, StreamBounded
<1>2. /\ Len(scanCh) \in Nat /\ Len(thinking) \in Nat /\ Len(text) \in Nat /\ Len(read) \in Nat
      /\ MaxLines \in Nat
  BY <1>1, LenProperties, PumpAssumption DEF StreamTyped
<1>3. Len(scanCh) <= MaxLines /\ Len(thinking) <= MaxLines /\ Len(text) <= MaxLines
  BY <1>1, <1>2 DEF LinesBounded, OnTheWay
<1>4. /\ scanCh \in LineNumbers /\ thinking \in LineNumbers /\ text \in LineNumbers
      /\ delivered \in LineNumbers
  BY <1>1, <1>2, <1>3, ShortSeq, DeliveredShort, Zenon DEF LinesBounded, LineNumbers, Numbers
<1>5. read \in SeqOf(Kinds, MaxLines)
  BY <1>1, <1>2, ShortSeq DEF StreamTyped, LinesBounded
<1>6. ToSet(emit) \cup ToSet(out) \subseteq Batches
  <2>1. \A i \in DOMAIN emit : emit[i] \in Batches
    BY <1>1, ElementOfSeq, LenProperties DEF LinesBounded
  <2>2. \A i \in DOMAIN out : out[i] \in Batches
    BY <1>1, ElementOfSeq, LenProperties DEF LinesBounded
  <2> QED BY <2>1, <2>2 DEF ToSet
<1> QED BY <1>1, <1>4, <1>5, <1>6 DEF PumpTypeOK, StreamTyped, LinesBounded, PumpPlaced
=============================================================================
