----------------------------- MODULE ConfigStore -----------------------------
(***************************************************************************)
(* The configuration store (config/store.go, mihomo_subs.go) and the       *)
(* generation of login device IDs that commits through it (store_devid.go, *)
(* device_generation.go, client_devid.go, devid/profiles.go).              *)
(*                                                                         *)
(* The configuration lives in memory and in two files, config.json and the *)
(* subscriptions; a dirty bit per file says which must be rewritten.       *)
(* Older installations keep subscriptions inside config.json ("legacy") or *)
(* in a file at a former path ("fallback").  s.mu is held from the change  *)
(* in memory to the last file.  A file is replaced as a whole or not at    *)
(* all; a write may fail, and the process may crash between two of them.   *)
(*                                                                         *)
(* Of config.json one account is kept: its phone (the device fields, 0: no *)
(* account) and its device ID, issued by the generator or brought from     *)
(* outside: by an administrator's edit, an import, or the pool of manual   *)
(* IDs.  A store backed by the environment saves nothing and is left out.  *)
(***************************************************************************)
EXTENDS Naturals

CONSTANTS
  Phones,       \* devices an account may claim to be, numbers
  Lists,        \* lists of subscriptions, numbers
  MaxChanges,   \* administrators' changes, generations and crashes (bound)
  MaxIDs,       \* device IDs that are issued (bound)
  Given         \* device IDs that are brought, numbers of their own: what is
                \* brought counts as such, also if it was once issued

ASSUME ConfigAssumption ==
  /\ Phones \subseteq Nat \ {0} /\ Lists \subseteq Nat \ {0}
  /\ MaxChanges \in Nat /\ MaxIDs \in Nat
  /\ Given \subseteq Nat /\ Given \cap (0..MaxIDs) = {}

VARIABLES
  serving,    \* the store is loaded
  conf,       \* s.cfg
  stale,      \* which files must be rewritten: cfgDirty, mihomoDirty, and the
              \* pending migration of legacy subscriptions
  disk,       \* the files
  save,       \* the operation under s.mu, see NoSave
  version,    \* the account's entry in deviceVersions
  generation, \* RefreshRealDeviceID; it holds the account's lock throughout
  archive,    \* the SDK profile on disk: the ID and the phone it is of
  acked,      \* history: the last operation returned without an error
  parted,       \* history: the archive was left behind by a crash or a rollback
  changes     \* how many of MaxChanges have happened

configVars == <<serving, conf, stale, disk, save, version, generation, archive,
                acked, parted, changes>>

IDs == (0..MaxIDs) \cup Given
PhoneOrNone == {0} \cup Phones
ListOrNone == {0} \cup Lists
Confs == [phone : PhoneOrNone, id : IDs, subs : ListOrNone]
NoConf == [phone |-> 0, id |-> 0, subs |-> 0]
Clean == [config |-> FALSE, subs |-> FALSE, migrate |-> FALSE]
NoArchive == [id |-> 0, phone |-> 0]
Archives == [id : IDs, phone : PhoneOrNone]

(* Where saveLocked is, for whom, and what CommitGeneratedDeviceID needs   *)
(* to undo its part.                                                       *)
NoSave == [at |-> "none", by |-> "update", old |-> NoConf, wasStale |-> FALSE,
           archive |-> NoArchive]
NoGeneration == [at |-> "none", conf |-> NoConf, version |-> 0, id |-> 0]

ConfigTypeOK ==
  /\ serving \in BOOLEAN /\ acked \in BOOLEAN /\ parted \in BOOLEAN
  /\ conf \in Confs
  /\ stale \in [config : BOOLEAN, subs : BOOLEAN, migrate : BOOLEAN]
  /\ disk \in [there : BOOLEAN, phone : PhoneOrNone, id : IDs, legacy : ListOrNone,
               subs : ListOrNone, fallback : ListOrNone]
  /\ save \in [at : {"none", "subs", "config"}, by : {"update", "delete", "device"},
               old : Confs, wasStale : BOOLEAN, archive : Archives]
  /\ version \in 0..MaxChanges /\ changes \in 0..MaxChanges
  /\ generation \in [at : {"none", "running", "issued", "commit"}, conf : Confs,
                     version : 0..MaxChanges, id : IDs]
  /\ archive \in Archives

(* A new installation, or files of an older one.                           *)
ConfigInit ==
  /\ serving = FALSE /\ conf = NoConf /\ stale = Clean
  /\ disk \in {[there |-> t, phone |-> 0, id |-> 0, legacy |-> l, subs |-> 0, fallback |-> f]
                 : t \in BOOLEAN, l \in ListOrNone, f \in ListOrNone}
  /\ disk.legacy # 0 => disk.there
  /\ save = NoSave /\ version = 0
  /\ generation = NoGeneration /\ archive = NoArchive
  /\ acked = FALSE /\ parted = FALSE /\ changes = 0

-----------------------------------------------------------------------------

(* What a start reads: the subscriptions from their file, from the former  *)
(* path, or from config.json.                                              *)
Loaded(d) ==
  [phone |-> d.phone, id |-> d.id,
   subs |-> IF d.subs # 0 THEN d.subs ELSE IF d.fallback # 0 THEN d.fallback ELSE d.legacy]

(* Subscriptions of the former path are copied to the present one, if that *)
(* works.                                                                  *)
LoadStore ==
  /\ ~serving /\ serving' = TRUE
  /\ conf' = Loaded(disk)
  /\ stale' = [Clean EXCEPT !.migrate = disk.legacy # 0]
  /\ \/ disk' = [disk EXCEPT !.subs = IF @ # 0 THEN @ ELSE disk.fallback]
     \/ UNCHANGED disk
  /\ acked' = TRUE
  /\ UNCHANGED <<save, version, generation, archive, parted, changes>>

Open == serving /\ save.at = "none"
Change == changes < MaxChanges /\ changes' = changes + 1

(* The ID an account may have after a change: none, one brought with it,   *)
(* or, on the same phone, the one it had.  A change of the phone takes an  *)
(* issued ID away (InvalidateChangedDeviceIDs: it is of type auto and the  *)
(* same as before), and may or may not take one that was brought.  A change*)
(* of either, deleting and adding the account included, moves the version. *)
IDsAfter(phone) ==
  IF phone = 0 THEN {0}
  ELSE {0} \cup Given \cup {id \in {conf.id} : phone = conf.phone}
Changed(phone, id, subs) == conf' = [phone |-> phone, id |-> id, subs |-> subs]
Versioned ==
  version' = IF conf'.phone # conf.phone \/ conf'.id # conf.id THEN version + 1 ELSE version
Saves(by) == save' = [NoSave EXCEPT !.at = "subs", !.by = by]

(* Update: only what has changed is rewritten.                             *)
UpdateConfig(phone, id, subs) ==
  /\ Open /\ Change
  /\ Changed(phone, id, subs) /\ Versioned
  /\ stale' = [stale EXCEPT !.config = @ \/ phone # conf.phone \/ id # conf.id,
                            !.subs = @ \/ subs # conf.subs]
  /\ Saves("update")
  /\ UNCHANGED <<serving, disk, generation, archive, acked, parted>>

(* Deleting the account waits for a generation; the archive goes with it.  *)
DeleteAccount ==
  /\ Open /\ Change /\ conf.phone # 0 /\ generation.at = "none"
  /\ Changed(0, 0, conf.subs) /\ Versioned
  /\ stale' = [stale EXCEPT !.config = TRUE]
  /\ Saves("delete")
  /\ UNCHANGED <<serving, disk, generation, archive, acked, parted>>

(* Replace, and Save, which changes nothing.                               *)
ReplaceConfig(phone, id, subs) ==
  /\ Open /\ Change
  /\ Changed(phone, id, subs) /\ Versioned
  /\ stale' = [stale EXCEPT !.config = TRUE, !.subs = TRUE]
  /\ Saves("update")
  /\ UNCHANGED <<serving, disk, generation, archive, acked, parted>>

(* UpdateAccountToken: tokens are not written, but saveLocked runs.        *)
UpdateToken ==
  /\ Open /\ conf.phone # 0 /\ Saves("update")
  /\ UNCHANGED <<serving, conf, stale, disk, version, generation, archive, acked, parted,
                 changes>>

-----------------------------------------------------------------------------
(***************************************************************************)
(* saveLocked.                                                             *)
(***************************************************************************)

(* Subscriptions come first; without any their file is removed.            *)
SaveSubs ==
  /\ save.at = "subs" /\ save' = [save EXCEPT !.at = "config"]
  /\ IF stale.subs \/ stale.migrate
     THEN disk' = [disk EXCEPT !.subs = conf.subs] /\ stale' = [stale EXCEPT !.subs = FALSE]
     ELSE UNCHANGED <<disk, stale>>
  /\ UNCHANGED <<serving, conf, version, generation, archive, acked, parted, changes>>

WritesConfig == stale.config \/ stale.migrate \/ ~disk.there

SaveConfig ==
  /\ save.at = "config" /\ save' = NoSave
  /\ disk' = IF WritesConfig
             THEN [disk EXCEPT !.there = TRUE, !.phone = conf.phone, !.id = conf.id, !.legacy = 0]
             ELSE disk
  /\ stale' = [stale EXCEPT !.config = FALSE, !.migrate = FALSE]
  /\ acked' = TRUE
  /\ archive' = IF save.by = "delete" THEN NoArchive ELSE archive
  /\ generation' = IF save.by = "device" THEN NoGeneration ELSE generation
  /\ parted' = IF save.by = "device" THEN FALSE ELSE parted
  /\ UNCHANGED <<serving, conf, version, changes>>

(* The memory keeps the change, and what could not be written stays stale. *)
StaleKept == UNCHANGED stale

(* A write fails.  A generation takes its ID back and restores the archive,*)
(* if it can.                                                              *)
WriteFails ==
  /\ \/ save.at = "subs" /\ (stale.subs \/ stale.migrate)
     \/ save.at = "config" /\ WritesConfig
  /\ save' = NoSave
  /\ IF save.by = "device"
     THEN /\ conf' = save.old
          /\ stale' = [stale EXCEPT !.config = save.wasStale]
          /\ \/ archive' = save.archive /\ UNCHANGED parted
             \/ parted' = TRUE /\ UNCHANGED archive
          /\ generation' = NoGeneration
          /\ UNCHANGED acked
     ELSE /\ StaleKept /\ acked' = FALSE
          /\ UNCHANGED <<conf, archive, parted, generation>>
  /\ UNCHANGED <<serving, disk, version, changes>>

ConfigCrash ==
  /\ serving /\ serving' = FALSE /\ Change
  /\ conf' = NoConf /\ stale' = Clean /\ save' = NoSave
  /\ version' = 0 /\ generation' = NoGeneration /\ acked' = FALSE
  /\ parted' = (parted \/ save.by = "device")
  /\ UNCHANGED <<disk, archive>>

-----------------------------------------------------------------------------
(***************************************************************************)
(* Generating a device ID.  The generator runs for up to 150 s without any *)
(* lock of the store, on the phone of the snapshot.  Of the snapshot only  *)
(* the account is used.                                                    *)
(***************************************************************************)

TakeSnapshot ==
  /\ Open /\ conf.phone # 0 /\ generation.at = "none"
  /\ generation' = [NoGeneration EXCEPT !.at = "running", !.version = version,
                                        !.conf = [conf EXCEPT !.subs = 0]]
  /\ UNCHANGED <<serving, conf, stale, disk, save, version, archive, acked, parted, changes>>

Generate(id) ==
  /\ generation.at = "running"
  /\ generation' = [generation EXCEPT !.at = "issued", !.id = id]
  /\ UNCHANGED <<serving, conf, stale, disk, save, version, archive, acked, parted, changes>>

(* The generator fails, its time is up, or promoting the archive fails.    *)
GenerationFails ==
  /\ generation.at \in {"running", "issued"}
  /\ generation' = NoGeneration
  /\ UNCHANGED <<serving, conf, stale, disk, save, version, archive, acked, parted, changes>>

\* Faulty variant: the account need only be there.
StillThere == conf.phone # 0

(* The account is as the snapshot had it, and has been all along.          *)
Unchanged ==
  /\ version = generation.version
  /\ conf.phone = generation.conf.phone /\ conf.id = generation.conf.id

Commit ==
  /\ Open /\ generation.at = "issued"
  /\ IF Unchanged
     THEN /\ archive' = [id |-> generation.id, phone |-> generation.conf.phone]
          /\ conf' = [conf EXCEPT !.id = generation.id]
          /\ save' = [at |-> "subs", by |-> "device", old |-> conf,
                      wasStale |-> stale.config, archive |-> archive]
          /\ stale' = [stale EXCEPT !.config = TRUE]
          /\ generation' = [generation EXCEPT !.at = "commit"]
     ELSE generation' = NoGeneration /\ UNCHANGED <<archive, conf, save, stale>>
  /\ UNCHANGED <<serving, disk, version, acked, parted, changes>>

(* Upstream issues an ID once.                                             *)
Issued == {conf.id, disk.id, archive.id, generation.id}
Fresh(id) == id \in (1..MaxIDs) \ Issued

ConfigNext ==
  \/ LoadStore \/ DeleteAccount \/ UpdateToken
  \/ \E phone \in PhoneOrNone, subs \in ListOrNone : \E id \in IDsAfter(phone) :
       UpdateConfig(phone, id, subs) \/ ReplaceConfig(phone, id, subs)
  \/ SaveSubs \/ SaveConfig \/ WriteFails \/ ConfigCrash
  \/ TakeSnapshot \/ (\E id \in IDs : Fresh(id) /\ Generate(id)) \/ GenerationFails \/ Commit

ConfigSpec == ConfigInit /\ [][ConfigNext]_configVars

-----------------------------------------------------------------------------
(***************************************************************************)
(* Properties.                                                             *)
(***************************************************************************)

(* An operation that returned without an error has left on disk all that   *)
(* the memory holds, also what earlier operations failed to write, so that *)
(* a restart changes nothing.  One thing comes back: subscriptions that    *)
(* are deleted while a copy remains at a former path.                      *)
AcknowledgedIsDurable ==
  Open /\ acked =>
    Loaded(disk) = IF conf.subs = 0 THEN [conf EXCEPT !.subs = disk.fallback] ELSE conf

(* "Commits only a result issued for the account's current device": an ID  *)
(* the generator has issued is in use only on the phone it was issued for, *)
(* and the archive is the one it was issued from, whoever changes, deletes *)
(* or imports the account, or brings another ID, while the generator runs  *)
(* or after it.  What a brought ID fits is for those who bring it to know. *)
(* A crash or a failed rollback between the archive and config.json parts  *)
(* the two.                                                                *)
IDFitsDevice ==
  Open /\ conf.id \notin Given \cup {0} /\ ~parted
    => archive = [id |-> conf.id, phone |-> conf.phone]

(* What the store has acknowledged it keeps, and it keeps nothing of a     *)
(* device that is gone.                                                    *)
ConfigKept == AcknowledgedIsDurable /\ IDFitsDevice
=============================================================================
