----------------------------- MODULE UsageLedger -----------------------------
(***************************************************************************)
(* The ledger of token usage (usagestats, server/usage_backfill.go): an    *)
(* entry per date, model, caller and account in memory, a checkpoint on    *)
(* disk that a flusher writes every second while the ledger is dirty, and  *)
(* a backfill from the chat history at the first start that finds any.     *)
(*                                                                         *)
(* mu is held for each of Record, BeginFlush and EndFlush; a flush writes  *)
(* with flushMu alone, so requests are recorded meanwhile.  Import, Clear  *)
(* and Backfill hold both and publish only what is on disk.  An entry is   *)
(* its number of calls; a key with no calls has no entry.                  *)
(***************************************************************************)
EXTENDS Naturals, FiniteSets

CONSTANTS
  Keys,      \* date, model, caller and account of an entry
  MaxCalls   \* requests and imports per key (bound)

ASSUME KeysFinite == IsFiniteSet(Keys)
ASSUME MaxCallsNat == MaxCalls \in Nat

VARIABLES
  stage,       \* of the process, see Stages
  ledger,      \* entries: the calls of each key
  dirty,       \* the checkpoint is behind
  revision,    \* counts the changes of entries
  order,       \* checkpointOrder, as a set: the keys of the last checkpoint
  flush,       \* the flusher: "idle", "writing", "wrote" or "failed"
  payload,     \* what it writes: counts, their keys, the revision they are of
  checkpoint,  \* the counts in the file (none if it is missing)
  marker,      \* the marker file of the backfill exists
  history,     \* requests whose usage the chat history has on disk
  made         \* history variable: calls made or imported so far

usageVars == <<stage, ledger, dirty, revision, order, flush, payload,
               checkpoint, marker, history, made>>

(* "loaded" and "marking": before the server takes requests.               *)
Stages == {"down", "loaded", "marking", "up", "closing"}
Counts == [Keys -> Nat]
NoCalls == [k \in Keys |-> 0]
Entries(counts) == {k \in Keys : counts[k] # 0}
NoPayload == [counts |-> NoCalls, keys |-> {}, revision |-> 0]

UsageTypeOK ==
  /\ stage \in Stages
  /\ ledger \in Counts /\ checkpoint \in Counts /\ history \in Counts /\ made \in Counts
  /\ dirty \in BOOLEAN /\ marker \in BOOLEAN
  /\ revision \in Nat /\ order \subseteq Keys
  /\ flush \in {"idle", "writing", "wrote", "failed"}
  /\ payload \in [counts : Counts, keys : SUBSET Keys, revision : Nat]

(* The service is installed: no file, and whatever history there is.       *)
UsageInit ==
  /\ stage = "down" /\ flush = "idle"
  /\ ledger = NoCalls /\ checkpoint = NoCalls
  /\ dirty = FALSE /\ marker = FALSE
  /\ revision = 0 /\ order = {} /\ payload = NoPayload
  /\ history \in {NoCalls} \cup {[NoCalls EXCEPT ![k] = 1] : k \in Keys}
  /\ made = history

-----------------------------------------------------------------------------

InMemory == <<ledger, dirty, revision, order, flush, payload>>
OnDisk == <<checkpoint, marker, history>>

(* One more call of k.  The chat history has the request as well.          *)
Plus(counts, k) == [counts EXCEPT ![k] = @ + 1]
Record(k) ==
  /\ stage \in {"up", "closing"} /\ made[k] < MaxCalls
  /\ ledger' = Plus(ledger, k) /\ made' = Plus(made, k) /\ history' = Plus(history, k)
  /\ revision' = revision + 1 /\ dirty' = TRUE
  /\ UNCHANGED <<stage, order, flush, payload, checkpoint, marker>>

(* snapshotLocked: the order of the last checkpoint is used again while it *)
(* is as long as the ledger.                                               *)
OrderFits == Cardinality(order) = Cardinality(Entries(ledger))
Snapshot ==
  LET keys == IF OrderFits THEN order ELSE Entries(ledger)
  IN [counts |-> [k \in Keys |-> IF k \in keys THEN ledger[k] ELSE 0],
      keys |-> keys, revision |-> revision]

(* The ticker, or the final flush of Close.                                *)
BeginFlush ==
  /\ stage \in {"up", "closing"} /\ flush = "idle" /\ dirty
  /\ payload' = Snapshot
  /\ flush' = "writing"
  /\ UNCHANGED <<stage, ledger, dirty, revision, order, checkpoint, marker, history, made>>

(* The file is replaced as a whole or not at all.                          *)
WriteCheckpoint ==
  /\ flush = "writing"
  /\ \/ checkpoint' = payload.counts /\ flush' = "wrote"
     \/ flush' = "failed" /\ UNCHANGED checkpoint
  /\ UNCHANGED <<stage, ledger, dirty, revision, order, payload, marker, history, made>>

\* Faulty variant: what was recorded during the write counts as written.
WrittenAnyway == flush = "wrote"

(* The file has everything the ledger has.                                 *)
CaughtUp == flush = "wrote" /\ revision = payload.revision

(* After the final flush, whether it worked or not, Close returns.         *)
EndFlush ==
  /\ flush \in {"wrote", "failed"}
  /\ order' = IF Cardinality(Entries(ledger)) = Cardinality(Entries(payload.counts))
              THEN payload.keys ELSE order
  /\ dirty' = IF CaughtUp THEN FALSE ELSE dirty
  /\ flush' = "idle"
  /\ UNCHANGED <<stage, ledger, revision, payload, checkpoint, marker, history, made>>

(* commitEntriesLocked: first the disk, then the memory.                   *)
Committed(counts) ==
  /\ checkpoint' = counts /\ ledger' = counts
  /\ revision' = revision + 1 /\ dirty' = FALSE /\ order' = {}
  /\ UNCHANGED <<flush, payload>>

(* A failure of the write leaves everything as it was.                     *)
Import(k) ==
  /\ stage = "up" /\ flush = "idle" /\ made[k] < MaxCalls
  /\ Committed(Plus(ledger, k)) /\ made' = Plus(made, k)
  /\ UNCHANGED <<stage, marker, history>>
Clear ==
  /\ stage = "up" /\ flush = "idle" /\ Entries(ledger) # {}
  /\ Committed(NoCalls)
  /\ UNCHANGED <<stage, marker, history, made>>

-----------------------------------------------------------------------------
(***************************************************************************)
(* Starting, closing and crashing.                                         *)
(***************************************************************************)

(* Without a file, or with one that cannot be read and is put aside, the   *)
(* ledger starts empty.                                                    *)
Load ==
  /\ stage = "down"
  /\ stage' = "loaded"
  /\ \/ UNCHANGED checkpoint
     \/ checkpoint' = NoCalls
  /\ ledger' = checkpoint'
  /\ dirty' = FALSE /\ revision' = 0 /\ order' = {} /\ flush' = "idle"
  /\ payload' = NoPayload
  /\ UNCHANGED <<marker, history, made>>

\* Faulty variant: a missing marker is reason enough.
BackfillsUnlessMarked == ~marker

(* Only an empty ledger is filled.                                         *)
Backfills == ~marker /\ Entries(ledger) = {}

(* An empty history, or a failing write, leaves no marker: the next start  *)
(* tries again.                                                            *)
Backfill ==
  /\ stage = "loaded"
  /\ \/ /\ Backfills /\ Entries(history) # {}
        /\ Committed([k \in Keys |-> ledger[k] + history[k]])
        /\ stage' = "marking"
     \/ /\ ~marker /\ ~Backfills /\ Entries(history) # {}
        /\ stage' = "marking" /\ UNCHANGED <<checkpoint, InMemory>>
     \/ stage' = "up" /\ UNCHANGED <<checkpoint, InMemory>>
  /\ UNCHANGED <<marker, history, made>>

WriteMarker ==
  /\ stage = "marking"
  /\ \E ok \in BOOLEAN : marker' = (marker \/ ok)
  /\ stage' = "up"
  /\ UNCHANGED <<InMemory, checkpoint, history, made>>

Close ==
  /\ stage = "up"
  /\ stage' = "closing"
  /\ UNCHANGED <<InMemory, OnDisk, made>>

(* The process exits after the final flush, or crashes anywhere.           *)
Down ==
  /\ stage # "down"
  /\ stage' = "down"
  /\ ledger' = NoCalls /\ dirty' = FALSE /\ revision' = 0 /\ order' = {}
  /\ flush' = "idle" /\ payload' = NoPayload
  /\ UNCHANGED <<OnDisk, made>>

Flush == BeginFlush \/ WriteCheckpoint \/ EndFlush
UsageNext ==
  \/ \E k \in Keys : Record(k) \/ Import(k)
  \/ Clear \/ Flush
  \/ Load \/ Backfill \/ WriteMarker \/ Close \/ Down

UsageSpec == UsageInit /\ [][UsageNext]_usageVars

-----------------------------------------------------------------------------
(***************************************************************************)
(* Properties.                                                             *)
(***************************************************************************)

(* A ledger that is not dirty is on disk, to the last call: neither a call *)
(* recorded during a write, nor a write that fails, nor an order cached    *)
(* for other entries makes the flusher rest too early.                     *)
CleanMeansSaved == stage # "down" /\ ~dirty => checkpoint = ledger

(* No call is counted twice, by the ledger or its file: not by a backfill  *)
(* that crashes before its marker, nor by one that meets entries, nor by   *)
(* a clearing between two starts.                                          *)
NeverOvercounted == \A k \in Keys : ledger[k] <= made[k] /\ checkpoint[k] <= made[k]
=============================================================================
