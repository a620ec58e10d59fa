----------------------------- MODULE ChatHistory -----------------------------
(***************************************************************************)
(* The store of past conversations (chathistory): a detail file for each   *)
(* conversation and an index file that lists them, both rewritten at every *)
(* change.  mu is held from the change in memory to the last file, so one  *)
(* operation runs at a time; each file is replaced as a whole, but the     *)
(* process may crash, or a write fail, between any two of them.            *)
(*                                                                         *)
(* The admin page polls with the revision as its ETag.  Revisions are      *)
(* nanoseconds of a clock that is assumed not to go back; here they are    *)
(* counted.  Histories of the format with one file are left out.           *)
(***************************************************************************)
EXTENDS Naturals, FiniteSets

CONSTANTS
  Chats,          \* conversations
  Limits,         \* limits that may be set; 0 switches the history off
  DefaultLimit,   \* the limit of a new history
  MaxRevision     \* revisions that are given out (bound)

ASSUME HistoryAssumption ==
  /\ IsFiniteSet(Chats)
  /\ Limits \subseteq Nat /\ DefaultLimit \in Limits \ {0}
  /\ MaxRevision \in Nat

VARIABLES
  up,        \* the process runs
  details,   \* the conversations in memory, see Detail
  limit, listRevision,   \* state.Limit and state.Revision
  unsaved, removed,      \* dirty and deleted
  saving,    \* what persistLocked has still to do, see Nothing
  files,     \* the detail files
  index,     \* the index file, see NoIndex
  clock,     \* the last revision given out
  page,      \* an open admin page: the list it shows and its ETag
  running,   \* history: streams of this process that have not ended
  torn       \* history: revisions whose list a start did not find in the files

historyVars == <<up, details, limit, listRevision, unsaved, removed, saving, files,
                 index, clock, page, running, torn>>

(* created: conversations are listed, and dropped, by their age.           *)
Detail == [there : {TRUE}, streaming : BOOLEAN, revision : Nat, created : Nat]
NoDetail == [there |-> FALSE, streaming |-> FALSE, revision |-> 0, created |-> 0]
NoDetails == [c \in Chats |-> NoDetail]
Listed(list) == {c \in Chats : list[c].there}

NoIndex == [there |-> FALSE, list |-> NoDetails, limit |-> 0, revision |-> 0]
Nothing == [on |-> FALSE, remove |-> {}, write |-> {}]
NoPage == [revision |-> 0, list |-> NoDetails]

HistoryTypeOK ==
  LET Contents == [Chats -> Detail \cup {NoDetail}]
  IN /\ up \in BOOLEAN /\ torn \subseteq 0..MaxRevision
     /\ details \in Contents /\ files \in Contents
     /\ limit \in Limits /\ listRevision \in 0..MaxRevision /\ clock \in 0..MaxRevision
     /\ unsaved \subseteq Chats /\ removed \subseteq Chats /\ running \subseteq Chats
     /\ saving \in [on : BOOLEAN, remove : SUBSET Chats, write : SUBSET Chats]
     /\ index.list \in Contents /\ page.list \in Contents

HistoryInit ==
  /\ up = FALSE /\ saving = Nothing /\ torn = {}
  /\ details = NoDetails /\ files = NoDetails
  /\ limit = DefaultLimit /\ listRevision = 0 /\ clock = 0
  /\ unsaved = {} /\ removed = {} /\ running = {}
  /\ index = NoIndex /\ page = NoPage

-----------------------------------------------------------------------------

(* rebuildIndexLocked: the newest conversations stay.  The list is always  *)
(* the summaries of the details.                                           *)
Younger(list, c, d) ==
  \/ list[c].created > list[d].created
  \/ list[c].created = list[d].created /\ list[c].revision > list[d].revision
Kept(list, max) ==
  IF max = 0 THEN Listed(list)
  ELSE {c \in Listed(list) : Cardinality({d \in Listed(list) : Younger(list, d, c)}) < max}

(* saveLocked: rebuild, then persist.  "changed" and "gone" have been      *)
(* marked before; what the limit drops is marked in addition.              *)
SaveHistory(list, max, changed, gone) ==
  LET kept == Kept(list, max)
      dropped == Listed(list) \ kept
      write == (unsaved \cup changed) \ (gone \cup dropped)
      remove == (removed \ changed) \cup gone \cup dropped
  IN /\ details' = [c \in Chats |-> IF c \in kept THEN list[c] ELSE NoDetail]
     /\ limit' = max
     /\ unsaved' = write /\ removed' = remove
     /\ saving' = [on |-> TRUE, remove |-> remove, write |-> write]

(* nextRevisionLocked                                                      *)
NextRevision ==
  /\ clock < MaxRevision
  /\ clock' = clock + 1 /\ listRevision' = clock' /\ UNCHANGED torn

Serving == up /\ ~saving.on

(* A conversation may have begun before it is recorded.                    *)
StartChat(c) ==
  /\ Serving /\ limit # 0
  /\ c \notin UNION {Listed(details), Listed(files), Listed(index.list), running}
  /\ NextRevision
  /\ \E created \in {1, clock'} :
       SaveHistory([details EXCEPT ![c] = [there |-> TRUE, streaming |-> TRUE,
                                           revision |-> clock', created |-> created]],
                   limit, {c}, {})
  /\ running' = running \cup {c}
  /\ UNCHANGED <<up, files, index, page>>

(* The request that recorded the conversation goes on, or ends.            *)
UpdateChat(c, ended) ==
  /\ Serving /\ c \in running
  /\ running' = IF ended THEN running \ {c} ELSE running
  /\ IF c \in Listed(details)
     THEN /\ NextRevision
          /\ SaveHistory([details EXCEPT ![c].streaming = ~ended, ![c].revision = clock'],
                      limit, {c}, {})
     ELSE UNCHANGED <<details, limit, listRevision, unsaved, removed, saving, clock,
                      torn>>
  /\ UNCHANGED <<up, files, index, page>>

DeleteChats(gone) ==
  /\ Serving /\ NextRevision
  /\ SaveHistory([c \in Chats |-> IF c \in gone THEN NoDetail ELSE details[c]],
                 limit, {}, gone)
  /\ UNCHANGED <<up, files, index, page, running>>
DeleteChat(c) == c \in Listed(details) /\ DeleteChats({c})
ClearChats == DeleteChats(Listed(details))

SetLimit(max) ==
  /\ Serving /\ NextRevision
  /\ SaveHistory(details, max, {}, {})
  /\ UNCHANGED <<up, files, index, page, running>>

-----------------------------------------------------------------------------
(***************************************************************************)
(* persistLocked: files of removed conversations, files of changed ones,   *)
(* the index; then nothing is pending any more.                            *)
(***************************************************************************)

RemoveFile(c) ==
  /\ saving.on /\ c \in saving.remove
  /\ files' = [files EXCEPT ![c] = NoDetail]
  /\ saving' = [saving EXCEPT !.remove = @ \ {c}]
  /\ UNCHANGED <<up, details, limit, listRevision, unsaved, removed, index, clock, page,
                 running, torn>>
WriteFile(c) ==
  /\ saving.on /\ saving.remove = {} /\ c \in saving.write
  /\ files' = [files EXCEPT ![c] = details[c]]
  /\ saving' = [saving EXCEPT !.write = @ \ {c}]
  /\ UNCHANGED <<up, details, limit, listRevision, unsaved, removed, index, clock, page,
                 running, torn>>
WriteIndex ==
  /\ saving.on /\ saving.remove = {} /\ saving.write = {}
  /\ index' = [there |-> TRUE, list |-> details, limit |-> limit, revision |-> listRevision]
  /\ saving' = Nothing /\ unsaved' = {} /\ removed' = {}
  /\ UNCHANGED <<up, details, limit, listRevision, files, clock, page, running, torn>>

\* Faulty variant: a save that fails forgets what it had to do.
PendingDropped == unsaved' = {} /\ removed' = {}

(* What is pending stays pending until a save gets through.                *)
PendingKept == UNCHANGED <<unsaved, removed>>

(* Any removal or write may fail and ends the save.                        *)
SaveFails ==
  /\ saving.on /\ saving' = Nothing /\ PendingKept
  /\ UNCHANGED <<up, details, limit, listRevision, files, index, clock, page, running, torn>>

-----------------------------------------------------------------------------

(* Admin handlers: the list with its ETag.                                 *)
ShowList ==
  /\ Serving
  /\ page' = [revision |-> listRevision, list |-> details]
  /\ UNCHANGED <<up, details, limit, listRevision, unsaved, removed, saving, files, index,
                 clock, running, torn>>

\* Faulty variant: interrupted streams keep their revision, and the list its.
InterruptedQuietly(list, gone) ==
  /\ SaveHistory([c \in Chats |-> [list[c] EXCEPT !.streaming = FALSE]], index.limit,
                 {c \in Listed(list) : list[c].streaming}, gone)
  /\ listRevision' = index.revision
  /\ UNCHANGED <<clock, torn>>

(* markInterruptedStreamingLocked: each gets a revision, in some order.    *)
Interrupted(list, gone) ==
  LET streaming == {c \in Listed(list) : list[c].streaming}
      count == Cardinality(streaming)
  IN /\ clock + count <= MaxRevision
     /\ \E number \in [streaming -> (clock + 1)..(clock + count)] :
          /\ \A c, d \in streaming : number[c] = number[d] => c = d
          /\ SaveHistory([c \in Chats |-> IF c \in streaming
                                          THEN [list[c] EXCEPT !.streaming = FALSE,
                                                               !.revision = number[c]]
                                          ELSE list[c]],
                         index.limit, streaming, gone)
     /\ clock' = clock + count
     /\ listRevision' = IF count = 0 THEN index.revision ELSE clock'
     /\ torn' = IF count = 0 /\ list # index.list THEN torn \cup {index.revision} ELSE torn

(* loadLocked: the index says which details to read.  One that is missing  *)
(* is skipped; one that cannot be read as well, and its file is removed.   *)
LoadHistory(unreadable) ==
  LET readable == (Listed(index.list) \cap Listed(files)) \ unreadable
  IN /\ ~up /\ up' = TRUE
     /\ unreadable \subseteq Listed(index.list) \cap Listed(files)
     /\ IF index.there
        THEN Interrupted([c \in Chats |-> IF c \in readable THEN files[c] ELSE NoDetail],
                         unreadable)
        ELSE /\ SaveHistory(NoDetails, DefaultLimit, {}, {})
             /\ listRevision' = 0 /\ UNCHANGED <<clock, torn>>
     /\ UNCHANGED <<files, index, page, running>>

(* The process ends, between operations or in the middle of a save.        *)
HistoryCrash ==
  /\ up /\ up' = FALSE
  /\ details' = NoDetails /\ limit' = DefaultLimit /\ listRevision' = 0
  /\ unsaved' = {} /\ removed' = {} /\ saving' = Nothing /\ running' = {}
  /\ UNCHANGED <<files, index, clock, page, torn>>

HistoryNext ==
  \/ \E c \in Chats : \/ StartChat(c) \/ DeleteChat(c) \/ RemoveFile(c) \/ WriteFile(c)
                      \/ \E ended \in BOOLEAN : UpdateChat(c, ended)
  \/ ClearChats \/ \E max \in Limits : SetLimit(max)
  \/ WriteIndex \/ SaveFails \/ ShowList
  \/ \E unreadable \in SUBSET Chats : LoadHistory(unreadable)
  \/ HistoryCrash

HistorySpec == HistoryInit /\ [][HistoryNext]_historyVars

-----------------------------------------------------------------------------
(***************************************************************************)
(* Properties.                                                             *)
(***************************************************************************)

(* Whatever writes and removals failed before, the disk differs from the   *)
(* memory only where the next save will write or remove; and the index     *)
(* lists no conversation that is gone from memory unless its removal, too, *)
(* is still to come.                                                       *)
PendingCoversDisk ==
  up => /\ \A c \in Listed(details) \ unsaved : files[c] = details[c]
        /\ \A c \in Listed(index.list) \ Listed(details) : c \in removed \/ ~files[c].there

(* An open page whose ETag still matches shows the list as it is, across   *)
(* failed saves, crashes and restarts.  Not for a torn list: a crash       *)
(* between the files and the index, or a file that is lost, with no stream *)
(* to interrupt, puts a new list under the revision of the old one.        *)
ETagTellsLists ==
  Serving /\ page.revision = listRevision /\ listRevision \notin torn \cup {0}
    => page.list = details

(* What the history shows and what it saves: the page and the disk.        *)
HistoryShownAndSaved == PendingCoversDisk /\ ETagTellsLists
=============================================================================
