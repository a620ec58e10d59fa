------------------------------ MODULE UploadReuse ------------------------------
(***************************************************************************)
(* Uploads that are not repeated (deepseek/client/upload_reuse_cache.go,   *)
(* client_upload_reuse.go).  Requests that need the same file under the    *)
(* same identity share one flight; what it brings is kept for a while, and *)
(* a later hit is checked upstream before it is used.  Deleting an         *)
(* identity's sessions deletes its files, so that its entries go too.      *)
(*                                                                         *)
(* One file is wanted, so that the key of an entry or a flight is the      *)
(* identity (account and token) it was looked up under.  c.mu is held for  *)
(* UploadTurn and UploadPublished; validating and uploading happen in      *)
(* between, and may change the leader's own identity: the token is         *)
(* refreshed, or, uploading, the request moves to another account.         *)
(* Upstream a file is its account's.  Time is abstract: an entry may       *)
(* expire at any moment.                                                   *)
(***************************************************************************)
EXTENDS Naturals, FiniteSets, Sequences

CONSTANTS
  Uploaders,      \* requests that upload
  Owners,         \* identities
  AccountOf,      \* the account of each identity
  NoUploader,
  UploadLimit,    \* entries kept (256 unless configured)
  MaxFiles,       \* files uploaded (bound)
  MaxDeletions    \* deletions of sessions (bound)

ASSUME UploadAssumption ==
  /\ NoUploader \notin Uploaders /\ DOMAIN AccountOf = Owners /\ Owners # {}
  /\ UploadLimit \in Nat \ {0} /\ MaxFiles \in Nat /\ MaxDeletions \in Nat

VARIABLES
  entries,    \* the file kept for each identity, 0 for none
  leaders,    \* who leads the flight of each identity
  epoch,      \* c.generation
  uploader,   \* of each uploader: where it is and what it knows
  cut,        \* uploaders whose context has ended
  ownerOf,    \* the identity each file was uploaded under
  deleted     \* <<f, o>>: f's sessions were deleted since, under identity o

uploadVars == <<entries, leaders, epoch, uploader, cut, ownerOf, deleted>>

NoUpload == [file |-> 0, share |-> FALSE, err |-> "none"]
UploadResults ==
  [file : 0..MaxFiles, share : BOOLEAN, err : {"none", "aborted", "failed"}]
NoNeed(o) == [at |-> "rest", key |-> o, id |-> o, cached |-> 0, gen |-> 0,
              led |-> FALSE, result |-> NoUpload]
UploadPlaces == {"rest", "enter", "waiting", "woken", "validate", "upload", "publish"}

UploadTypeOK ==
  /\ entries \in [Owners -> 0..MaxFiles]
  /\ leaders \in [Owners -> Uploaders \cup {NoUploader}]
  /\ epoch \in 0..MaxDeletions
  /\ uploader \in [Uploaders -> [at : UploadPlaces, key : Owners, id : Owners,
                                 cached : 0..MaxFiles, gen : 0..MaxDeletions,
                                 led : BOOLEAN, result : UploadResults]]
  /\ cut \subseteq Uploaders
  /\ \E n \in 0..MaxFiles : ownerOf \in [1..n -> Owners]
  /\ deleted \subseteq (DOMAIN ownerOf) \X Owners

UploadInit ==
  /\ entries = [o \in Owners |-> 0] /\ leaders = [o \in Owners |-> NoUploader]
  /\ epoch = 0 /\ uploader \in [Uploaders -> {NoNeed(CHOOSE o \in Owners : TRUE)}]
  /\ cut = {} /\ ownerOf = <<>> /\ deleted = {}

-----------------------------------------------------------------------------

UpAt(u, place) == uploader[u].at = place
KeptEntries == {o \in Owners : entries[o] # 0}

NeedFile(u) ==
  /\ UpAt(u, "rest") /\ uploader[u].result = NoUpload
  /\ \E o \in Owners :
       uploader' = [uploader EXCEPT ![u] = [NoNeed(o) EXCEPT !.at = "enter"]]
  /\ UNCHANGED <<entries, leaders, epoch, cut, ownerOf, deleted>>

(* "aborted" is a context that has ended, the caller's or one with a time  *)
(* limit of the client's own.                                              *)
Failures == {"failed", "aborted"}
UploadReturns(u, got) ==
  [NoNeed(uploader[u].id) EXCEPT !.result = got, !.led = uploader[u].led]
UploadAborted == [NoUpload EXCEPT !.err = "aborted"]

(* One turn of do's loop.                                                  *)
UploadTurn(u) ==
  /\ UpAt(u, "enter")
  /\ LET k == uploader[u].key IN
     \/ /\ u \in cut
        /\ uploader' = [uploader EXCEPT ![u] = UploadReturns(u, UploadAborted)]
        /\ UNCHANGED leaders
     \/ /\ u \notin cut /\ leaders[k] # NoUploader
        /\ uploader' = [uploader EXCEPT ![u].at = "waiting", ![u].led = FALSE]
        /\ UNCHANGED leaders
     \/ /\ u \notin cut /\ leaders[k] = NoUploader
        /\ leaders' = [leaders EXCEPT ![k] = u]
        /\ uploader' = [uploader EXCEPT
             ![u].at = IF entries[k] # 0 THEN "validate" ELSE "upload",
             ![u].led = TRUE, ![u].cached = entries[k], ![u].gen = epoch]
  /\ UNCHANGED <<entries, epoch, cut, ownerOf, deleted>>

\* Faulty variant: a result that is not to be shared is taken over.
TriesAgainIfAborted(got) == got.err = "aborted"
TriesAgain(got) == got.err = "aborted" \/ (got.err = "none" /\ ~got.share)

(* A waiter whose flight has landed; one whose context has ended too may   *)
(* see either.                                                             *)
UploadWoken(u) ==
  /\ UpAt(u, "woken")
  /\ uploader' = [uploader EXCEPT ![u] =
       IF TriesAgain(uploader[u].result)
       THEN [@ EXCEPT !.at = "enter", !.result = NoUpload]
       ELSE UploadReturns(u, uploader[u].result)]
  /\ UNCHANGED <<entries, leaders, epoch, cut, ownerOf, deleted>>

WaitGivenUp(u) ==
  /\ uploader[u].at \in {"waiting", "woken"} /\ u \in cut
  /\ uploader' = [uploader EXCEPT ![u] = UploadReturns(u, UploadAborted)]
  /\ UNCHANGED <<entries, leaders, epoch, cut, ownerOf, deleted>>

\* Faulty variant: a result is lent out under any identity.
AnyIdentity(u, id) == id \in Owners
SameIdentity(u, id) == id = uploader[u].key

Gone(f) == \E o \in Owners : <<f, o>> \in deleted
Siblings(o) == {p \in Owners : AccountOf[p] = AccountOf[o]}

(* FetchUploadedFile: the file is there; it is gone or useless, so that    *)
(* the entry is forgotten and the file uploaded anew; or the question      *)
(* fails, which proves nothing.  It may have taken a fresh token.          *)
ValidateUpload(u) ==
  /\ UpAt(u, "validate")
  /\ \E id \in Siblings(uploader[u].id) :
     \/ /\ ~Gone(uploader[u].cached)
        /\ uploader' = [uploader EXCEPT ![u].at = "publish", ![u].id = id,
                            ![u].result = [NoUpload EXCEPT !.file = uploader[u].cached,
                                                           !.share = SameIdentity(u, id)]]
        /\ UNCHANGED entries
     \/ /\ entries' = [entries EXCEPT ![uploader[u].key] = 0]
        /\ uploader' = [uploader EXCEPT ![u].at = "upload", ![u].id = id]
     \/ /\ \E err \in Failures :
             uploader' = [uploader EXCEPT ![u].at = "publish", ![u].id = id,
                                          ![u].result = [NoUpload EXCEPT !.err = err]]
        /\ UNCHANGED entries
  /\ UNCHANGED <<leaders, epoch, cut, ownerOf, deleted>>

(* The retries of an upload may leave the leader with another identity,    *)
(* under which the file then is.                                           *)
UploadFile(u) ==
  /\ UpAt(u, "upload")
  /\ \E id \in Owners :
     \/ /\ Len(ownerOf) < MaxFiles
        /\ ownerOf' = Append(ownerOf, id)
        /\ uploader' = [uploader EXCEPT ![u].at = "publish", ![u].id = id,
                            ![u].result = [file |-> Len(ownerOf) + 1,
                                           share |-> SameIdentity(u, id), err |-> "none"]]
     \/ /\ \E err \in Failures :
             uploader' = [uploader EXCEPT ![u].at = "publish", ![u].id = id,
                              ![u].result = [NoUpload EXCEPT !.err = err,
                                               !.share = SameIdentity(u, id)]]
        /\ UNCHANGED ownerOf
  /\ UNCHANGED <<entries, leaders, epoch, cut, deleted>>

\* Faulty variant: what was invalidated meanwhile comes back.
SharedResultAnyway(u) == uploader[u].result.share
SharedResult(u) == uploader[u].result.share /\ uploader[u].gen = epoch

(* Another entry makes room: the one that expires first, which may be any. *)
UploadPublished(u) ==
  /\ UpAt(u, "publish")
  /\ LET k == uploader[u].key
         got == [uploader[u].result EXCEPT !.share = SharedResult(u)]
     IN /\ \/ /\ got.err = "none" /\ got.share
              /\ \/ entries' = [entries EXCEPT ![k] = got.file]
                 \/ /\ k \notin KeptEntries /\ Cardinality(KeptEntries) >= UploadLimit
                    /\ \E o \in KeptEntries :
                         entries' = [entries EXCEPT ![k] = got.file, ![o] = 0]
              /\ Cardinality({o \in Owners : entries'[o] # 0}) <= UploadLimit
           \/ /\ ~(got.err = "none" /\ got.share) /\ UNCHANGED entries
           \/ /\ got.file # 0 /\ UNCHANGED entries     \* a file with a failed status
        /\ leaders' = [leaders EXCEPT ![k] = NoUploader]
        /\ uploader' = [v \in Uploaders |->
             IF v = u THEN UploadReturns(u, got)
             ELSE IF UpAt(v, "waiting") /\ uploader[v].key = k
                  THEN [uploader[v] EXCEPT !.at = "woken", !.result = got]
             ELSE uploader[v]]
  /\ UNCHANGED <<epoch, cut, ownerOf, deleted>>

(* An account's sessions are deleted, and its files with them; only the    *)
(* entries of the token that asked for it are known to be stale.           *)
InvalidateOwner(o) ==
  /\ epoch < MaxDeletions
  /\ epoch' = epoch + 1
  /\ entries' = [entries EXCEPT ![o] = 0]
  /\ deleted' = deleted \cup
       {<<f, o>> : f \in {g \in DOMAIN ownerOf : AccountOf[ownerOf[g]] = AccountOf[o]}}
  /\ UNCHANGED <<leaders, uploader, cut, ownerOf>>

EntryExpires ==
  /\ \E o \in KeptEntries : entries' = [entries EXCEPT ![o] = 0]
  /\ UNCHANGED <<leaders, epoch, uploader, cut, ownerOf, deleted>>

UploadContextEnds(u) ==
  /\ u \notin cut /\ ~UpAt(u, "rest")
  /\ cut' = cut \cup {u}
  /\ UNCHANGED <<entries, leaders, epoch, uploader, ownerOf, deleted>>

UploadSteps(u) ==
  \/ UploadTurn(u) \/ UploadWoken(u) \/ WaitGivenUp(u)
  \/ ValidateUpload(u) \/ UploadFile(u) \/ UploadPublished(u)

UploadNext ==
  \/ \E u \in Uploaders : NeedFile(u) \/ UploadSteps(u) \/ UploadContextEnds(u)
  \/ \E o \in Owners : InvalidateOwner(o)
  \/ EntryExpires

UploadSpec ==
  /\ UploadInit /\ [][UploadNext]_uploadVars
  /\ \A u \in Uploaders : WF_uploadVars(UploadSteps(u))

-----------------------------------------------------------------------------

(* A request that returns with a file has one of the account it is on by   *)
(* then; a cached file is of the identity it is kept for and was not       *)
(* deleted with that identity's sessions; and nobody is told of another    *)
(* request's cancellation: a request that only waited returns with one     *)
(* when its own context has ended.                                         *)
UploadsFresh ==
  /\ \A u \in Uploaders :
       UpAt(u, "rest") =>
         /\ LET f == uploader[u].result.file IN
            f # 0 => AccountOf[ownerOf[f]] = AccountOf[uploader[u].id]
         /\ uploader[u].result.err = "aborted" => u \in cut \/ uploader[u].led
  /\ \A o \in KeptEntries : ownerOf[entries[o]] = o /\ <<entries[o], o>> \notin deleted
  /\ Cardinality(KeptEntries) <= UploadLimit

(* Whoever asks for a file is told: no flight is left without a leader.    *)
UploadsEnd == \A u \in Uploaders : []<>UpAt(u, "rest")
=============================================================================
