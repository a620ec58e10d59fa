-------------------------- MODULE MCRequestPathProofs --------------------------
(***************************************************************************)
(* The run that checks the request path explores each component by itself. *)
(* What is proved of each holds of the whole, for every value of the       *)
(* constants: a step is one of its subject's and leaves the others alone.  *)
(* The inductive invariants of the components leave open how far their     *)
(* counters go; the bounds are inductive beside them, and with them every  *)
(* component keeps to its types.                                           *)
(***************************************************************************)
EXTENDS MCRequestPath, RequestPathProofs, ManagedRequestProofs, SequenceTheorems

-----------------------------------------------------------------------------
(***************************************************************************)
(* BridgeRegistry and AutoContinue need no bound of their own.             *)
(***************************************************************************)

LEMMA BridgeTypes == BridgeInv => BridgeTypeOK
<1> SUFFICES ASSUME BridgeInv PROVE BridgeTypeOK
  OBVIOUS
<1>1. Proxies \cup {CHOOSE p \in Proxies : TRUE} = Proxies
  BY BridgeAssumption
<1>2. BridgeShape
  BY DEF BridgeInv
<1>3. DialerType = [at : {"rest", "evict", "discard"} \cup DialingPlaces, proxy : Proxies,
                    on : Instances \cup {NoInstance}, retired : Instances \cup {NoInstance}]
  BY <1>1 DEF DialerType
<1> QED BY <1>2, <1>3 DEF BridgeShape, BridgeTypeOK, InstanceType

LEMMA ContinueTypes == ContinueInv => ContinueTypeOK
<1> SUFFICES ASSUME ContinueInv PROVE ContinueTypeOK
  OBVIOUS
<1>1. PumpTypeOK /\ PiecesInOrder /\ BodiesRead
  BY DEF ContinueInv
<1>2. Handed \in 0..Pieces
  <2>1. pump.line \in 0..Pieces /\ served.pieces \in 0..Pieces /\ Pieces \in Nat
    BY <1>1, ContinueAssumption DEF PumpTypeOK
  <2> QED BY <1>1, <2>1 DEF PiecesInOrder, Handed
<1>3. UpTo(Handed) \in [1..Handed -> 1..Pieces]
  BY <1>2, ContinueAssumption DEF UpTo
<1>4. reader.got \in UNION {[1..n -> 1..Pieces] : n \in 0..Pieces}
  <2>1. [1..Handed -> 1..Pieces] \in {[1..n -> 1..Pieces] : n \in 0..Pieces}
    BY <1>2
  <2> QED BY <1>1, <1>3, <2>1 DEF PiecesInOrder
<1>5. reader \in [got : UNION {[1..n -> 1..Pieces] : n \in 0..Pieces},
                  done : BOOLEAN, on : BOOLEAN]
  <2> DEFINE G == UNION {[1..n -> 1..Pieces] : n \in 0..Pieces}
  <2>1. /\ reader.got \in G /\ reader.done \in BOOLEAN /\ reader.on \in BOOLEAN
        /\ reader = [got |-> reader.got, done |-> reader.done, on |-> reader.on]
    BY <1>1, <1>4 DEF PumpTypeOK
  <2> HIDE DEF G
  <2>2. reader \in [got : G, done : BOOLEAN, on : BOOLEAN]
    BY <2>1, Zenon
  <2> QED BY <2>2 DEF G
<1>6. bodies \subseteq 0..MaxRounds
  BY <1>1 DEF PumpTypeOK, BodiesRead
<1> QED BY <1>1, <1>5, <1>6 DEF ContinueTypeOK, PumpTypeOK

-----------------------------------------------------------------------------
(***************************************************************************)
(* CollectedAnswer.  Every attempt beyond the first of its session is one  *)
(* of the retries.                                                         *)
(***************************************************************************)

CollectBounded ==
  /\ loop.attempt <= loop.attempts + loop.session
  /\ loop.session <= MaxSession
  /\ sessionOf \in Seq(1..MaxSession) /\ ownerOfSession \in Seq(CollectAccounts)
  /\ returned \in [answer : 0..MaxAttempt, thoughts : SUBSET (1..MaxAttempt),
                   err : CollectErrors \cup {"none"}]

LEMMA CollectNumbers ==
  ASSUME LoopTypeOK, CollectBounded
  PROVE  /\ loop.attempt \in 1..MaxAttempt /\ loop.session \in 1..MaxSession
         /\ loop.attempts \in 0..CollectRetries
         /\ MaxSession \in Nat \ {0} /\ MaxAttempt = CollectRetries + MaxSession
         /\ CollectRetries \in Nat
<1>1. /\ MaxSession \in Nat \ {0} /\ MaxAttempt = CollectRetries + MaxSession
      /\ CollectRetries \in Nat
  BY CollectAssumption DEF MaxAttempt, MaxSession
<1>2. /\ loop.attempt \in Nat \ {0} /\ loop.attempts \in 0..CollectRetries
      /\ loop.session \in Nat \ {0}
  BY DEF LoopTypeOK, LoopType
<1>3. loop.attempt <= loop.attempts + loop.session /\ loop.session <= MaxSession
  BY DEF CollectBounded
<1> DEFINE a == loop.attempt
           r == loop.attempts
           s == loop.session
<1>4. a \in 1..MaxAttempt /\ s \in 1..MaxSession
  <2> HIDE DEF a, r, s
  <2> QED BY ONLY <1>1, <1>2, <1>3 DEF a, r, s
<1> QED BY <1>1, <1>2, <1>4

LEMMA CollectBoundedInit == CollectInit => CollectBounded
<1> SUFFICES ASSUME CollectInit PROVE CollectBounded
  OBVIOUS
<1>1. MaxSession \in Nat \ {0} /\ MaxAttempt \in Nat \ {0} /\ 1 \in 1..MaxSession
  BY CollectAssumption DEF MaxSession, MaxAttempt
<1>2. /\ loop.attempt = 1 /\ loop.attempts = 0 /\ loop.session = 1
      /\ sessionOf = <<1>> /\ ownerOfSession = <<1>> /\ returned = NothingReturned
  BY DEF CollectInit
<1>3. <<1>> \in Seq(1..MaxSession)
  BY <1>1
<1>4. NothingReturned \in [answer : 0..MaxAttempt, thoughts : SUBSET (1..MaxAttempt),
                           err : CollectErrors \cup {"none"}]
  BY <1>1 DEF NothingReturned
<1> QED BY <1>1, <1>2, <1>3, <1>4 DEF CollectBounded, CollectAccounts

LEMMA CollectBoundedStep ==
  ASSUME CollectInv, CollectBounded, [CollectNext]_collectVars PROVE CollectBounded'
<1>1. /\ loop \in LoopType /\ thoughts \subseteq 1..loop.attempt
      /\ loop.attempt \in 1..MaxAttempt /\ loop.session \in 1..MaxSession
      /\ loop.attempts \in 0..CollectRetries
      /\ MaxSession \in Nat \ {0} /\ MaxAttempt = CollectRetries + MaxSession
      /\ CollectRetries \in Nat
  BY CollectNumbers DEF CollectInv, LoopTypeOK
<1> DEFINE Turns == [answer : 0..MaxAttempt, thoughts : SUBSET (1..MaxAttempt),
                     err : CollectErrors \cup {"none"}]
<1>2. ASSUME UNCHANGED <<sessionOf, ownerOfSession>>, returned' \in Turns,
             loop'.attempt = loop.attempt, loop'.session = loop.session,
             loop'.attempts \in {loop.attempts, loop.attempts + 1}
      PROVE  CollectBounded'
  <2> HIDE DEF Turns
  <2>1. loop.attempt <= loop'.attempts + loop.session
    <3>1. loop.attempt <= loop.attempts + loop.session
      BY DEF CollectBounded
    <3>2. /\ loop.attempt \in Nat /\ loop.attempts \in Nat /\ loop.session \in Nat
      BY <1>1, CollectAssumption DEF MaxAttempt
    <3> QED BY <1>2, <3>1, <3>2
  <2> QED BY <1>2, <2>1 DEF CollectBounded, Turns, CollectAccounts, MaxSession, MaxAttempt
<1>3. returned \in Turns
  BY DEF CollectBounded
<1>4. ASSUME NEW err \in CollectErrors \cup {"none"}
      PROVE  [answer |-> 0, thoughts |-> {}, err |-> err] \in Turns
  BY <1>1
<1>5. loop.err \in CollectErrors \cup {"none"}
  BY <1>1 DEF LoopType
<1>6. CASE AttemptFails \/ AsksAnother
  <2>1. \E place, err : CollectTo(place, err)
    BY <1>6 DEF AttemptFails, AsksAnother
  <2>2. /\ loop'.attempt = loop.attempt /\ loop'.session = loop.session
        /\ loop'.attempts = loop.attempts
    BY <1>1, <2>1 DEF CollectTo, LoopType
  <2>3. UNCHANGED <<sessionOf, ownerOfSession, returned>>
    BY <1>6 DEF AttemptFails, AsksAnother
  <2> QED BY <1>2, <1>3, <2>2, <2>3
<1>7. CASE AttemptRead
  <2>1. /\ UNCHANGED <<sessionOf, ownerOfSession, returned>>
        /\ \E err, a, strayed : loop' = [loop EXCEPT !.at = "decide", !.err = err,
                                                    !.account = a, !.strayed = strayed]
    BY <1>7, Zenon DEF AttemptRead
  <2>2. /\ loop'.attempt = loop.attempt /\ loop'.session = loop.session
        /\ loop'.attempts = loop.attempts
    BY <1>1, <2>1 DEF LoopType
  <2> QED BY <1>2, <1>3, <2>1, <2>2
<1>8. CASE ReturnsTurn
  <2>1. /\ UNCHANGED <<sessionOf, ownerOfSession>> /\ CollectTo("over", "none")
        /\ returned' = [answer |-> loop.attempt, thoughts |-> thoughts, err |-> "none"]
    BY <1>8 DEF ReturnsTurn
  <2>2. /\ loop'.attempt = loop.attempt /\ loop'.session = loop.session
        /\ loop'.attempts = loop.attempts
    BY <1>1, <2>1 DEF CollectTo, LoopType
  <2>3. loop.attempt \in 0..MaxAttempt /\ thoughts \in SUBSET (1..MaxAttempt)
    BY <1>1
  <2>4. returned' \in Turns
    BY <2>1, <2>3
  <2> QED BY <1>2, <2>1, <2>2, <2>4
<1>9. CASE RegeneratesCollected
  <2>1. UNCHANGED <<ownerOfSession, returned>>
    BY <1>9 DEF RegeneratesCollected
  <2>2. CASE sessionOf' = sessionOf
    <3>1. ~NextAttempt(loop.session)
      <4>1. sessionOf \in Seq(1..MaxSession)
        BY DEF CollectBounded
      <4>2. Append(sessionOf, loop.session) # sessionOf
        BY <1>1, <4>1, AppendProperties, LenProperties
      <4> QED BY <2>2, <4>2 DEF NextAttempt
    <3>2. PICK err : loop' = [loop EXCEPT !.at = "switch", !.attempts = @ + 1, !.err = err]
      BY <1>9, <3>1 DEF RegeneratesCollected
    <3>3. /\ loop'.attempt = loop.attempt /\ loop'.session = loop.session
          /\ loop'.attempts = loop.attempts + 1
      BY <1>1, <3>2 DEF LoopType
    <3> QED BY <1>2, <1>3, <2>1, <2>2, <3>3
  <2>3. CASE sessionOf' # sessionOf
    <3>1. /\ loop' = [loop EXCEPT !.at = "collect", !.attempt = @ + 1, !.attempts = @ + 1,
                                  !.err = "none"]
          /\ sessionOf' = Append(sessionOf, loop.session)
      BY <1>9, <2>3 DEF RegeneratesCollected, NextAttempt
    <3>2. /\ loop'.attempt = loop.attempt + 1 /\ loop'.session = loop.session
          /\ loop'.attempts = loop.attempts + 1
      BY <1>1, <3>1 DEF LoopType
    <3>3. sessionOf' \in Seq(1..MaxSession)
      BY <1>1, <3>1, AppendProperties DEF CollectBounded
    <3>4. loop.attempt + 1 <= loop.attempts + 1 + loop.session
      <4>1. loop.attempt <= loop.attempts + loop.session
        BY DEF CollectBounded
      <4>2. /\ loop.attempt \in Nat /\ loop.attempts \in Nat /\ loop.session \in Nat
        BY <1>1, CollectAssumption DEF MaxAttempt
      <4> QED BY ONLY <4>1, <4>2
    <3> QED BY <2>1, <3>2, <3>3, <3>4 DEF CollectBounded, CollectAccounts, MaxSession, MaxAttempt
  <2> QED BY <2>2, <2>3
<1>10. CASE StartsOnAnother
  <2>1. PICK once \in BOOLEAN, a \in NextAccounts :
          /\ loop' = [loop EXCEPT !.at = "collect", !.attempt = @ + 1, !.session = @ + 1,
                                 !.account = a, !.strayed = FALSE, !.once = once,
                                 !.err = "none"]
          /\ ownerOfSession' = Append(ownerOfSession, a)
    BY <1>10, Zenon DEF StartsOnAnother
  <2>2. /\ sessionOf' = Append(sessionOf, loop.session + 1)
        /\ loop.session < MaxSession /\ returned' = returned
    BY <1>10 DEF StartsOnAnother, NextAttempt
  <2>3. /\ loop'.attempt = loop.attempt + 1 /\ loop'.session = loop.session + 1
        /\ loop'.attempts = loop.attempts
    BY <1>1, <2>1 DEF LoopType
  <2>4. loop.session + 1 \in 1..MaxSession /\ a \in CollectAccounts
    BY <1>1, <2>2, NextAccountsTyped DEF CollectInv
  <2>5. ownerOfSession' \in Seq(CollectAccounts) /\ sessionOf' \in Seq(1..MaxSession)
    BY <2>1, <2>2, <2>4, AppendProperties DEF CollectBounded
  <2>6. loop.attempt + 1 <= loop.attempts + (loop.session + 1)
    <3>1. loop.attempt <= loop.attempts + loop.session
      BY DEF CollectBounded
    <3>2. /\ loop.attempt \in Nat /\ loop.attempts \in Nat /\ loop.session \in Nat
      BY <1>1, CollectAssumption DEF MaxAttempt
    <3> QED BY ONLY <3>1, <3>2
  <2>7. loop.session + 1 <= MaxSession
    BY <1>1, <2>4
  <2> QED BY <2>2, <2>3, <2>5, <2>6, <2>7 DEF CollectBounded, CollectAccounts, MaxSession, MaxAttempt
<1>11. CASE StartFailsOnAnother \/ GivesUpCollecting
  <2>1. \E err \in CollectErrors \cup {"none"} : ReturnsError(err)
    <3>1. {"account", "once", "fatal"} \subseteq CollectErrors
      BY DEF CollectErrors
    <3>2. CASE StartFailsOnAnother
      <4>1. PICK err \in {"account", "once", "fatal"} : ReturnsError(err)
        BY <3>2 DEF StartFailsOnAnother
      <4> QED BY <3>1, <4>1
    <3>3. CASE GivesUpCollecting
      <4>1. ReturnsError(loop.err)
        BY <3>3 DEF GivesUpCollecting
      <4> QED BY <1>5, <4>1
    <3> QED BY <1>11, <3>2, <3>3
  <2>2. returned' \in Turns /\ UNCHANGED <<sessionOf, ownerOfSession>>
    BY <1>4, <2>1 DEF ReturnsError
  <2>3. /\ loop'.attempt = loop.attempt /\ loop'.session = loop.session
        /\ loop'.attempts = loop.attempts
    <3>1. CASE GivesUpCollecting
      BY <1>1, <3>1 DEF GivesUpCollecting, LoopType
    <3>2. CASE StartFailsOnAnother
      <4>1. \E a, once : loop' = [loop EXCEPT !.at = "over", !.account = a, !.once = once]
        BY <3>2, Zenon DEF StartFailsOnAnother
      <4> QED BY <1>1, <4>1 DEF LoopType
    <3> QED BY <1>11, <3>1, <3>2
  <2> QED BY <1>2, <2>2, <2>3
<1>12. CASE UNCHANGED collectVars
  BY <1>12 DEF collectVars, CollectBounded, CollectAccounts, MaxSession, MaxAttempt
<1> QED BY <1>6, <1>7, <1>8, <1>9, <1>10, <1>11, <1>12 DEF CollectNext

LEMMA CollectTypes == CollectInv /\ CollectBounded => CollectTypeOK
<1> SUFFICES ASSUME CollectInv, CollectBounded PROVE CollectTypeOK
  OBVIOUS
<1>1. /\ LoopTypeOK
      /\ loop.attempt \in 1..MaxAttempt /\ loop.session \in 1..MaxSession
      /\ loop.attempts \in 0..CollectRetries
      /\ MaxSession \in Nat \ {0} /\ MaxAttempt = CollectRetries + MaxSession
      /\ CollectRetries \in Nat
  BY CollectNumbers DEF CollectInv
<1>2. loop \in [at : {"collect", "decide", "switch", "over"}, attempt : 1..MaxAttempt,
               attempts : 0..CollectRetries, session : 1..MaxSession,
               account : CollectAccounts, strayed : BOOLEAN,
               once : BOOLEAN, managed : BOOLEAN,
               err : CollectErrors \cup {"none"}]
  BY <1>1 DEF LoopTypeOK, LoopType
<1>3. thoughts \subseteq 1..MaxAttempt /\ unusable \subseteq 1..MaxAttempt
  <2>1. thoughts \subseteq 1..loop.attempt /\ unusable \subseteq 1..loop.attempt
    BY <1>1 DEF LoopTypeOK
  <2>2. 1..loop.attempt \subseteq 1..MaxAttempt
    BY <1>1
  <2> QED BY ONLY <2>1, <2>2
<1>4. \E n \in 1..MaxAttempt : sessionOf \in [1..n -> 1..MaxSession]
  <2>1. Len(sessionOf) \in 1..MaxAttempt
    BY <1>1 DEF LoopTypeOK
  <2>2. sessionOf \in [1..Len(sessionOf) -> 1..MaxSession]
    BY LenProperties DEF CollectBounded
  <2> QED BY <2>1, <2>2
<1>5. \E n \in 1..MaxSession : ownerOfSession \in [1..n -> CollectAccounts]
  <2>1. Len(ownerOfSession) \in 1..MaxSession
    BY <1>1 DEF LoopTypeOK
  <2>2. ownerOfSession \in [1..Len(ownerOfSession) -> CollectAccounts]
    BY LenProperties DEF CollectBounded
  <2> QED BY <2>1, <2>2
<1>6. unread \subseteq 1..MaxAttempt
  BY <1>1 DEF CollectInv, ResponsesClosed
<1> QED BY <1>2, <1>3, <1>4, <1>5, <1>6 DEF CollectTypeOK, CollectBounded

-----------------------------------------------------------------------------
(***************************************************************************)
(* UploadReuse.  What an uploader remembers of the cache is a file that    *)
(* was uploaded.                                                           *)
(***************************************************************************)

UploadBounded ==
  /\ leaders \in [Owners -> Uploaders \cup {NoUploader}] /\ cut \subseteq Uploaders
  /\ epoch <= MaxDeletions /\ Len(ownerOf) <= MaxFiles
  /\ \A u \in Uploaders : uploader[u].cached <= Len(ownerOf)

(* What an uploader holds of the cache it read there.                      *)
ReadsCache(u) ==
  uploader'[u].cached \in {uploader[u].cached, 0} \cup {entries[o] : o \in Owners}

LEMMA UploadBoundedInit == UploadInit => UploadBounded
<1> SUFFICES ASSUME UploadInit PROVE UploadBounded
  OBVIOUS
<1>1. /\ leaders = [o \in Owners |-> NoUploader] /\ epoch = 0 /\ cut = {} /\ ownerOf = <<>>
      /\ uploader \in [Uploaders -> {NoNeed(CHOOSE o \in Owners : TRUE)}]
  BY DEF UploadInit
<1>2. \A u \in Uploaders : uploader[u].cached = 0
  BY <1>1 DEF NoNeed
<1>3. MaxDeletions \in Nat /\ MaxFiles \in Nat /\ Len(ownerOf) = 0
  BY <1>1, UploadAssumption
<1> QED BY <1>1, <1>2, <1>3 DEF UploadBounded

LEMMA NothingCached ==
  ASSUME NEW u \in Uploaders, NEW got, NEW o
  PROVE  NoNeed(o).cached = 0 /\ UploadReturns(u, got).cached = 0
BY DEF NoNeed, UploadReturns

LEMMA OneCached ==
  ASSUME UploadInv, NEW u \in Uploaders, NEW w, uploader' = [uploader EXCEPT ![u] = w],
         w.cached \in {uploader[u].cached, 0} \cup {entries[o] : o \in Owners}
  PROVE  \A v \in Uploaders : ReadsCache(v)
<1>1. DOMAIN uploader = Uploaders
  BY UploadersTyped DEF UploadInv, UploadShape
<1> QED BY <1>1 DEF ReadsCache

LEMMA CacheRead ==
  ASSUME UploadInv, NEW u \in Uploaders, NeedFile(u) \/ UploadSteps(u)
  PROVE  \A v \in Uploaders : ReadsCache(v)
<1> DEFINE w == uploader[u]
<1>1. w \in UploaderType /\ DOMAIN uploader = Uploaders /\ w.key \in Owners
  BY UploadersTyped
<1>2. CASE NeedFile(u)
  <2>1. PICK o \in Owners : uploader' = [uploader EXCEPT ![u] = [NoNeed(o) EXCEPT !.at = "enter"]]
    BY <1>2 DEF NeedFile
  <2>2. [NoNeed(o) EXCEPT !.at = "enter"].cached = 0
    BY DEF NoNeed
  <2> QED BY <2>1, <2>2, OneCached
<1>3. CASE UploadTurn(u) /\ uploader' = [uploader EXCEPT ![u] = UploadReturns(u, UploadAborted)]
  BY <1>3, NothingCached, OneCached
<1>4. CASE UploadTurn(u) /\ uploader' = [uploader EXCEPT ![u].at = "waiting", ![u].led = FALSE]
  BY <1>1, <1>4 DEF ReadsCache, UploaderType
<1>5. CASE /\ UploadTurn(u)
           /\ uploader' = [uploader EXCEPT
                 ![u].at = IF entries[w.key] # 0 THEN "validate" ELSE "upload",
                 ![u].led = TRUE, ![u].cached = entries[w.key], ![u].gen = epoch]
  BY <1>1, <1>5 DEF ReadsCache, UploaderType
<1>6. CASE UploadTurn(u)
  BY <1>3, <1>4, <1>5, <1>6 DEF UploadTurn
<1>7. CASE UploadWoken(u)
  <2>1. PICK x : /\ uploader' = [uploader EXCEPT ![u] = x]
                 /\ \/ x = [w EXCEPT !.at = "enter", !.result = NoUpload]
                    \/ x = UploadReturns(u, w.result)
    BY <1>7 DEF UploadWoken
  <2>2. x.cached \in {w.cached, 0}
    BY <1>1, <2>1, NothingCached DEF UploaderType
  <2> QED BY <2>1, <2>2, OneCached
<1>8. CASE WaitGivenUp(u)
  BY <1>8, NothingCached, OneCached DEF WaitGivenUp
<1>9. CASE ValidateUpload(u)
  <2>1. PICK x : uploader' = [uploader EXCEPT ![u] = x] /\ x.cached = w.cached
    BY <1>1, <1>9 DEF ValidateUpload, UploaderType
  <2> QED BY <2>1, OneCached
<1>10. CASE UploadFile(u)
  <2>1. PICK id, got :
          uploader' = [uploader EXCEPT ![u].at = "publish", ![u].id = id, ![u].result = got]
    BY <1>10 DEF UploadFile
  <2> DEFINE x == [w EXCEPT !.at = "publish", !.id = id, !.result = got]
  <2>2. uploader' = [uploader EXCEPT ![u] = x]
    BY <1>1, <2>1
  <2>3. x.cached = w.cached
    BY <1>1 DEF UploaderType
  <2> HIDE DEF x
  <2> QED BY <2>2, <2>3, OneCached
<1>11. CASE UploadPublished(u)
  <2>1. ASSUME NEW v \in Uploaders PROVE ReadsCache(v)
    <3>1. uploader[v] \in UploaderType
      BY UploadersTyped
    <3>2. PICK got : \/ uploader'[v] = UploadReturns(v, got) \/ uploader'[v] = uploader[v]
                     \/ uploader'[v] = [uploader[v] EXCEPT !.at = "woken", !.result = got]
      BY <1>11 DEF UploadPublished
    <3>3. uploader'[v].cached \in {uploader[v].cached, 0}
      BY <3>1, <3>2, NothingCached DEF UploaderType
    <3> QED BY <3>3 DEF ReadsCache
  <2> QED BY <2>1
<1> QED BY <1>2, <1>6, <1>7, <1>8, <1>9, <1>10, <1>11 DEF UploadSteps

LEMMA UploadBoundedStep ==
  ASSUME UploadInv, UploadBounded, [UploadNext]_uploadVars PROVE UploadBounded'
<1>1. /\ Len(ownerOf) \in Nat /\ epoch \in Nat /\ ownerOf \in Seq(Owners)
      /\ MaxDeletions \in Nat /\ MaxFiles \in Nat
  BY UploadAssumption DEF UploadInv, UploadShape
<1>2. ASSUME NEW o \in Owners PROVE entries[o] \in 0..Len(ownerOf)
  <2>1. EntryFits(o)
    BY DEF UploadInv
  <2> QED BY <1>1, <2>1 DEF EntryFits, FileOf
<1>3. \A u \in Uploaders : uploader[u].cached \in 0..Len(ownerOf)
  BY <1>1 DEF UploadInv, UploadShape, UploaderType, UploadBounded
<1>4. ASSUME \A u \in Uploaders : ReadsCache(u), Len(ownerOf') \in Nat,
             Len(ownerOf) <= Len(ownerOf')
      PROVE  \A u \in Uploaders : uploader'[u].cached <= Len(ownerOf')
  BY <1>1, <1>2, <1>3, <1>4 DEF ReadsCache
<1>5. CASE \E u \in Uploaders : NeedFile(u) \/ UploadSteps(u)
  <2>1. PICK u \in Uploaders : NeedFile(u) \/ UploadSteps(u)
    BY <1>5
  <2>2. UNCHANGED <<epoch, cut>>
    BY <2>1 DEF NeedFile, UploadSteps, UploadTurn, UploadWoken, WaitGivenUp, ValidateUpload,
                UploadFile, UploadPublished
  <2>3. leaders' \in [Owners -> Uploaders \cup {NoUploader}]
    BY <2>1 DEF NeedFile, UploadSteps, UploadTurn, UploadWoken, WaitGivenUp, ValidateUpload,
                UploadFile, UploadPublished, UploadBounded
  <2>4. \/ UNCHANGED ownerOf
        \/ Len(ownerOf) < MaxFiles /\ \E id \in Owners : ownerOf' = Append(ownerOf, id)
    <3>1. CASE UploadFile(u)
      BY <3>1 DEF UploadFile
    <3>2. CASE ~UploadFile(u)
      BY <2>1, <3>2 DEF NeedFile, UploadSteps, UploadTurn, UploadWoken, WaitGivenUp,
                        ValidateUpload, UploadPublished
    <3> QED BY <3>1, <3>2
  <2>5. Len(ownerOf') \in Nat /\ Len(ownerOf) <= Len(ownerOf') /\ Len(ownerOf') <= MaxFiles
    BY <1>1, <2>4 DEF UploadBounded
  <2>6. \A v \in Uploaders : uploader'[v].cached <= Len(ownerOf')
    BY <1>4, <2>1, <2>5, CacheRead
  <2> QED BY <2>2, <2>3, <2>5, <2>6 DEF UploadBounded
<1>6. ASSUME UNCHANGED <<uploader, ownerOf, leaders>>, epoch' <= MaxDeletions,
             cut' \subseteq Uploaders
      PROVE  UploadBounded'
  BY <1>6 DEF UploadBounded
<1>7. CASE \E u \in Uploaders : UploadContextEnds(u)
  BY <1>6, <1>7 DEF UploadContextEnds, UploadBounded
<1>8. CASE \E o \in Owners : InvalidateOwner(o)
  <2>1. /\ UNCHANGED <<uploader, ownerOf, leaders, cut>>
        /\ epoch' = epoch + 1 /\ epoch < MaxDeletions
    BY <1>8 DEF InvalidateOwner
  <2>2. epoch' <= MaxDeletions
    BY <1>1, <2>1
  <2> QED BY <1>6, <2>1, <2>2 DEF UploadBounded
<1>9. CASE EntryExpires
  BY <1>6, <1>9 DEF EntryExpires, UploadBounded
<1>10. CASE UNCHANGED uploadVars
  BY <1>6, <1>10 DEF uploadVars, UploadBounded
<1> QED BY <1>5, <1>7, <1>8, <1>9, <1>10 DEF UploadNext

LEMMA UploadTypes == UploadInv /\ UploadBounded => UploadTypeOK
<1> SUFFICES ASSUME UploadInv, UploadBounded PROVE UploadTypeOK
  OBVIOUS
<1>1. /\ Len(ownerOf) \in 0..MaxFiles /\ epoch \in 0..MaxDeletions /\ ownerOf \in Seq(Owners)
      /\ MaxDeletions \in Nat /\ MaxFiles \in Nat
  BY UploadAssumption DEF UploadInv, UploadShape, UploadBounded
<1>2. entries \in [Owners -> 0..MaxFiles]
  <2>1. ASSUME NEW o \in Owners PROVE entries[o] \in 0..MaxFiles
    <3>1. EntryFits(o)
      BY DEF UploadInv
    <3> QED BY <1>1, <3>1 DEF EntryFits, FileOf
  <2>2. entries \in [Owners -> Nat]
    BY DEF UploadInv, UploadShape
  <2> QED BY <2>1, <2>2
<1>3. ASSUME NEW u \in Uploaders
      PROVE  uploader[u] \in [at : UploadPlaces, key : Owners, id : Owners,
                              cached : 0..MaxFiles, gen : 0..MaxDeletions,
                              led : BOOLEAN, result : UploadResults]
  <2>1. uploader[u] \in UploaderType /\ UploaderFits(u) /\ uploader[u].cached <= Len(ownerOf)
    BY UploadersTyped DEF UploadBounded
  <2>2. uploader[u].cached \in 0..MaxFiles /\ uploader[u].gen \in 0..MaxDeletions
    BY <1>1, <2>1 DEF UploaderType, UploaderFits
  <2>3. uploader[u].result.file \in 0..MaxFiles /\ uploader[u].result \in ResultType
    BY <1>1, <2>1 DEF UploaderFits, ResultFits, UploaderType, ResultType
  <2>4. uploader[u].result \in UploadResults
    BY <2>3 DEF ResultType, UploadResults
  <2> QED BY <2>1, <2>2, <2>4 DEF UploaderType
<1>4. \E n \in 0..MaxFiles : ownerOf \in [1..n -> Owners]
  BY <1>1
<1>5. deleted \subseteq (DOMAIN ownerOf) \X Owners
  <2>1. DOMAIN ownerOf = 1..Len(ownerOf)
    BY <1>1
  <2> QED BY <2>1 DEF UploadInv, UploadShape
<1>6. uploader = [u \in Uploaders |-> uploader[u]]
  BY DEF UploadInv, UploadShape
<1>7. leaders \in [Owners -> Uploaders \cup {NoUploader}] /\ cut \subseteq Uploaders
  BY DEF UploadBounded
<1> QED BY <1>1, <1>2, <1>3, <1>4, <1>5, <1>6, <1>7 DEF UploadTypeOK

-----------------------------------------------------------------------------
(***************************************************************************)
(* AnswerStream.  Every generation but the first is paid for: by one of the *)
(* attempts, or by one of the changes of account.                          *)
(***************************************************************************)

GenCounted ==
  gen.n + retry.alternates + (IF LoopAt("regenerate") THEN 1 ELSE 0)
    <= 1 + retry.attempts + Alternates

AnswerBounded ==
  /\ asked \in [on : Surfaces, hold : BOOLEAN, managed : BOOLEAN]
  /\ left \in BOOLEAN /\ broken \in BOOLEAN /\ GenCounted

LEMMA AnswerBoundedInit == AnswerInit => AnswerBounded
<1> SUFFICES ASSUME AnswerInit PROVE AnswerBounded
  OBVIOUS
<1>1. /\ gen.n = 1 /\ retry.at = "head" /\ retry.attempts = 0 /\ retry.alternates = Alternates
      /\ asked \in [on : Surfaces, hold : BOOLEAN, managed : BOOLEAN]
      /\ left = FALSE /\ broken = FALSE
  BY DEF AnswerInit, Generation
<1>2. Alternates \in Nat
  BY AnswerAssumption
<1>3. GenCounted
  BY <1>1, <1>2 DEF GenCounted, LoopAt
<1>4. FALSE \in BOOLEAN
  BY Zenon
<1> QED BY <1>1, <1>3, <1>4 DEF AnswerBounded

LEMMA AnswerNumbers ==
  ASSUME AnswerInv
  PROVE  /\ gen.n \in Nat \ {0} /\ retry.attempts \in 0..RetryMax
         /\ retry.alternates \in 0..Alternates /\ RetryMax \in Nat /\ Alternates \in Nat
         /\ retry \in RetryType /\ gen \in GenType
BY AnswerAssumption DEF AnswerInv, AnswerShape, RetryType, GenType

(* A step that begins no generation and asks for none.                     *)
LEMMA NoNewGeneration ==
  ASSUME AnswerInv, GenCounted, gen'.n = gen.n, retry'.attempts = retry.attempts,
         retry'.alternates \in {retry.alternates, retry.alternates - 1},
         retry'.at # "regenerate" \/ retry' = retry
  PROVE  GenCounted'
<1> DEFINE a == retry.alternates
           b == retry.attempts
           n == gen.n
<1>1. a \in Nat /\ b \in Nat /\ n \in Nat /\ Alternates \in Nat
  BY AnswerNumbers
<1>2. CASE retry' = retry
  BY <1>2 DEF GenCounted, LoopAt
<1>3. CASE retry'.at # "regenerate"
  <2>1. n + a <= 1 + b + Alternates
    <3>1. CASE LoopAt("regenerate")
      <4>1. n + a + 1 <= 1 + b + Alternates
        BY <3>1 DEF GenCounted
      <4> HIDE DEF a, b, n
      <4> QED BY <1>1, <4>1
    <3>2. CASE ~LoopAt("regenerate")
      <4>1. n + a + 0 <= 1 + b + Alternates
        BY <3>2 DEF GenCounted
      <4> HIDE DEF a, b, n
      <4> QED BY <1>1, <4>1
    <3> QED BY <3>1, <3>2
  <2>2. gen'.n + retry'.alternates + 0 <= 1 + retry'.attempts + Alternates
    <3>1. gen'.n = n /\ retry'.attempts = b /\ retry'.alternates \in {a, a - 1}
      OBVIOUS
    <3> HIDE DEF a, b, n
    <3> QED BY <1>1, <2>1, <3>1
  <2> QED BY <1>3, <2>2 DEF GenCounted, LoopAt
<1> QED BY <1>2, <1>3

LEMMA ReturningKeeps ==
  ASSUME AnswerInv, Returns
  PROVE  /\ gen'.n = gen.n /\ retry'.attempts = retry.attempts
         /\ retry'.alternates = retry.alternates /\ retry'.at = "end"
<1>1. retry \in RetryType
  BY AnswerNumbers
<1> QED BY <1>1 DEF Returns, GoTo, Generation, RetryType

LEMMA GenCountedStep ==
  ASSUME AnswerInv, GenCounted, [AnswerNext]_answerVars PROVE GenCounted'
<1>1. /\ gen.n \in Nat \ {0} /\ retry.attempts \in 0..RetryMax
      /\ retry.alternates \in 0..Alternates /\ RetryMax \in Nat /\ Alternates \in Nat
      /\ retry \in RetryType /\ gen \in GenType
  BY AnswerNumbers
<1>2. ASSUME gen'.n = gen.n, UNCHANGED retry PROVE GenCounted'
  BY <1>2 DEF GenCounted, LoopAt
<1>3. ASSUME gen'.n = gen.n, NEW to \in RetryPlaces \ {"regenerate"},
             retry'.at = to, retry'.attempts = retry.attempts,
             retry'.alternates \in {retry.alternates, retry.alternates - 1}
      PROVE  GenCounted'
  BY <1>3, NoNewGeneration
<1>4. CASE Returns
  BY <1>4, ReturningKeeps, NoNewGeneration
<1>5. CASE Parts
  <2>1. UNCHANGED retry /\ gen'.n = gen.n
    <3>1. CASE Thinks
      BY <1>1, <3>1 DEF Thinks, GenType
    <3>2. CASE WritesBlank
      BY <1>1, <3>2 DEF WritesBlank, GenType
    <3>3. CASE WritesText
      BY <1>1, <3>3 DEF WritesText, Prose, GenType
    <3>4. CASE WritesDoubtful
      BY <1>1, <3>4 DEF WritesDoubtful, Prose, GenType
    <3>5. CASE CallsTool
      BY <1>1, <3>5 DEF CallsTool, GenType
    <3> QED BY <1>5, <3>1, <3>2, <3>3, <3>4, <3>5 DEF Parts
  <2> QED BY <1>2, <2>1
<1>6. CASE StreamStops
  <2>1. gen'.n = gen.n /\ retry' = GoTo("flush")
    BY <1>1, <1>6 DEF StreamStops, GenType
  <2> QED BY <1>1, <2>1, NoNewGeneration DEF GoTo, RetryType
<1>7. CASE StreamBreaks /\ ~Returns
  <2>1. /\ gen'.n = gen.n
        /\ retry' = [GoTo("decide") EXCEPT !.resuming = TRUE] \/ retry' = GoTo("flush")
    BY <1>1, <1>7 DEF StreamBreaks, GenType
  <2> QED BY <1>1, <2>1, NoNewGeneration DEF GoTo, RetryType
<1>8. CASE Flushes
  <2>1. gen'.n = gen.n /\ retry' = GoTo("verdict")
    BY <1>1, <1>8 DEF Flushes, GenType
  <2> QED BY <1>1, <2>1, NoNewGeneration DEF GoTo, RetryType
<1>9. CASE Judges /\ ~Returns
  <2>1. Defers
    BY <1>9 DEF Judges, Succeeds, StoreRefuses, ReportsError
  <2>2. PICK err : gen' = gen /\ retry' = [GoTo("decide") EXCEPT !.err = err]
    BY <2>1 DEF Defers
  <2> QED BY <1>1, <2>2, NoNewGeneration DEF GoTo, RetryType
<1>10. CASE Consumes
  <2>1. gen' = gen /\ \E to \in {"consume", "switch"} : \E e, r :
          retry' = [retry EXCEPT !.at = to, !.resuming = r, !.err = e]
    <3>1. CASE retry' = [GoTo("consume") EXCEPT !.resuming = FALSE, !.err = "none"]
      BY <1>10, <3>1 DEF Consumes, GoTo
    <3>2. ASSUME NEW err, retry' = [GoTo("switch") EXCEPT !.err = err]
          PROVE  retry' = [retry EXCEPT !.at = "switch", !.resuming = retry.resuming, !.err = err]
      BY <1>1, <3>2 DEF GoTo, RetryType
    <3> QED BY <1>10, <3>1, <3>2 DEF Consumes
  <2>2. /\ retry'.at # "regenerate" /\ retry'.attempts = retry.attempts
        /\ retry'.alternates = retry.alternates
    BY <1>1, <2>1 DEF RetryType
  <2> QED BY <2>1, <2>2, NoNewGeneration
<1>11. CASE Decides
  <2>1. UNCHANGED gen
    BY <1>11 DEF Decides
  <2>2. CASE retry' \in {[GoTo("resume") EXCEPT !.attempts = @ + 1],
                         [GoTo("regenerate") EXCEPT !.attempts = @ + 1]}
    <3>1. retry'.attempts = retry.attempts + 1 /\ retry'.alternates = retry.alternates
      BY <1>1, <2>2 DEF GoTo, RetryType
    <3>2. ~LoopAt("regenerate")
      BY <1>11 DEF Decides, LoopAt
    <3>3. gen.n + retry.alternates + 0 <= 1 + retry.attempts + Alternates
      BY <3>2 DEF GenCounted
    <3>4. gen.n + retry.alternates + 1 <= 1 + (retry.attempts + 1) + Alternates
      BY <1>1, <3>3
    <3>5. gen.n + retry.alternates + 0 <= 1 + (retry.attempts + 1) + Alternates
      BY <1>1, <3>3
    <3> QED BY <2>1, <3>1, <3>4, <3>5 DEF GenCounted
  <2>3. CASE retry' \in {[GoTo("refused") EXCEPT !.err = "fatal"], GoTo("switch")}
    BY <1>1, <2>1, <2>3, NoNewGeneration DEF GoTo, RetryType
  <2> QED BY <1>1, <1>11, <2>2, <2>3 DEF Decides
<1>12. CASE Resumes
  BY <1>1, <1>12, NoNewGeneration DEF Resumes, GoTo, RetryType
<1>13. CASE Regenerates
  <2>1. CASE gen' = gen
    <3>1. PICK err : retry' = [GoTo("switch") EXCEPT !.err = err] \/ retry' = GoTo("head")
      BY <1>13 DEF Regenerates
    <3> QED BY <1>1, <2>1, <3>1, NoNewGeneration DEF GoTo, RetryType
  <2>2. CASE gen' # gen
    <3>1. gen' = ResetForRegeneration /\ retry' = GoTo("head") /\ LoopAt("regenerate")
      BY <1>13, <2>2 DEF Regenerates
    <3>2. /\ gen'.n = gen.n + 1 /\ retry'.at = "head"
          /\ retry'.attempts = retry.attempts /\ retry'.alternates = retry.alternates
      BY <1>1, <3>1 DEF ResetForRegeneration, Generation, GoTo, RetryType
    <3>3. gen.n + retry.alternates + 1 <= 1 + retry.attempts + Alternates
      BY <3>1 DEF GenCounted
    <3>4. (gen.n + 1) + retry.alternates + 0 <= 1 + retry.attempts + Alternates
      BY <1>1, <3>3
    <3> QED BY <3>2, <3>4 DEF GenCounted, LoopAt
  <2> QED BY <2>1, <2>2
<1>14. CASE SwitchesAccount
  <2>1. /\ gen'.n = gen.n + 1 /\ retry'.at = "head" /\ LoopAt("switch")
        /\ retry'.attempts = retry.attempts /\ retry'.alternates = retry.alternates - 1
    BY <1>1, <1>14 DEF SwitchesAccount, ResetForRegeneration, Generation, GoTo, RetryType
  <2>2. gen.n + retry.alternates + 0 <= 1 + retry.attempts + Alternates
    BY <2>1 DEF GenCounted, LoopAt
  <2>3. (gen.n + 1) + (retry.alternates - 1) + 0 <= 1 + retry.attempts + Alternates
    BY <1>1, <2>2
  <2> QED BY <2>1, <2>3 DEF GenCounted, LoopAt
<1>15. CASE NoOtherAccount
  BY <1>1, <1>15, NoNewGeneration DEF NoOtherAccount, GoTo, RetryType
<1>16. CASE AlternateFails
  <2>1. /\ gen' = gen /\ retry'.at = "refused"
        /\ retry'.attempts = retry.attempts /\ retry'.alternates = retry.alternates - 1
    BY <1>1, <1>16 DEF AlternateFails, GoTo, RetryType
  <2> QED BY <2>1, NoNewGeneration
<1>17. CASE ClientLeaves \/ SocketBreaks \/ UNCHANGED answerVars
  BY <1>2, <1>17 DEF ClientLeaves, SocketBreaks, answerVars
<1>18. CASE EndsHeard \/ EndsUnheard \/ EndsUnwritten \/ LeavesLoop \/ Refused
  BY <1>4, <1>18 DEF EndsHeard, EndsUnheard, EndsUnwritten, LeavesLoop, Refused
<1> QED BY <1>4, <1>5, <1>6, <1>7, <1>8, <1>9, <1>10, <1>11, <1>12, <1>13, <1>14, <1>15,
           <1>16, <1>17, <1>18 DEF AnswerNext, ConsumeEnds, AnswerSteps

LEMMA AnswerBoundedStep ==
  ASSUME AnswerInv, AnswerBounded, [AnswerNext]_answerVars PROVE AnswerBounded'
<1>1. GenCounted'
  BY GenCountedStep DEF AnswerBounded
<1>2. asked' = asked
  BY DEF AnswerNext, Parts, ConsumeEnds, AnswerSteps, answerVars, Thinks, WritesBlank,
         WritesText, WritesDoubtful, CallsTool, EndsHeard, EndsUnheard, StreamStops,
         StreamBreaks, EndsUnwritten, Flushes, Judges, LeavesLoop, Consumes, Decides, Resumes,
         Regenerates, SwitchesAccount, NoOtherAccount, AlternateFails, Refused, ClientLeaves,
         SocketBreaks
<1>3. left' \in {left, TRUE}
  BY DEF AnswerNext, Parts, ConsumeEnds, AnswerSteps, answerVars, Thinks, WritesBlank,
         WritesText, WritesDoubtful, CallsTool, EndsHeard, EndsUnheard, StreamStops,
         StreamBreaks, EndsUnwritten, Flushes, Judges, LeavesLoop, Consumes, Decides, Resumes,
         Regenerates, SwitchesAccount, NoOtherAccount, AlternateFails, Refused, ClientLeaves,
         SocketBreaks
<1>4. broken' \in BOOLEAN
  <2>1. CASE Judges
    <3>1. CASE Succeeds
      <4>1. \E frames : broken' = (frames < 3)
        BY <3>1 DEF Succeeds
      <4> QED BY <4>1
    <3>2. CASE ~Succeeds
      BY <2>1, <3>2 DEF Judges, StoreRefuses, Defers, ReportsError, AnswerBounded
    <3> QED BY <3>1, <3>2
  <2>2. CASE ~Judges
    <3>1. broken' \in {broken, TRUE}
      BY <2>2
       DEF AnswerNext, Parts, ConsumeEnds, AnswerSteps, answerVars, Thinks, WritesBlank,
         WritesText, WritesDoubtful, CallsTool, EndsHeard, EndsUnheard, StreamStops,
         StreamBreaks, EndsUnwritten, Flushes, LeavesLoop, Consumes, Decides, Resumes,
         Regenerates, SwitchesAccount, NoOtherAccount, AlternateFails, Refused, ClientLeaves,
         SocketBreaks
    <3>2. {broken, TRUE} \subseteq BOOLEAN
      BY Zenon DEF AnswerBounded
    <3> QED BY <3>1, <3>2, Zenon
  <2> QED BY <2>1, <2>2
<1>5. left' \in BOOLEAN
  <2>1. {left, TRUE} \subseteq BOOLEAN
    BY Zenon DEF AnswerBounded
  <2> QED BY <1>3, <2>1, Zenon
<1> QED BY <1>1, <1>2, <1>4, <1>5 DEF AnswerBounded

LEMMA AnswerTypes == AnswerInv /\ AnswerBounded => AnswerTypeOK
<1> SUFFICES ASSUME AnswerInv, AnswerBounded PROVE AnswerTypeOK
  OBVIOUS
<1>1. /\ gen.n \in Nat \ {0} /\ retry.attempts \in 0..RetryMax
      /\ retry.alternates \in 0..Alternates /\ RetryMax \in Nat /\ Alternates \in Nat
      /\ retry \in RetryType /\ gen \in GenType /\ client \in ClientType
  BY AnswerNumbers DEF AnswerInv, AnswerShape
<1>2. gen.n \in Gens
  <2>1. gen.n + retry.alternates <= 1 + retry.attempts + Alternates
    <3>1. CASE LoopAt("regenerate")
      <4>1. gen.n + retry.alternates + 1 <= 1 + retry.attempts + Alternates
        BY <3>1 DEF AnswerBounded, GenCounted
      <4> QED BY <1>1, <4>1
    <3>2. CASE ~LoopAt("regenerate")
      <4>1. gen.n + retry.alternates + 0 <= 1 + retry.attempts + Alternates
        BY <3>2 DEF AnswerBounded, GenCounted
      <4> QED BY <1>1, <4>1
    <3> QED BY <3>1, <3>2
  <2> QED BY <1>1, <2>1 DEF Gens
<1>3. gen.raw \subseteq Gens /\ gen.markup \subseteq Gens /\ gen.sieve \subseteq Gens
      /\ gen.deferred \subseteq Gens /\ gen.lead \subseteq Gens
      /\ client.text \subseteq Gens /\ client.calls \subseteq Gens
  <2>1. {gen.n} \subseteq Gens
    BY <1>2
  <2> QED BY <2>1 DEF AnswerInv, OfThisGeneration
<1>4. client.terminals \in 0..2
  BY DEF AnswerInv, ToldFits, Untold, ToldOfFailure, ToldAtEnd, LoopAt
<1>5. gen \in [n : Gens, partial : BOOLEAN, thought : BOOLEAN, id : BOOLEAN,
               pending : BOOLEAN, raw : SUBSET Gens, markup : SUBSET Gens,
               sieve : SUBSET Gens, deferred : SUBSET Gens, lead : SUBSET Gens,
               stop : {"none", "stop", "error"}]
  BY <1>1, <1>2, <1>3 DEF GenType
<1>6. client \in [text : SUBSET Gens, calls : SUBSET Gens, terminals : 0..2,
                  ended : {"no", "done", "error"}]
  BY <1>1, <1>3, <1>4 DEF ClientType
<1>7. /\ retry \in RetryType /\ blocks \in BlocksType
      /\ record \in {"streaming", "stopped", "success", "error"}
  BY DEF AnswerInv, AnswerShape
<1> QED BY <1>5, <1>6, <1>7 DEF AnswerBounded, AnswerTypeOK, RetryType, BlocksType

-----------------------------------------------------------------------------
(***************************************************************************)
(* The request path.                                                       *)
(***************************************************************************)

PathInv ==
  /\ subject \in Subjects
  /\ IInv /\ Records /\ OwnSessions
  /\ BridgeInv /\ SegmentInv /\ VoiceInv /\ ContinueInv
  /\ UploadInv /\ UploadBounded
  /\ AnswerInv /\ AnswerBounded
  /\ CollectInv /\ CollectBounded

LEMMA PathInitInv == PathInit => PathInv
<1> SUFFICES ASSUME PathInit PROVE PathInv
  OBVIOUS
<1>1. /\ subject \in Subjects /\ Init /\ BridgeInit /\ UploadInit /\ ContinueInit
      /\ SegmentInit /\ AnswerInit /\ CollectInit /\ VoiceInit
  BY DEF PathInit
<1>2. IInv /\ Records /\ OwnSessions
  BY <1>1, IInvInit, RecordsInit
<1>3. BridgeInv /\ SegmentInv /\ VoiceInv /\ ContinueInv
  BY <1>1, BridgeInitInv, SegmentInitInv, VoiceInitInv, ContinueInitInv
<1>4. UploadInv /\ UploadBounded
  BY <1>1, UploadInitInv, UploadBoundedInit
<1>5. AnswerInv /\ AnswerBounded
  BY <1>1, AnswerInitInv, AnswerBoundedInit
<1>6. CollectInv /\ CollectBounded
  BY <1>1, CollectInitInv, CollectBoundedInit
<1> QED BY <1>1, <1>2, <1>3, <1>4, <1>5, <1>6 DEF PathInv

(* A step of the path is a step, or none, of each of its components.       *)
LEMMA PartsStep ==
  ASSUME [PathNext]_pathVars
  PROVE  /\ subject' = subject
         /\ [Next]_vars /\ [BridgeNext]_bridgeVars /\ [UploadNext]_uploadVars
         /\ [AnswerNext]_answerVars /\ [ContinueNext]_continueVars
         /\ [SegmentNext]_segmentVars /\ [CollectNext]_collectVars /\ [VoiceNext]_voiceVars
<1>1. CASE UNCHANGED pathVars
  BY <1>1 DEF pathVars, AroundVars, AnswerVars
<1>2. CASE PathNext
  BY <1>2 DEF PathNext, Alone, Rest
<1> QED BY <1>1, <1>2

LEMMA PathStep == PathInv /\ [PathNext]_pathVars => PathInv'
<1> SUFFICES ASSUME PathInv, [PathNext]_pathVars PROVE PathInv'
  OBVIOUS
<1>1. IInv' /\ Records' /\ OwnSessions'
  BY PartsStep, IInvStep, RecordsStep DEF PathInv
<1>2. BridgeInv' /\ SegmentInv' /\ VoiceInv' /\ ContinueInv'
  BY PartsStep, BridgeStep, SegmentStep, VoiceStep, ContinueStep DEF PathInv
<1>3. UploadInv' /\ UploadBounded'
  BY PartsStep, UploadStep, UploadBoundedStep DEF PathInv
<1>4. AnswerInv' /\ AnswerBounded'
  BY PartsStep, AnswerStep, AnswerBoundedStep DEF PathInv
<1>5. CollectInv' /\ CollectBounded'
  BY PartsStep, CollectStep, CollectBoundedStep DEF PathInv
<1>6. (subject \in Subjects)'
  BY PartsStep DEF PathInv, Subjects
<1> QED BY <1>1, <1>2, <1>3, <1>4, <1>5, <1>6 DEF PathInv

(* Every component keeps to its types: no file, generation, attempt,       *)
(* session or account is counted beyond what its limits allow, and no      *)
(* reader is given what the service did not send.                          *)
THEOREM PathTypesHold == PathSpec => []PathTypesOK
<1>1. PathInv => PathTypesOK
  <2> SUFFICES ASSUME PathInv PROVE PathTypesOK
    OBVIOUS
  <2>1. TypeOK /\ SegmentTypeOK /\ VoiceTypeOK
    BY DEF PathInv, IInv, SegmentInv, VoiceInv
  <2>2. BridgeTypeOK /\ UploadTypeOK /\ AnswerTypeOK /\ ContinueTypeOK /\ CollectTypeOK
    BY BridgeTypes, UploadTypes, AnswerTypes, ContinueTypes, CollectTypes DEF PathInv
  <2>3. subject \in Subjects
    BY DEF PathInv
  <2> QED BY <2>1, <2>2, <2>3 DEF PathTypesOK, Subjects
<1> QED BY <1>1, PathInitInv, PathStep, PTL DEF PathSpec

(* Each component keeps its promise wherever it runs beside the others.    *)
THEOREM PathPromisesHold ==
  PathSpec => [](/\ CountedOncePerWay /\ CleanupByOwner /\ HelpersOwned /\ UploadsFresh
                 /\ OneAnswer /\ OneTerminal /\ AnswerContinued /\ ParentSettled
                 /\ TurnOfOneSession /\ VoiceAsAsked)
<1>1. PathInv => /\ CountedOncePerWay /\ CleanupByOwner /\ HelpersOwned /\ UploadsFresh
                 /\ OneAnswer /\ OneTerminal /\ AnswerContinued /\ ParentSettled
                 /\ TurnOfOneSession /\ VoiceAsAsked
  BY RecordsSafe, BridgeSafe, UploadSafe, OneAnswerSafe, OneTerminalSafe, ContinueSafe,
     SegmentSafe, CollectSafe, VoiceSafe DEF PathInv
<1> QED BY <1>1, PathInitInv, PathStep, PTL DEF PathSpec
=============================================================================
