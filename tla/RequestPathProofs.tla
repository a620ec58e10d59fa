-------------------------- MODULE RequestPathProofs --------------------------
(***************************************************************************)
(* What holds of the components on a request's way, for every number of    *)
(* segments, rounds, retries, accounts and callers.  Each of them has its  *)
(* own inductive invariant and its own theorem.                            *)
(***************************************************************************)
EXTENDS SegmentedPrompt, SpeechVoice, AutoContinue, CollectedAnswer, BridgeRegistry, UploadReuse,
        AnswerStream, FiniteSetTheorems, TLAPS

-----------------------------------------------------------------------------
(***************************************************************************)
(* SegmentedPrompt.                                                        *)
(*                                                                         *)
(* That a stream is over when its segment is left needs to know why the    *)
(* drain came to its end: the request closes the body only when it leaves  *)
(* the segment, so that before that the drain ends with the stream alone.  *)
(***************************************************************************)

(* Where the drain is, compared with the request.                          *)
DrainFits ==
  /\ drain.on => segment.at \notin {"send", "head", "answered"}
  /\ drain.content => stream.content
  /\ drain.done => ~drain.on /\ ~(stream.open /\ stream.body)

(* What the request knows of its stream.                                   *)
StreamFits ==
  /\ segment.at \in Waits \cup {"head"} => stream.body /\ segment.n < Segments
  /\ segment.at = "head" => ~drain.done
  /\ segment.content => stream.content
  /\ segment.at \in {"stop", "close"} => stream.content
  /\ segment.at = "close" => stream.stopped

SegmentInv ==
  /\ SegmentTypeOK /\ DrainFits /\ StreamFits
  /\ parent = segment.n - 1
  /\ ParentSettled

LEMMA SegmentInitInv == SegmentInit => SegmentInv
BY SegmentAssumption
   DEF SegmentInit, SegmentInv, SegmentTypeOK, DrainFits, StreamFits, ParentSettled,
       NoStream, NoDrain, Waits, SegmentAt

LEMMA SegmentStep == ASSUME SegmentInv, [SegmentNext]_segmentVars PROVE SegmentInv'
<1> USE SegmentAssumption
    DEF SegmentInv, SegmentTypeOK, DrainFits, StreamFits, ParentSettled, NoStream, NoDrain,
        Waits, SegmentAt, SegmentFails
<1>1. CASE SendSegment
  <2>1. CASE SegmentFails /\ UNCHANGED drain
    BY <1>1, <2>1 DEF SendSegment
  <2>2. CASE segment'.at = "head"
    <3>1. /\ segment.n < Segments
          /\ segment' = [segment EXCEPT !.at = "head", !.content = FALSE]
          /\ stream' = [NoStream EXCEPT !.open = TRUE, !.body = TRUE]
          /\ drain' = NoDrain /\ parent' = parent
      BY <1>1, <2>2 DEF SendSegment
    <3>2. SegmentTypeOK'
      BY <3>1
    <3>3. DrainFits'
      BY <3>1
    <3>4. stream'.body /\ ~drain'.done /\ segment'.n < Segments /\ ~segment'.content
      BY <3>1
    <3> QED BY <3>1, <3>2, <3>3, <3>4
  <2>3. CASE segment'.at = "answered"
    BY <1>1, <2>3 DEF SendSegment
  <2> QED BY <1>1, <2>1, <2>2, <2>3 DEF SendSegment
<1>2. CASE HeadContent
  BY <1>2 DEF HeadContent
<1>3. CASE HeadIdentifier
  BY <1>3 DEF HeadIdentifier
<1>4. CASE HeadFails
  BY <1>4 DEF HeadFails
<1>5. CASE DrainContent
  BY <1>5 DEF DrainContent
<1>6. CASE StreamCloses
  BY <1>6 DEF StreamCloses
<1>7. CASE DrainEnds
  BY <1>7 DEF DrainEnds
<1>8. CASE ContentCame
  BY <1>8 DEF ContentCame
<1>9. CASE ContentMissed
  BY <1>9 DEF ContentMissed
<1>10. CASE StopStream
  BY <1>10 DEF StopStream
<1>11. CASE StopRefused
  BY <1>11 DEF StopRefused
<1>12. CASE NextSegment
  <2>1. segment.n < Segments /\ stream.content /\ stream.stopped /\ ~stream.open /\ ~drain.on
    BY <1>12 DEF NextSegment, StreamDrained
  <2>2. SegmentTypeOK' /\ parent' = segment'.n - 1
    <3>0. segment.n + 1 \in 1..Segments
      BY <2>1
    <3>1. segment' \in [n : 1..Segments, content : BOOLEAN,
                  at : Waits \cup {"send", "head", "answered", "failed"}]
      BY <1>12, <3>0 DEF NextSegment
    <3>2. stream' \in [content : BOOLEAN, stopped : BOOLEAN, open : BOOLEAN, body : BOOLEAN]
      BY <1>12, <2>1 DEF NextSegment
    <3>3. parent' = segment'.n - 1 /\ parent' \in 0..Segments
      BY <1>12, <2>1 DEF NextSegment
    <3> QED BY <1>12, <3>1, <3>2, <3>3 DEF NextSegment
  <2>3. DrainFits' /\ StreamFits'
    BY <1>12, <2>1 DEF NextSegment
  <2>4. ParentSettled'
    BY <1>12, <2>1, <2>2 DEF NextSegment
  <2> QED BY <2>2, <2>3, <2>4
<1>13. CASE StaysOpen
  BY <1>13 DEF StaysOpen
<1>14. CASE UNCHANGED segmentVars
  BY <1>14 DEF segmentVars
<1> QED BY <1>1, <1>2, <1>3, <1>4, <1>5, <1>6, <1>7, <1>8, <1>9, <1>10, <1>11, <1>12,
           <1>13, <1>14 DEF SegmentNext, SegmentWaits

LEMMA SegmentSafe == SegmentInv => ParentSettled
BY DEF SegmentInv

(* However many segments a prompt has, each goes on from a message that    *)
(* has content, was stopped, and whose stream is over.                     *)
THEOREM ParentSettledHolds == SegmentSpec => []ParentSettled
BY SegmentInitInv, SegmentStep, SegmentSafe, PTL DEF SegmentSpec

-----------------------------------------------------------------------------
(***************************************************************************)
(* SpeechVoice.                                                            *)
(*                                                                         *)
(* The lock covers a caller from its look-up to the moment its stream is   *)
(* ready, so that only it sets the voice meanwhile.  That a change from    *)
(* outside costs a caller one attempt is an argument about order: whatever *)
(* is known, or about to be remembered, was set after the last mismatch of *)
(* every caller, so that if the voice is astray, it went astray since.     *)
(***************************************************************************)

SpeakerType == [at : SpeakerPlaces, wants : Voices \cup {AnyVoice},
                attempt : 1..SpeechAttempts, fixed : Voices,
                reported : BOOLEAN, mismatches : 0..SpeechAttempts]

LockedPlaces == {"known", "set", "remember", "open", "ready"}
Remembering == \E s \in Speakers : SpeakerAt(s, "remember")

(* Who wants a certain voice has the lock in these places.                 *)
LockHeld(s) ==
  /\ speaker[s].at \in LockedPlaces /\ Demands(s) => voiceLock = s
  /\ speaker[s].at \in {"known", "set", "remember"} => Demands(s)

(* What is known is the voice upstream, unless that went astray.           *)
KnownRight == known # AnyVoice /\ ~Remembering => voice.up = known \/ voice.astray

VoiceSet(s) ==
  speaker[s].at \in {"remember", "open", "ready"} /\ Demands(s) =>
    voice.up = speaker[s].wants \/ voice.astray

(* The voice has gone astray since the speaker was last told so.           *)
AstraySince(s) == voice.astray => speaker[s].mismatches < voice.strays

MismatchesPaid(s) ==
  /\ speaker[s].mismatches <= voice.strays
  /\ Remembering => AstraySince(s)
  /\ known # AnyVoice /\ speaker[s].at # "mismatch" => AstraySince(s)
  /\ speaker[s].at \in {"open", "ready"} /\ Demands(s) => AstraySince(s)

(* A mismatch ends an attempt, so that they fit in its counter.            *)
AttemptsFit(s) ==
  /\ speaker[s].mismatches <= speaker[s].attempt
  /\ speaker[s].at \notin {"mismatch", "failed"} => speaker[s].mismatches < speaker[s].attempt

ToldSo(s) ==
  speaker[s].at \in {"read", "spoken"} /\ Demands(s) /\ speaker[s].reported =>
    speaker[s].fixed = speaker[s].wants

SpeakerFits(s) ==
  LockHeld(s) /\ VoiceSet(s) /\ MismatchesPaid(s) /\ AttemptsFit(s) /\ ToldSo(s)

VoiceInv == VoiceTypeOK /\ KnownRight /\ \A s \in Speakers : SpeakerFits(s)

LEMMA VoiceInitInv == VoiceInit => VoiceInv
<1> SUFFICES ASSUME VoiceInit PROVE VoiceInv
  OBVIOUS
<1>1. PICK v \in Voices :
        /\ voice = [up |-> v, astray |-> FALSE, strays |-> 0]
        /\ speaker \in [Speakers -> [at : {"start"}, wants : Voices \cup {AnyVoice},
                                     attempt : {1}, fixed : {v},
                                     reported : {FALSE}, mismatches : {0}]]
  BY DEF VoiceInit
<1>2. VoiceTypeOK
  <2>1. "start" \in SpeakerPlaces /\ 1 \in 1..SpeechAttempts /\ 0 \in 0..SpeechAttempts
    BY DEF SpeakerPlaces, SpeechAttempts
  <2>2. FALSE \in BOOLEAN
    BY Zenon
  <2>3. \A s \in Speakers : speaker[s] \in SpeakerType
    BY <1>1, <2>1, <2>2 DEF SpeakerType
  <2>4. speaker \in [Speakers -> SpeakerType]
    BY <1>1, <2>3
  <2>5. voice \in [up : Voices, astray : BOOLEAN, strays : 0..MaxStrays]
    BY <1>1, <2>2, VoiceAssumption
  <2> QED BY <2>4, <2>5 DEF VoiceInit, VoiceTypeOK, SpeakerType
<1>3. known = AnyVoice
  BY DEF VoiceInit
<1>4. ASSUME NEW s \in Speakers PROVE SpeakerFits(s) /\ ~SpeakerAt(s, "remember")
  <2>1. speaker[s].at = "start" /\ speaker[s].mismatches = 0 /\ speaker[s].attempt = 1
    BY <1>1
  <2> QED BY <1>1, <1>3, <2>1
     DEF SpeakerFits, LockHeld, VoiceSet, MismatchesPaid, AttemptsFit, ToldSo, LockedPlaces,
         SpeakerAt, AstraySince
<1> QED BY <1>2, <1>3, <1>4 DEF VoiceInv, KnownRight

(* A speaker that goes to another place, and nothing else of it.           *)
LEMMA SpeakerGoes ==
  ASSUME VoiceTypeOK, NEW s \in Speakers, NEW place \in SpeakerPlaces, SpeakerTo(s, place)
  PROVE  /\ speaker' \in [Speakers -> SpeakerType]
         /\ speaker'[s].at = place
         /\ speaker'[s].wants = speaker[s].wants
         /\ speaker'[s].attempt = speaker[s].attempt
         /\ speaker'[s].mismatches = speaker[s].mismatches
         /\ speaker'[s].fixed = speaker[s].fixed
         /\ speaker'[s].reported = speaker[s].reported
         /\ \A o \in Speakers \ {s} : speaker'[o] = speaker[o]
BY DEF VoiceTypeOK, SpeakerTo, SpeakerType

(* Another attempt or none: what the speaker was told stays.               *)
LEMMA SpeakerAgain ==
  ASSUME VoiceTypeOK, NEW s \in Speakers, SpeaksAgain(s)
  PROVE  /\ speaker' \in [Speakers -> SpeakerType]
         /\ speaker'[s].wants = speaker[s].wants
         /\ speaker'[s].mismatches = speaker[s].mismatches
         /\ \/ speaker'[s].at = "failed" /\ speaker'[s].attempt = speaker[s].attempt
            \/ speaker'[s].at = "start" /\ speaker'[s].attempt = speaker[s].attempt + 1
         /\ \A o \in Speakers \ {s} : speaker'[o] = speaker[o]
<1>1. CASE SpeakerTo(s, "failed")
  BY <1>1, SpeakerGoes DEF SpeakerPlaces
<1>2. CASE /\ speaker[s].attempt < SpeechAttempts
           /\ speaker' = [speaker EXCEPT ![s].at = "start", ![s].attempt = @ + 1]
  <2>1. speaker[s].attempt + 1 \in 1..SpeechAttempts
    BY <1>2 DEF VoiceTypeOK, SpeechAttempts
  <2> QED BY <1>2, <2>1 DEF VoiceTypeOK, SpeakerType, SpeakerPlaces
<1> QED BY <1>1, <1>2 DEF SpeaksAgain

LEMMA VoiceTypes ==
  ASSUME VoiceTypeOK, speaker' \in [Speakers -> SpeakerType],
         voice' \in [up : Voices, astray : BOOLEAN, strays : 0..MaxStrays],
         known' \in Voices \cup {AnyVoice}, voiceLock' \in Speakers \cup {AnyVoice}
  PROVE  VoiceTypeOK'
BY DEF VoiceTypeOK, SpeakerType

LEMMA LooksUpVoiceStep ==
  ASSUME VoiceInv, NEW s \in Speakers, TakesVoiceLock(s) \/ LooksUpVoice(s) PROVE VoiceInv'
<1> USE DEF VoiceInv
<1>1. CASE TakesVoiceLock(s)
  <2>1. PICK place \in {"known", "open"} :
          /\ SpeakerTo(s, place) /\ speaker[s].at = "start"
          /\ UNCHANGED <<voice, known>>
          /\ IF place = "known" THEN Demands(s) /\ voiceLock = AnyVoice /\ voiceLock' = s
             ELSE ~Demands(s) /\ voiceLock' = voiceLock
    BY <1>1 DEF TakesVoiceLock, SpeakerAt
  <2>2. place \in SpeakerPlaces
    BY DEF SpeakerPlaces
  <2>3. VoiceTypeOK'
    BY <2>1, <2>2, SpeakerGoes, VoiceTypes DEF VoiceTypeOK
  <2>4. KnownRight' /\ (Remembering' => Remembering)
    BY <2>1, <2>2, SpeakerGoes DEF KnownRight, Remembering, SpeakerAt
  <2>5. ASSUME NEW o \in Speakers PROVE SpeakerFits(o)'
    <3>1. SpeakerFits(o)
      OBVIOUS
    <3>2. CASE o = s
      BY <2>1, <2>2, <2>4, <3>1, <3>2, SpeakerGoes
         DEF SpeakerFits, LockHeld, VoiceSet, MismatchesPaid, AttemptsFit, ToldSo, LockedPlaces,
             AstraySince, Demands
    <3>3. CASE o # s
      BY <2>1, <2>2, <2>4, <3>1, <3>3, SpeakerGoes, VoiceAssumption
         DEF SpeakerFits, LockHeld, VoiceSet, MismatchesPaid, AttemptsFit, ToldSo, LockedPlaces,
             AstraySince, Demands
    <3> QED BY <3>2, <3>3
  <2> QED BY <2>3, <2>4, <2>5
<1>2. CASE LooksUpVoice(s)
  <2>1. PICK place \in {"set", "open"} :
          /\ SpeakerTo(s, place) /\ speaker[s].at = "known"
          /\ UNCHANGED <<voice, known, voiceLock>>
          /\ place = "open" => known = speaker[s].wants
    BY <1>2 DEF LooksUpVoice, SpeakerAt
  <2>2. place \in SpeakerPlaces
    BY DEF SpeakerPlaces
  <2>3. VoiceTypeOK'
    BY <2>1, <2>2, SpeakerGoes, VoiceTypes DEF VoiceTypeOK
  <2>4. KnownRight' /\ (Remembering' => Remembering) /\ ~Remembering
    BY <2>1, <2>2, SpeakerGoes, VoiceAssumption
       DEF KnownRight, Remembering, SpeakerAt, SpeakerFits, LockHeld, LockedPlaces
  <2>5. ASSUME NEW o \in Speakers PROVE SpeakerFits(o)'
    <3>1. SpeakerFits(o)
      OBVIOUS
    <3>2. CASE o = s
      BY <2>1, <2>2, <2>4, <3>1, <3>2, SpeakerGoes
         DEF SpeakerFits, LockHeld, VoiceSet, MismatchesPaid, AttemptsFit, ToldSo, LockedPlaces,
             AstraySince, Demands, KnownRight
    <3>3. CASE o # s
      BY <2>1, <2>2, <2>4, <3>1, <3>3, SpeakerGoes, VoiceAssumption
         DEF SpeakerFits, LockHeld, VoiceSet, MismatchesPaid, AttemptsFit, ToldSo, LockedPlaces,
             AstraySince, Demands
    <3> QED BY <3>2, <3>3
  <2> QED BY <2>3, <2>4, <2>5
<1> QED BY <1>1, <1>2

(* The other speakers, while the voice stays.                              *)
LEMMA OthersStay ==
  ASSUME VoiceInv, NEW s \in Speakers, NEW o \in Speakers \ {s},
         speaker'[o] = speaker[o], voice' = voice, voiceLock = o => voiceLock' = o,
         Remembering \/ (~Remembering' /\ known' \in {known, AnyVoice})
  PROVE  SpeakerFits(o)'
<1>1. SpeakerFits(o)
  BY DEF VoiceInv
<1> QED BY <1>1
   DEF SpeakerFits, LockHeld, VoiceSet, MismatchesPaid, AttemptsFit, ToldSo, LockedPlaces,
       AstraySince, Demands

(* Who has the lock is the only one that may be about to remember.         *)
LEMMA OneRemembers ==
  ASSUME VoiceInv, NEW s \in Speakers,
         \/ SpeakerAt(s, "known") \/ SpeakerAt(s, "set")
         \/ (SpeakerAt(s, "open") \/ SpeakerAt(s, "ready")) /\ Demands(s)
  PROVE  voiceLock = s /\ Demands(s) /\ ~Remembering
BY VoiceAssumption
   DEF VoiceInv, SpeakerFits, LockHeld, LockedPlaces, Remembering, SpeakerAt

LEMMA SetsVoiceStep == ASSUME VoiceInv, NEW s \in Speakers, SetsVoice(s) PROVE VoiceInv'
<1>0. VoiceTypeOK /\ KnownRight /\ \A o \in Speakers : SpeakerFits(o)
  BY DEF VoiceInv
<1>1. /\ SpeakerTo(s, "remember") /\ speaker[s].at = "set" /\ UNCHANGED <<known, voiceLock>>
      /\ voice' = [voice EXCEPT !.up = speaker[s].wants, !.astray = FALSE]
      /\ "remember" \in SpeakerPlaces
  BY DEF SetsVoice, SpeakerAt, SpeakerPlaces
<1>2. voiceLock = s /\ Demands(s)
  BY OneRemembers DEF SetsVoice
<1>3. speaker[s].wants \in Voices
  BY <1>0, <1>2 DEF VoiceTypeOK, Demands
<1>4. voice' \in [up : Voices, astray : BOOLEAN, strays : 0..MaxStrays]
  <2>1. FALSE \in BOOLEAN
    BY Zenon
  <2> QED BY <1>0, <1>1, <1>3, <2>1 DEF VoiceTypeOK
<1>5. voice'.up = speaker[s].wants /\ ~voice'.astray /\ voice'.strays = voice.strays
  BY <1>0, <1>1 DEF VoiceTypeOK
<1>6. VoiceTypeOK'
  BY <1>0, <1>1, <1>4, SpeakerGoes, VoiceTypes DEF VoiceTypeOK
<1>7. KnownRight'
  <2>1. speaker'[s].at = "remember"
    BY <1>0, <1>1, SpeakerGoes
  <2> QED BY <2>1 DEF KnownRight, Remembering, SpeakerAt
<1>8. ASSUME NEW o \in Speakers PROVE SpeakerFits(o)'
  <2>1. SpeakerFits(o)
    BY <1>0
  <2>2. CASE o = s
    BY <1>0, <1>1, <1>2, <1>5, <2>1, <2>2, SpeakerGoes
       DEF SpeakerFits, LockHeld, VoiceSet, MismatchesPaid, AttemptsFit, ToldSo, LockedPlaces,
           AstraySince, Demands
  <2>3. CASE o # s
    BY <1>0, <1>1, <1>2, <1>5, <2>1, <2>3, SpeakerGoes
       DEF SpeakerFits, LockHeld, VoiceSet, MismatchesPaid, AttemptsFit, ToldSo, LockedPlaces,
           AstraySince, Demands
  <2> QED BY <2>2, <2>3
<1> QED BY <1>6, <1>7, <1>8 DEF VoiceInv

(* A voice that goes astray.                                               *)
LEMMA AstrayStep ==
  ASSUME VoiceInv, NEW v \in Voices, voice.strays < MaxStrays,
         voice' = [up |-> v, astray |-> TRUE, strays |-> voice.strays + 1],
         VoiceTypeOK', NEW o \in Speakers, speaker'[o] = speaker[o], voiceLock = o => voiceLock' = o
  PROVE  SpeakerFits(o)'
<1>1. SpeakerFits(o)
  BY DEF VoiceInv
<1>2. /\ voice'.astray /\ voice'.strays = voice.strays + 1
      /\ voice.strays \in Nat /\ speaker[o].mismatches \in Nat
  BY DEF VoiceInv, VoiceTypeOK
<1> QED BY <1>1, <1>2
   DEF SpeakerFits, LockHeld, VoiceSet, MismatchesPaid, AttemptsFit, ToldSo, LockedPlaces,
       AstraySince, Demands

LEMMA StrayTypes ==
  ASSUME VoiceTypeOK, NEW v \in Voices, voice.strays < MaxStrays,
         voice' = [up |-> v, astray |-> TRUE, strays |-> voice.strays + 1]
  PROVE  voice' \in [up : Voices, astray : BOOLEAN, strays : 0..MaxStrays]
<1>1. voice.strays + 1 \in 0..MaxStrays
  BY VoiceAssumption DEF VoiceTypeOK
<1>2. TRUE \in BOOLEAN
  BY Zenon
<1> QED BY <1>1, <1>2

LEMMA VoiceStraysStep == ASSUME VoiceInv, VoiceStrays PROVE VoiceInv'
<1> USE DEF VoiceInv
<1>1. PICK v \in Voices :
        /\ voice' = [up |-> v, astray |-> TRUE, strays |-> voice.strays + 1]
        /\ voice.strays < MaxStrays /\ UNCHANGED <<known, voiceLock, speaker>>
  BY DEF VoiceStrays
<1>2. VoiceTypeOK'
  BY <1>1, StrayTypes DEF VoiceTypeOK
<1>3. KnownRight'
  BY <1>1 DEF KnownRight
<1>4. \A o \in Speakers : SpeakerFits(o)'
  BY <1>1, <1>2, AstrayStep
<1> QED BY <1>2, <1>3, <1>4

(* Who fails gives the lock back.                                          *)
LEMMA Unlocks ==
  ASSUME VoiceInv, NEW s \in Speakers, voiceLock' = VoiceUnlocked(s)
  PROVE  /\ voiceLock' \in Speakers \cup {AnyVoice}
         /\ \A o \in Speakers \ {s} : voiceLock = o => voiceLock' = o
BY DEF VoiceInv, VoiceTypeOK, VoiceUnlocked

LEMMA SpeechFailsFits ==
  ASSUME VoiceInv, NEW s \in Speakers, SpeechFails(s), speaker[s].at # "mismatch",
         UNCHANGED <<voice, known>>, ~SpeakerAt(s, "remember")
  PROVE  VoiceInv'
<1>1. "failed" \in SpeakerPlaces
  BY DEF SpeakerPlaces
<1>2. SpeakerTo(s, "failed") /\ voiceLock' = VoiceUnlocked(s)
  BY DEF SpeechFails
<1>3. VoiceTypeOK'
  BY <1>1, <1>2, SpeakerGoes, Unlocks, VoiceTypes DEF VoiceTypeOK, VoiceInv
<1>4. Remembering' <=> Remembering
  BY <1>1, <1>2, SpeakerGoes DEF Remembering, SpeakerAt, VoiceInv
<1>5. KnownRight'
  BY <1>4 DEF KnownRight, VoiceInv
<1>6. ASSUME NEW o \in Speakers PROVE SpeakerFits(o)'
  <2>1. CASE o = s
    <3>1. SpeakerFits(s)
      BY DEF VoiceInv
    <3> QED BY <1>1, <1>2, <1>4, <2>1, <3>1, SpeakerGoes
       DEF SpeakerFits, LockHeld, VoiceSet, MismatchesPaid, AttemptsFit, ToldSo, LockedPlaces,
           AstraySince, Demands, VoiceInv
  <2>2. CASE o # s
    BY <1>1, <1>2, <1>4, <2>2, SpeakerGoes, Unlocks, OthersStay DEF VoiceInv
  <2> QED BY <2>1, <2>2
<1> QED BY <1>3, <1>5, <1>6 DEF VoiceInv

LEMMA SetFailsStep == ASSUME VoiceInv, NEW s \in Speakers, SetFails(s) PROVE VoiceInv'
<1>1. speaker[s].at = "set" /\ SpeechFails(s) /\ known' = known
  BY DEF SetFails, SpeakerAt
<1>2. CASE voice' = voice
  BY <1>1, <1>2, SpeechFailsFits DEF SpeakerAt
<1>3. CASE /\ voice.strays < MaxStrays
           /\ voice' = [up |-> speaker[s].wants, astray |-> TRUE, strays |-> voice.strays + 1]
  <2>1. speaker[s].wants \in Voices
    <3>1. Demands(s)
      BY OneRemembers DEF SetFails
    <3> QED BY <3>1 DEF Demands, VoiceInv, VoiceTypeOK
  <2>2. "failed" \in SpeakerPlaces /\ SpeakerTo(s, "failed") /\ voiceLock' = VoiceUnlocked(s)
    BY <1>1 DEF SpeechFails, SpeakerPlaces
  <2>3. VoiceTypeOK'
    BY <1>1, <1>3, <2>1, <2>2, SpeakerGoes, Unlocks, VoiceTypes, StrayTypes
       DEF VoiceTypeOK, VoiceInv
  <2>4. KnownRight'
    BY <1>3 DEF KnownRight
  <2>5. ASSUME NEW o \in Speakers PROVE SpeakerFits(o)'
    <3>1. CASE o # s
      BY <1>3, <2>1, <2>2, <2>3, <3>1, SpeakerGoes, Unlocks, AstrayStep DEF VoiceInv
    <3>2. CASE o = s
      <4>1. SpeakerFits(s) /\ voice.strays \in Nat /\ speaker[s].mismatches \in Nat
        BY DEF VoiceInv, VoiceTypeOK
      <4>2. voice'.astray /\ voice'.strays = voice.strays + 1
        BY <1>3
      <4>3. /\ speaker'[s].at = "failed" /\ speaker'[s].mismatches = speaker[s].mismatches
            /\ speaker'[s].attempt = speaker[s].attempt
        BY <2>2, SpeakerGoes DEF VoiceInv
      <4> QED BY <1>1, <3>2, <4>1, <4>2, <4>3
         DEF SpeakerFits, LockHeld, VoiceSet, MismatchesPaid, AttemptsFit, ToldSo, LockedPlaces,
             AstraySince
    <3> QED BY <3>1, <3>2
  <2> QED BY <2>3, <2>4, <2>5 DEF VoiceInv
<1> QED BY <1>1, <1>2, <1>3 DEF SetFails

LEMMA RemembersVoiceStep ==
  ASSUME VoiceInv, NEW s \in Speakers, RemembersVoice(s) PROVE VoiceInv'
<1>0. VoiceTypeOK /\ KnownRight /\ \A o \in Speakers : SpeakerFits(o)
  BY DEF VoiceInv
<1>1. /\ speaker[s].at = "remember" /\ known' = speaker[s].wants /\ SpeakerTo(s, "open")
      /\ UNCHANGED <<voice, voiceLock>> /\ "open" \in SpeakerPlaces
  BY DEF RemembersVoice, SpeakerAt, SpeakerPlaces
<1>2. Remembering /\ Demands(s) /\ (voice.up = speaker[s].wants \/ voice.astray)
  BY <1>0, <1>1 DEF Remembering, SpeakerAt, SpeakerFits, LockHeld, VoiceSet, LockedPlaces
<1>3. VoiceTypeOK'
  BY <1>0, <1>1, SpeakerGoes, VoiceTypes DEF VoiceTypeOK
<1>4. KnownRight'
  BY <1>1, <1>2 DEF KnownRight
<1>5. ASSUME NEW o \in Speakers PROVE SpeakerFits(o)'
  <2>1. CASE o = s
    <3>1. SpeakerFits(s)
      BY <1>0
    <3> QED BY <1>0, <1>1, <1>2, <2>1, <3>1, SpeakerGoes
       DEF SpeakerFits, LockHeld, VoiceSet, MismatchesPaid, AttemptsFit, ToldSo, LockedPlaces,
           AstraySince, Demands
  <2>2. CASE o # s
    BY <1>0, <1>1, <1>2, <2>2, SpeakerGoes, OthersStay
  <2> QED BY <2>1, <2>2
<1> QED BY <1>3, <1>4, <1>5 DEF VoiceInv

(* The stream is open, or is not to be, without a change of the voice.     *)
LEMMA OpensStreamStep == ASSUME VoiceInv, NEW s \in Speakers, OpensStream(s) PROVE VoiceInv'
<1>1. speaker[s].at = "open" /\ UNCHANGED <<voice, known>>
  BY DEF OpensStream, SpeakerAt
<1>2. CASE SpeechFails(s)
  BY <1>1, <1>2, SpeechFailsFits DEF SpeakerAt
<1>3. CASE SpeakerTo(s, "ready") /\ voiceLock' = voiceLock
  <2>1. "ready" \in SpeakerPlaces
    BY DEF SpeakerPlaces
  <2>2. VoiceTypeOK'
    BY <1>1, <1>3, <2>1, SpeakerGoes, VoiceTypes DEF VoiceTypeOK, VoiceInv
  <2>3. Remembering' <=> Remembering
    BY <1>1, <1>3, <2>1, SpeakerGoes DEF Remembering, SpeakerAt, VoiceInv
  <2>4. KnownRight'
    BY <1>1, <2>3 DEF KnownRight, VoiceInv
  <2>5. ASSUME NEW o \in Speakers PROVE SpeakerFits(o)'
    <3>1. CASE o = s
      <4>1. SpeakerFits(s)
        BY DEF VoiceInv
      <4> QED BY <1>1, <1>3, <2>1, <2>3, <3>1, <4>1, SpeakerGoes
         DEF SpeakerFits, LockHeld, VoiceSet, MismatchesPaid, AttemptsFit, ToldSo, LockedPlaces,
             AstraySince, Demands, VoiceInv
    <3>2. CASE o # s
      BY <1>1, <1>3, <2>1, <2>3, <3>2, SpeakerGoes, OthersStay DEF VoiceInv
    <3> QED BY <3>1, <3>2
  <2> QED BY <2>2, <2>4, <2>5 DEF VoiceInv
<1> QED BY <1>2, <1>3 DEF OpensStream

(* Trying again, from a place where nothing is remembered.                 *)
LEMMA SpeaksAgainFits ==
  ASSUME VoiceInv, NEW s \in Speakers, SpeaksAgain(s), voice' = voice,
         speaker[s].at \in {"ready", "read", "mismatch"},
         known' = IF speaker[s].at = "mismatch" THEN AnyVoice ELSE known,
         voiceLock' \in {voiceLock, VoiceUnlocked(s)}
  PROVE  VoiceInv'
<1>0. VoiceTypeOK /\ KnownRight /\ \A o \in Speakers : SpeakerFits(o)
  BY DEF VoiceInv
<1>1. /\ voiceLock' \in Speakers \cup {AnyVoice}
      /\ \A o \in Speakers \ {s} : voiceLock = o => voiceLock' = o
  BY <1>0 DEF VoiceTypeOK, VoiceUnlocked
<1>2. VoiceTypeOK'
  <2>1. known' \in Voices \cup {AnyVoice}
    BY <1>0 DEF VoiceTypeOK
  <2>2. speaker' \in [Speakers -> SpeakerType]
    BY <1>0, SpeakerAgain
  <2> QED BY <1>0, <1>1, <2>1, <2>2, VoiceTypes DEF VoiceTypeOK
<1>3. Remembering' <=> Remembering
  BY <1>0, SpeakerAgain DEF Remembering, SpeakerAt
<1>4. KnownRight'
  BY <1>0, <1>3 DEF KnownRight
<1>5. ASSUME NEW o \in Speakers PROVE SpeakerFits(o)'
  <2>1. CASE o = s
    <3>1. SpeakerFits(s) /\ speaker[s].mismatches \in Nat /\ speaker[s].attempt \in Nat
      BY <1>0 DEF VoiceTypeOK
    <3> QED BY <1>0, <1>3, <2>1, <3>1, SpeakerAgain
       DEF SpeakerFits, LockHeld, VoiceSet, MismatchesPaid, AttemptsFit, ToldSo, LockedPlaces,
           AstraySince, Demands
  <2>2. CASE o # s
    BY <1>0, <1>1, <1>3, <2>2, SpeakerAgain, OthersStay
  <2> QED BY <2>1, <2>2
<1> QED BY <1>2, <1>4, <1>5 DEF VoiceInv

LEMMA ReadsSpeechStep ==
  ASSUME VoiceInv, NEW s \in Speakers, ReadyFails(s) \/ ForgetsVoice(s) \/ ReadsSpeech(s)
  PROVE  VoiceInv'
<1>1. CASE ReadyFails(s)
  BY <1>1, SpeaksAgainFits DEF ReadyFails, SpeakerAt
<1>2. CASE ForgetsVoice(s)
  BY <1>2, SpeaksAgainFits DEF ForgetsVoice, SpeakerAt, Forgotten
<1>3. CASE ReadsSpeech(s) /\ SpeaksAgain(s)
  BY <1>3, SpeaksAgainFits DEF ReadsSpeech, SpeakerAt
<1>4. CASE ReadsSpeech(s) /\ SpeakerTo(s, "spoken")
  <2>1. /\ "spoken" \in SpeakerPlaces /\ speaker[s].at = "read"
        /\ UNCHANGED <<voice, known, voiceLock>>
    BY <1>4 DEF SpeakerPlaces, ReadsSpeech, SpeakerAt
  <2>2. VoiceTypeOK'
    BY <1>4, <2>1, SpeakerGoes, VoiceTypes DEF VoiceTypeOK, VoiceInv
  <2>3. Remembering' <=> Remembering
    BY <1>4, <2>1, SpeakerGoes DEF Remembering, SpeakerAt, VoiceInv
  <2>4. KnownRight'
    BY <2>1, <2>3 DEF KnownRight, VoiceInv
  <2>5. ASSUME NEW o \in Speakers PROVE SpeakerFits(o)'
    <3>1. CASE o = s
      <4>1. SpeakerFits(s)
        BY DEF VoiceInv
      <4> QED BY <1>4, <2>1, <2>3, <3>1, <4>1, SpeakerGoes
         DEF SpeakerFits, LockHeld, VoiceSet, MismatchesPaid, AttemptsFit, ToldSo, LockedPlaces,
             AstraySince, Demands, VoiceInv
    <3>2. CASE o # s
      BY <1>4, <2>1, <2>3, <3>2, SpeakerGoes, OthersStay DEF VoiceInv
    <3> QED BY <3>1, <3>2
  <2> QED BY <2>2, <2>4, <2>5 DEF VoiceInv
<1> QED BY <1>1, <1>2, <1>3, <1>4 DEF ReadsSpeech

(* A stream that is ready has its voice.                                   *)
LEMMA SpeakerFixed ==
  ASSUME VoiceTypeOK, NEW s \in Speakers, NEW place \in SpeakerPlaces, NEW told \in BOOLEAN,
         NEW m \in 0..SpeechAttempts,
         speaker' = [speaker EXCEPT ![s].at = place, ![s].fixed = voice.up,
                                    ![s].reported = told, ![s].mismatches = m]
  PROVE  speaker' \in [Speakers -> SpeakerType]
<1>1. speaker[s] \in SpeakerType /\ voice.up \in Voices /\ speaker \in [Speakers -> SpeakerType]
  BY DEF VoiceTypeOK, SpeakerType
<1>2. /\ DOMAIN speaker' = Speakers
      /\ speaker'[s] = [speaker[s] EXCEPT !.at = place, !.fixed = voice.up,
                                          !.reported = told, !.mismatches = m]
      /\ \A o \in Speakers \ {s} : speaker'[o] = speaker[o]
      /\ speaker' = [o \in Speakers |-> speaker'[o]]
  BY <1>1 DEF SpeakerType
<1>3. [speaker[s] EXCEPT !.at = place, !.fixed = voice.up, !.mismatches = m] \in SpeakerType
  BY <1>1 DEF SpeakerType
<1>4. speaker'[s] \in SpeakerType
  <2>1. \A r \in SpeakerType : [r EXCEPT !.reported = told] \in SpeakerType
    BY DEF SpeakerType
  <2>2. speaker'[s] = [[speaker[s] EXCEPT !.at = place, !.fixed = voice.up, !.mismatches = m]
                         EXCEPT !.reported = told]
    BY <1>1, <1>2, ZenonT(30) DEF SpeakerType
  <2> QED BY <1>3, <2>1, <2>2
<1> QED BY <1>1, <1>2, <1>4

(* The lock is held until here, so that nobody is about to remember.       *)
LEMMA StreamReadyStep == ASSUME VoiceInv, NEW s \in Speakers, StreamReady(s) PROVE VoiceInv'
<1>0. VoiceTypeOK /\ KnownRight /\ \A o \in Speakers : SpeakerFits(o)
  BY DEF VoiceInv
<1>1. PICK reported \in BOOLEAN, strange \in BOOLEAN :
        /\ strange <=> reported /\ Demands(s) /\ voice.up # speaker[s].wants
        /\ speaker' = [speaker EXCEPT ![s].at = IF strange THEN "mismatch" ELSE "read",
                                      ![s].fixed = voice.up, ![s].reported = reported,
                                      ![s].mismatches = @ + (IF strange THEN 1 ELSE 0)]
  BY Zenon DEF StreamReady
<1>2. speaker[s].at = "ready" /\ voiceLock' = VoiceUnlocked(s) /\ UNCHANGED <<voice, known>>
  BY DEF StreamReady, SpeakerAt
<1>3. strange => voice.astray /\ speaker[s].mismatches < voice.strays /\ ~Remembering
  <2>1. SpeakerFits(s)
    BY <1>0
  <2>2. SpeakerAt(s, "ready")
    BY DEF StreamReady
  <2>3. Demands(s) => ~Remembering
    BY <2>2, OneRemembers
  <2> QED BY <1>1, <1>2, <2>1, <2>3 DEF SpeakerFits, VoiceSet, MismatchesPaid, AstraySince
<1>4. /\ speaker[s].mismatches \in Nat /\ speaker[s].attempt \in 1..SpeechAttempts
      /\ speaker[s].mismatches < speaker[s].attempt /\ voice.strays \in Nat
  BY <1>0, <1>2 DEF VoiceTypeOK, SpeakerFits, AttemptsFit
<1>5. /\ speaker'[s].at = (IF strange THEN "mismatch" ELSE "read")
      /\ speaker'[s].wants = speaker[s].wants /\ speaker'[s].attempt = speaker[s].attempt
      /\ speaker'[s].fixed = voice.up /\ speaker'[s].reported = reported
      /\ speaker'[s].mismatches = speaker[s].mismatches + (IF strange THEN 1 ELSE 0)
      /\ \A o \in Speakers \ {s} : speaker'[o] = speaker[o]
  BY <1>0, <1>1 DEF VoiceTypeOK
<1>6. VoiceTypeOK'
  <2>1. "mismatch" \in SpeakerPlaces /\ "read" \in SpeakerPlaces
    BY DEF SpeakerPlaces
  <2>2. speaker[s].mismatches + (IF strange THEN 1 ELSE 0) \in 0..SpeechAttempts
    BY <1>4 DEF SpeechAttempts
  <2>3. speaker' \in [Speakers -> SpeakerType]
    <3> DEFINE place == IF strange THEN "mismatch" ELSE "read"
               m == speaker[s].mismatches + (IF strange THEN 1 ELSE 0)
    <3>1. place \in SpeakerPlaces /\ m \in 0..SpeechAttempts
      BY <2>1, <2>2
    <3>2. speaker' = [speaker EXCEPT ![s].at = place, ![s].fixed = voice.up,
                                     ![s].reported = reported, ![s].mismatches = m]
      BY <1>0, <1>1 DEF VoiceTypeOK
    <3> HIDE DEF place, m
    <3> QED BY <1>0, <3>1, <3>2, SpeakerFixed
  <2> QED BY <1>0, <1>2, <2>3, Unlocks, VoiceTypes DEF VoiceTypeOK
<1>7. Remembering' <=> Remembering
  BY <1>2, <1>5 DEF Remembering, SpeakerAt
<1>8. KnownRight'
  BY <1>0, <1>2, <1>7 DEF KnownRight
<1>9. ASSUME NEW o \in Speakers PROVE SpeakerFits(o)'
  <2>1. CASE o # s
    <3>1. voiceLock = o => voiceLock' = o
      BY <1>2, <2>1, Unlocks
    <3>2. speaker'[o] = speaker[o] /\ voice' = voice
      BY <1>2, <1>5, <2>1
    <3>3. Remembering \/ (~Remembering' /\ known' \in {known, AnyVoice})
      BY <1>2, <1>7
    <3> QED BY <2>1, <3>1, <3>2, <3>3, OthersStay
  <2>2. CASE o = s
    <3>1. SpeakerFits(s)
      BY <1>0
    <3>2. LockHeld(s)' /\ VoiceSet(s)'
      BY <1>5 DEF LockHeld, VoiceSet, LockedPlaces
    <3>3. MismatchesPaid(s)'
      BY <1>2, <1>3, <1>4, <1>5, <1>7, <3>1 DEF SpeakerFits, MismatchesPaid, AstraySince
    <3>4. AttemptsFit(s)'
      BY <1>4, <1>5 DEF AttemptsFit
    <3>5. ToldSo(s)'
      BY <1>1, <1>5 DEF ToldSo, Demands
    <3> QED BY <2>2, <3>2, <3>3, <3>4, <3>5 DEF SpeakerFits
  <2> QED BY <2>1, <2>2
<1> QED BY <1>6, <1>8, <1>9 DEF VoiceInv

LEMMA VoiceStep == ASSUME VoiceInv, [VoiceNext]_voiceVars PROVE VoiceInv'
<1>1. CASE VoiceStrays
  BY <1>1, VoiceStraysStep
<1>2. CASE SpeakerSteps
  BY <1>2, LooksUpVoiceStep, SetsVoiceStep, SetFailsStep, RemembersVoiceStep, OpensStreamStep,
     StreamReadyStep, ReadsSpeechStep DEF SpeakerSteps
<1>3. CASE UNCHANGED voiceVars
  BY <1>3 DEF voiceVars, VoiceInv, VoiceTypeOK, KnownRight, Remembering, SpeakerAt, SpeakerFits,
     LockHeld, VoiceSet, MismatchesPaid, AttemptsFit, ToldSo, AstraySince, Demands
<1> QED BY <1>1, <1>2, <1>3 DEF VoiceNext

LEMMA VoiceSafe == VoiceInv => VoiceAsAsked
BY DEF VoiceInv, VoiceAsAsked, SpeakerFits, VoiceSet, MismatchesPaid, ToldSo, SpeakerAt

(* However many callers want however many voices, a stream that is ready   *)
(* has the voice that was asked for unless it was changed from outside,    *)
(* and each change from outside costs a caller one attempt at most.        *)
THEOREM VoiceAsAskedHolds == VoiceSpec => []VoiceAsAsked
BY VoiceInitInv, VoiceStep, VoiceSafe, PTL DEF VoiceSpec

-----------------------------------------------------------------------------
(***************************************************************************)
(* AutoContinue.                                                           *)
(*                                                                         *)
(* What the reader has is what the service has given, but for the line the *)
(* pump carries; and what the pump believes of the round is what the       *)
(* service has said in it.                                                 *)
(***************************************************************************)

UpTo(k) == [n \in 1..k |-> n]
Handed == IF pump.line = 0 THEN served.pieces ELSE served.pieces - 1

PiecesInOrder ==
  /\ pump.line # 0 => pump.line = served.pieces /\ pump.at \in {"write", "over"}
  /\ reader.got = UpTo(Handed)

(* The pump's state and the service's word.                                *)
WordKept ==
  /\ pump.id = served.id /\ pump.status = served.said
  /\ pump.finished <=> served.said \in {"whole", "filtered"}
  /\ served.said # "nothing" => served.id
  /\ served.said = "whole" => served.pieces = Pieces
  /\ PumpAt("decide") /\ pump.done => served.said # "nothing"
  /\ PumpAt("last") => served.said \in {"whole", "filtered"}

EndsRight ==
  /\ pipe # "open" => PumpAt("over")
  /\ pipe = "end" => served.said # "more"
  /\ reader.done => pipe = "end" /\ (served.said = "filtered" \/ Handed = Pieces)

BodiesRead ==
  bodies \subseteq (IF pump.at \in {"decide", "last", "over"} THEN {} ELSE {pump.rounds})

PumpTypeOK ==
  /\ served \in [pieces : 0..Pieces, id : BOOLEAN, said : Says]
  /\ pump \in [at : PumpPlaces, id : BOOLEAN, status : Says, finished : BOOLEAN,
               done : BOOLEAN, rounds : 0..MaxRounds, line : 0..Pieces, cut : BOOLEAN]
  /\ pipe \in {"open", "end", "error"}
  /\ reader.done \in BOOLEAN /\ reader.on \in BOOLEAN
  /\ reader = [got |-> reader.got, done |-> reader.done, on |-> reader.on]

ContinueInv == PumpTypeOK /\ PiecesInOrder /\ WordKept /\ EndsRight /\ BodiesRead

LEMMA UpToIsSeq ==
  ASSUME NEW k \in Nat PROVE UpTo(k) \in Seq(Nat) /\ Len(UpTo(k)) = k
BY DEF UpTo

LEMMA UpToGrows ==
  ASSUME NEW k \in Nat PROVE Append(UpTo(k), k + 1) = UpTo(k + 1)
BY DEF UpTo

LEMMA ContinueInitInv == ContinueInit => ContinueInv
<1> SUFFICES ASSUME ContinueInit PROVE ContinueInv
  OBVIOUS
<1>1. FALSE \in BOOLEAN /\ TRUE \in BOOLEAN
  BY Zenon
<1>2. reader.got = UpTo(0)
  BY DEF ContinueInit, UpTo
<1>3. PumpTypeOK
  BY <1>1, ContinueAssumption DEF ContinueInit, PumpTypeOK, PumpPlaces, Says
<1> QED BY <1>2, <1>3
   DEF ContinueInit, ContinueInv, PiecesInOrder, Handed, WordKept, EndsRight, BodiesRead, PumpAt

(* What the pump does on its own.                                          *)
LEMMA PumpTypeStep == ASSUME ContinueInv, [ContinueNext]_continueVars PROVE PumpTypeOK'
<1> USE ContinueAssumption DEF ContinueInv, PumpTypeOK, PumpPlaces, Says, PumpAt, PumpEnds
<1>1. CASE ReadsOn
  BY <1>1 DEF ReadsOn
<1>2. CASE ReadsIdentifier
  <2>1. TRUE \in BOOLEAN
    BY Zenon
  <2>2. 0 \in 0..Pieces
    OBVIOUS
  <2>3. /\ served' = [served EXCEPT !.id = TRUE]
        /\ pump' = [pump EXCEPT !.at = "write", !.line = 0, !.id = TRUE]
        /\ UNCHANGED <<pipe, reader>>
    BY <1>2 DEF ReadsIdentifier, Carries
  <2> QED BY <2>1, <2>2, <2>3
<1>3. CASE ReadsPiece
  <2>1. served.pieces + 1 \in 0..Pieces
    BY <1>3 DEF ReadsPiece
  <2> QED BY <1>3, <2>1 DEF ReadsPiece, Carries
<1>4. CASE ReadsStatus
  <2>1. PICK said \in Says \ {"nothing"} :
          /\ served' = [served EXCEPT !.said = said]
          /\ pump' = [pump EXCEPT !.at = "write", !.line = 0, !.status = said,
                                  !.finished = pump.finished \/ said # "more"]
          /\ UNCHANGED <<pipe, reader>>
    BY <1>4 DEF ReadsStatus, Carries
  <2>2. 0 \in 0..Pieces /\ (pump.finished \/ said # "more") \in BOOLEAN
    OBVIOUS
  <2>3. \A f \in BOOLEAN : [pump EXCEPT !.at = "write", !.line = 0, !.status = said,
                                        !.finished = f]
          \in [at : PumpPlaces, id : BOOLEAN, status : Says, finished : BOOLEAN,
              done : BOOLEAN, rounds : 0..MaxRounds, line : 0..Pieces, cut : BOOLEAN]
    BY <2>2
  <2>4. pump' \in [at : PumpPlaces, id : BOOLEAN, status : Says, finished : BOOLEAN,
                  done : BOOLEAN, rounds : 0..MaxRounds, line : 0..Pieces, cut : BOOLEAN]
    BY <2>1, <2>2, <2>3
  <2>5. served' \in [pieces : 0..Pieces, id : BOOLEAN, said : Says]
    BY <2>1
  <2> QED BY <2>1, <2>4, <2>5
<1>5. CASE ReadsDone
  BY <1>5 DEF ReadsDone
<1>6. CASE ReadsEnd
  BY <1>6 DEF ReadsEnd
<1>7. CASE ReadFails
  BY <1>7 DEF ReadFails
<1>8. CASE WriteFails
  BY <1>8 DEF WriteFails
<1>9. CASE Continues
  <2>1. pump.rounds + 1 \in 0..MaxRounds
    BY <1>9 DEF Continues, AsksForMore
  <2> QED BY <1>9, <2>1 DEF Continues
<1>10. CASE ContinueRefused
  BY <1>10 DEF ContinueRefused
<1>11. CASE RoundsSpent
  BY <1>11 DEF RoundsSpent
<1>12. CASE Finishes
  <2>1. CASE pump' = [pump EXCEPT !.at = "last"] /\ UNCHANGED <<bodies, pipe>>
    BY <1>12, <2>1 DEF Finishes
  <2>2. CASE PumpEnds("end")
    BY <1>12, <2>2 DEF Finishes
  <2> QED BY <1>12, <2>1, <2>2 DEF Finishes
<1>13. CASE ReaderReads
  <2>0. 0 \in 0..Pieces
    OBVIOUS
  <2>1. /\ reader'.done = reader.done /\ reader'.on = reader.on
        /\ reader' = [got |-> reader'.got, done |-> reader'.done, on |-> reader'.on]
    <3>1. reader' = reader \/ reader' = [reader EXCEPT !.got = Append(@, pump.line)]
      BY <1>13 DEF ReaderReads
    <3>2. reader = [got |-> reader.got, done |-> reader.done, on |-> reader.on]
      OBVIOUS
    <3> HIDE DEF PumpTypeOK, ContinueInv
    <3> QED BY ONLY <3>1, <3>2
  <2>3. pump' = [pump EXCEPT !.at = "next", !.line = 0] /\ UNCHANGED <<served, pipe>>
    BY <1>13 DEF ReaderReads
  <2>4. pump' \in [at : PumpPlaces, id : BOOLEAN, status : Says, finished : BOOLEAN,
                  done : BOOLEAN, rounds : 0..MaxRounds, line : 0..Pieces, cut : BOOLEAN]
    BY <2>0, <2>3
  <2>5. reader'.done \in BOOLEAN /\ reader'.on \in BOOLEAN
    BY <2>1
  <2>6. served' \in [pieces : 0..Pieces, id : BOOLEAN, said : Says]
    BY <2>3
  <2> HIDE DEF PumpPlaces, Says
  <2> QED BY ONLY <2>1, <2>3, <2>4, <2>5, <2>6, PumpTypeOK DEF PumpTypeOK
<1>14. CASE ReaderReadsDone
  BY <1>14 DEF ReaderReadsDone
<1>15. CASE ReaderCloses
  BY <1>15 DEF ReaderCloses
<1>16. CASE RequestEnds
  BY <1>16 DEF RequestEnds
<1>17. CASE UNCHANGED continueVars
  BY <1>17 DEF continueVars
<1> QED BY <1>1, <1>2, <1>3, <1>4, <1>5, <1>6, <1>7, <1>8, <1>9, <1>10, <1>11, <1>12, <1>13,
           <1>14, <1>15, <1>16, <1>17 DEF ContinueNext, PumpWorks

(* The pump ends, as an end only if no more was announced.                 *)
LEMMA PumpEndsFits ==
  ASSUME ContinueInv, NEW how \in {"end", "error"}, PumpEnds(how), pump.at # "over",
         UNCHANGED <<served, reader>>, how = "end" => served.said # "more"
  PROVE  PiecesInOrder' /\ WordKept' /\ EndsRight' /\ BodiesRead'
<1>1. /\ pump'.at = "over" /\ pump'.line = pump.line /\ pump'.id = pump.id
      /\ pump'.status = pump.status /\ pump'.finished = pump.finished
  BY DEF ContinueInv, PumpTypeOK, PumpEnds
<1>2. pipe' = how /\ bodies' = bodies \ {pump.rounds}
  BY DEF PumpEnds
<1>3. PiecesInOrder'
  BY <1>1 DEF ContinueInv, PiecesInOrder, Handed
<1>4. WordKept'
  BY <1>1 DEF ContinueInv, WordKept, PumpAt
<1>5. EndsRight'
  BY <1>1, <1>2 DEF ContinueInv, EndsRight, PumpAt
<1>6. BodiesRead'
  BY <1>1, <1>2 DEF ContinueInv, BodiesRead
<1> QED BY <1>3, <1>4, <1>5, <1>6

LEMMA ContinueStep == ASSUME ContinueInv, [ContinueNext]_continueVars PROVE ContinueInv'
<1>0. PumpTypeOK'
  BY PumpTypeStep
<1> SUFFICES PiecesInOrder' /\ WordKept' /\ EndsRight' /\ BodiesRead'
  BY <1>0 DEF ContinueInv
<1> USE ContinueAssumption, <1>0
    DEF ContinueInv, PumpTypeOK, PumpPlaces, Says, PiecesInOrder, Handed, WordKept, EndsRight,
        BodiesRead, PumpAt
<1>1. CASE ReadsOn
  BY <1>1 DEF ReadsOn
<1>2. CASE ReadsIdentifier
  BY <1>2 DEF ReadsIdentifier, Carries
<1>3. CASE ReadsPiece
  <2>1. /\ served'.pieces = served.pieces + 1 /\ served'.id = served.id
        /\ served'.said = served.said /\ served.said = "nothing"
        /\ pump'.line = served.pieces + 1 /\ pump'.at = "write" /\ pump.line = 0
        /\ pump'.id = pump.id /\ pump'.status = pump.status /\ pump'.finished = pump.finished
        /\ pump'.rounds = pump.rounds /\ UNCHANGED <<bodies, pipe, reader>>
        /\ pump.at = "read"
    BY <1>3 DEF ReadsPiece, Carries
  <2>2. PiecesInOrder'
    BY <2>1
  <2>3. WordKept'
    BY <2>1
  <2>4. EndsRight'
    BY <2>1
  <2>5. BodiesRead'
    BY <2>1
  <2> QED BY <2>2, <2>3, <2>4, <2>5
<1>4. CASE ReadsStatus
  <2>1. PICK said \in Says \ {"nothing"} :
          /\ said # "filtered" => (said = "whole" <=> served.pieces = Pieces)
          /\ served' = [served EXCEPT !.said = said]
          /\ pump' = [Carries(0) EXCEPT !.status = said, !.finished = @ \/ said # "more"]
    BY ONLY <1>4, Zenon DEF ReadsStatus
  <2>2. /\ pump.at = "read" /\ served.said = "nothing" /\ served.id
        /\ UNCHANGED <<bodies, pipe, reader>>
    BY ONLY <1>4 DEF ReadsStatus, PumpAt
  <2>6. /\ served'.pieces = served.pieces /\ served'.id = served.id /\ served'.said = said
        /\ pump'.line = 0 /\ pump'.at = "write" /\ pump.line = 0
        /\ pump'.id = pump.id /\ pump'.status = said /\ pump'.rounds = pump.rounds
        /\ pump'.finished <=> said # "more"
    BY <2>1, <2>2, ZenonT(30) DEF Carries
  <2>3. PiecesInOrder'
    BY <2>1, <2>2, <2>6
  <2>4. WordKept'
    BY <2>1, <2>2, <2>6, ZenonT(30)
  <2>5. EndsRight' /\ BodiesRead'
    BY <2>1, <2>2, <2>6
  <2> QED BY <2>3, <2>4, <2>5
<1>5. CASE ReadsDone
  BY <1>5 DEF ReadsDone
<1>6. CASE ReadsEnd
  BY <1>6 DEF ReadsEnd
<1>7. CASE ReadFails
  BY ONLY ContinueInv, <1>7, PumpEndsFits DEF ReadFails, PumpAt
<1>8. CASE WriteFails
  BY ONLY ContinueInv, <1>8, PumpEndsFits DEF WriteFails
<1>9. CASE Continues
  BY <1>9, ZenonT(30) DEF Continues, AsksForMore, ShouldContinue
<1>10. CASE ContinueRefused
  BY ONLY ContinueInv, <1>10, PumpEndsFits DEF ContinueRefused, PumpAt
<1>11. CASE RoundsSpent
  BY ONLY ContinueInv, <1>11, PumpEndsFits DEF RoundsSpent, PumpAt
<1>12. CASE Finishes
  <2>1. served.said # "more" /\ UNCHANGED <<served, reader>> /\ pump.at = "decide"
    BY <1>12 DEF Finishes, NothingToCome, ShouldContinue
  <2>2. CASE pump.done /\ pump' = [pump EXCEPT !.at = "last"] /\ UNCHANGED <<bodies, pipe>>
    BY <2>1, <2>2
  <2>3. CASE PumpEnds("end")
    BY ONLY ContinueInv, <2>1, <2>3, PumpEndsFits
  <2> QED BY <1>12, <2>2, <2>3 DEF Finishes
<1>13. CASE ReaderReads
  <2>1. CASE pump.line = 0
    BY <1>13, <2>1 DEF ReaderReads
  <2>2. CASE pump.line # 0
    <3>1. served.pieces - 1 \in Nat /\ pump.line = (served.pieces - 1) + 1
      BY <2>2
    <3>2. Append(reader.got, pump.line) = UpTo(served.pieces)
      BY <2>2, <3>1, UpToGrows
    <3> QED BY <1>13, <2>2, <3>2 DEF ReaderReads
  <2> QED BY <2>1, <2>2
<1>14. CASE ReaderReadsDone
  BY <1>14 DEF ReaderReadsDone, PumpEnds
<1>15. CASE ReaderCloses
  BY <1>15 DEF ReaderCloses
<1>16. CASE RequestEnds
  BY <1>16 DEF RequestEnds
<1>17. CASE UNCHANGED continueVars
  BY <1>17 DEF continueVars
<1> QED BY <1>1, <1>2, <1>3, <1>4, <1>5, <1>6, <1>7, <1>8, <1>9, <1>10, <1>11, <1>12, <1>13,
           <1>14, <1>15, <1>16, <1>17 DEF ContinueNext, PumpWorks

LEMMA ContinueSafe == ContinueInv => AnswerContinued
<1> SUFFICES ASSUME ContinueInv PROVE AnswerContinued
  OBVIOUS
<1>1. Handed \in Nat
  BY DEF ContinueInv, PumpTypeOK, PiecesInOrder, Handed
<1>2. reader.got = UpTo(Handed) /\ Len(reader.got) = Handed
  BY <1>1, UpToIsSeq DEF ContinueInv, PiecesInOrder
<1> QED BY <1>2
   DEF ContinueInv, EndsRight, BodiesRead, PumpAt, AnswerContinued, UpTo

(* However many rounds an answer takes and wherever they break, the reader *)
(* gets its pieces in order and once, and an end only where there is one.  *)
THEOREM AnswerContinuedHolds == ContinueSpec => []AnswerContinued
BY ContinueInitInv, ContinueStep, ContinueSafe, PTL DEF ContinueSpec

-----------------------------------------------------------------------------
(***************************************************************************)
(* CollectedAnswer.                                                        *)
(*                                                                         *)
(* What has been thought is of the session the loop is in, which belongs   *)
(* to the request's account or a repair has moved that since.  It is free  *)
(* of what was refused, except while the refusal itself is looked at: then it *)
(* is thrown away, or no turn is returned.                                 *)
(***************************************************************************)

LoopType == [at : {"collect", "decide", "switch", "over"}, attempt : Nat \ {0},
             attempts : 0..CollectRetries, session : Nat \ {0},
             account : CollectAccounts, strayed : BOOLEAN, once : BOOLEAN, managed : BOOLEAN, err : CollectErrors \cup {"none"}]
LoopTypeOK ==
  /\ loop \in LoopType
  /\ sessionOf \in Seq(Nat) /\ Len(sessionOf) = loop.attempt
  /\ ownerOfSession \in Seq(Nat) /\ Len(ownerOfSession) = loop.session
  /\ thoughts \subseteq 1..loop.attempt /\ unusable \subseteq 1..loop.attempt

SessionsFit ==
  /\ sessionOf[loop.attempt] = loop.session
  /\ ~CollectAt("over") => ownerOfSession[loop.session] = loop.account \/ loop.strayed = TRUE
  /\ \A t \in thoughts : sessionOf[t] = loop.session

(* Nothing of a refused output is in what may still be returned.           *)
NothingRefused == unusable \cap (thoughts \cup {loop.attempt}) = {}

RefusedLeftOut ==
  CollectAt("collect") \/ (CollectAt("decide") /\ loop.err \notin {"tool", "echo"})
    => NothingRefused

ReturnedFits ==
  /\ ~CollectAt("over") => returned = NothingReturned
  /\ returned.answer # 0 =>
       /\ returned.answer = loop.attempt /\ returned.thoughts = thoughts
       /\ NothingRefused

ResponsesClosed == unread = IF CollectAt("collect") THEN {loop.attempt} ELSE {}

CollectInv ==
  LoopTypeOK /\ SessionsFit /\ RefusedLeftOut /\ ReturnedFits /\ ResponsesClosed

LEMMA AppendNat ==
  ASSUME NEW q \in Seq(Nat), NEW n \in Nat
  PROVE  /\ Append(q, n) \in Seq(Nat) /\ Len(Append(q, n)) = Len(q) + 1
         /\ Append(q, n)[Len(q) + 1] = n
         /\ \A t \in 1..Len(q) : Append(q, n)[t] = q[t]
OBVIOUS

LEMMA CollectInitInv == CollectInit => CollectInv
<1> SUFFICES ASSUME CollectInit PROVE CollectInv
  OBVIOUS
<1>1. PICK managed \in BOOLEAN :
        loop = [at |-> "collect", attempt |-> 1, attempts |-> 0, session |-> 1,
                account |-> 1, strayed |-> FALSE, once |-> FALSE,
                managed |-> managed, err |-> "none"]
  BY DEF CollectInit
<1>2. FALSE \in BOOLEAN /\ 1 \in CollectAccounts
  BY CollectAssumption DEF CollectAccounts, MaxSession
<1>3. LoopTypeOK
  BY <1>1, <1>2, CollectAssumption DEF CollectInit, LoopType, LoopTypeOK
<1> QED BY <1>1, <1>3
   DEF CollectInit, CollectInv, SessionsFit, RefusedLeftOut, NothingRefused, ReturnedFits,
       ResponsesClosed, CollectAt, NothingReturned

LEMMA NextAccountsTyped ==
  ASSUME LoopTypeOK, NEW a \in NextAccounts PROVE a \in CollectAccounts
BY CollectAssumption DEF LoopTypeOK, LoopType, NextAccounts, CollectAccounts, MaxSession

(* Steps in which the loop only goes elsewhere.                            *)
LEMMA CollectGoes ==
  ASSUME CollectInv,
         \/ AttemptFails \/ AttemptRead \/ AsksAnother \/ ReturnsTurn \/ GivesUpCollecting
  PROVE  CollectInv'
<1> USE DEF CollectInv, LoopType, LoopTypeOK, SessionsFit, RefusedLeftOut, NothingRefused, ReturnedFits,
            ResponsesClosed, CollectAt, CollectTo, NothingReturned, CollectErrors
<1>1. CASE AttemptFails
  BY <1>1, ZenonT(30) DEF AttemptFails
<1>2. CASE AttemptRead
  <2>0. ASSUME NEW a PROVE (loop.strayed \/ a # loop.account) \in BOOLEAN
    OBVIOUS
  <2>1. PICK more \in SUBSET {loop.attempt}, err \in CollectErrors \cup {"none"},
             a \in NextAccounts, strayed \in BOOLEAN :
          /\ loop.at = "collect" /\ unread' = unread \ {loop.attempt}
          /\ thoughts' = thoughts \cup more
          /\ (a = loop.account /\ strayed = loop.strayed) \/ strayed = TRUE
          /\ loop' = [loop EXCEPT !.at = "decide", !.err = err, !.account = a,
                                 !.strayed = strayed]
          /\ unusable' = IF err \in {"tool", "echo"} THEN unusable \cup {loop.attempt}
                         ELSE unusable
          /\ UNCHANGED <<sessionOf, ownerOfSession, returned>>
    <3>1. PICK more \in SUBSET {loop.attempt} :
            /\ thoughts' = thoughts \cup more
            /\ \E err \in TurnErrors(thoughts'), a \in NextAccounts :
                 /\ loop' = [loop EXCEPT !.at = "decide", !.err = err, !.account = a,
                                        !.strayed = @ \/ a # loop.account]
                 /\ unusable' = IF err \in {"tool", "echo"} THEN unusable \cup {loop.attempt}
                                ELSE unusable
      BY <1>2, Zenon DEF AttemptRead
    <3>2. PICK err \in TurnErrors(thoughts'), a \in NextAccounts :
            /\ loop' = [loop EXCEPT !.at = "decide", !.err = err, !.account = a,
                                   !.strayed = @ \/ a # loop.account]
            /\ unusable' = IF err \in {"tool", "echo"} THEN unusable \cup {loop.attempt}
                           ELSE unusable
      BY <3>1, Zenon
    <3>3. PICK strayed \in BOOLEAN : strayed = (loop.strayed \/ a # loop.account)
      BY <2>0
    <3>4. loop' = [loop EXCEPT !.at = "decide", !.err = err, !.account = a,
                              !.strayed = strayed]
      BY <3>2, <3>3, Zenon
    <3>5. (a = loop.account /\ strayed = loop.strayed) \/ strayed = TRUE
      <4>1. CASE a = loop.account
        <5>1. strayed = loop.strayed
          BY <3>3, <4>1
        <5> QED BY <4>1, <5>1
      <4>2. CASE a # loop.account
        BY <3>3, <4>2
      <4> QED BY <4>1, <4>2
    <3>6. /\ err \in CollectErrors \cup {"none"} /\ loop.at = "collect"
          /\ unread' = unread \ {loop.attempt} /\ UNCHANGED <<sessionOf, ownerOfSession, returned>>
      BY <1>2 DEF AttemptRead, TurnErrors
    <3> QED BY <3>1, <3>2, <3>4, <3>5, <3>6
  <2>2. LoopTypeOK'
    <3>1. loop' \in LoopType
      BY <2>1, NextAccountsTyped
    <3>2. thoughts' \subseteq 1..loop.attempt /\ unusable' \subseteq 1..loop.attempt
      BY <2>1
    <3>3. loop'.attempt = loop.attempt /\ loop'.session = loop.session
      BY <2>1
    <3> QED BY <2>1, <3>1, <3>2, <3>3
  <2>3. SessionsFit' /\ ReturnedFits' /\ ResponsesClosed'
    BY <2>1
  <2>4. RefusedLeftOut'
    BY <2>1
  <2> QED BY <2>2, <2>3, <2>4
<1>3. CASE AsksAnother
  BY <1>3 DEF AsksAnother
<1>4. CASE ReturnsTurn
  BY <1>4 DEF ReturnsTurn
<1>5. CASE GivesUpCollecting
  BY <1>5 DEF GivesUpCollecting, ReturnsError
<1> QED BY <1>1, <1>2, <1>3, <1>4, <1>5

(* Another attempt in the session.                                         *)
LEMMA CollectAgain == ASSUME CollectInv, RegeneratesCollected PROVE CollectInv'
<1> USE CollectAssumption DEF CollectInv
<1>1. CASE /\ loop' = [loop EXCEPT !.at = "collect", !.attempt = @ + 1, !.attempts = @ + 1,
                                   !.err = "none"]
           /\ NextAttempt(loop.session) /\ thoughts' = StillUsable
  <2>1. /\ loop.at = "decide" /\ loop.attempts < CollectRetries
        /\ UNCHANGED <<ownerOfSession, unusable, returned>>
    BY DEF RegeneratesCollected, MayRegenerate, CollectAt
  <2>2. /\ sessionOf' = Append(sessionOf, loop.session)
        /\ unread' = unread \cup {loop.attempt + 1}
        /\ thoughts' = IF loop.err \in {"tool", "echo"} THEN {} ELSE thoughts
    BY <1>1 DEF NextAttempt, StillUsable
  <2>3. /\ loop'.at = "collect" /\ loop'.attempt = loop.attempt + 1
        /\ loop'.session = loop.session /\ loop'.account = loop.account
        /\ loop'.strayed = loop.strayed
    BY <1>1 DEF LoopType, LoopTypeOK
  <2>4. /\ sessionOf' \in Seq(Nat) /\ Len(sessionOf') = loop'.attempt
        /\ sessionOf'[loop'.attempt] = loop.session
        /\ \A t \in 1..loop.attempt : sessionOf'[t] = sessionOf[t]
    <3>1. loop.session \in Nat /\ sessionOf \in Seq(Nat) /\ Len(sessionOf) = loop.attempt
      BY DEF LoopType, LoopTypeOK
    <3> QED BY <2>2, <2>3, <3>1, AppendNat
  <2>5. LoopTypeOK'
    <3>1. loop.attempts + 1 \in 0..CollectRetries /\ loop.attempt + 1 \in Nat \ {0}
      BY <2>1 DEF LoopType, LoopTypeOK
    <3>2. loop' \in LoopType
      <4>1. \A n \in Nat \ {0}, m \in 0..CollectRetries :
              [loop EXCEPT !.at = "collect", !.attempt = n, !.attempts = m, !.err = "none"]
                \in LoopType
        BY DEF LoopType, LoopTypeOK
      <4> QED BY <1>1, <3>1, <4>1
    <3>3. thoughts' \subseteq 1..loop'.attempt /\ unusable' \subseteq 1..loop'.attempt
      <4>1. \A t \in 1..loop.attempt : t \in 1..loop'.attempt
        BY <2>3 DEF LoopType, LoopTypeOK
      <4>2. thoughts' \subseteq 1..loop.attempt /\ unusable' \subseteq 1..loop.attempt
        BY <2>1, <2>2 DEF LoopTypeOK
      <4> QED BY <4>1, <4>2
    <3> QED BY <2>1, <2>3, <2>4, <3>2, <3>3 DEF LoopTypeOK
  <2>6. SessionsFit'
    BY <2>1, <2>2, <2>3, <2>4 DEF SessionsFit, LoopTypeOK, CollectAt
  <2>7. RefusedLeftOut' /\ ReturnedFits' /\ ResponsesClosed'
    BY <2>1, <2>2, <2>3
       DEF LoopType, LoopTypeOK, RefusedLeftOut, NothingRefused, ReturnedFits, ResponsesClosed, CollectAt,
           NothingReturned
  <2> QED BY <2>5, <2>6, <2>7
<1>2. CASE /\ \E err \in {"once", "account", "fatal"} :
                loop' = [loop EXCEPT !.at = "switch", !.attempts = @ + 1, !.err = err]
           /\ UNCHANGED <<thoughts, sessionOf, unread>>
  <2>1. /\ loop.at = "decide" /\ UNCHANGED <<ownerOfSession, unusable, returned>>
        /\ loop.attempts + 1 \in 0..CollectRetries
    BY DEF RegeneratesCollected, MayRegenerate, CollectAt, LoopType, LoopTypeOK
  <2>2. LoopTypeOK'
    <3>1. loop' \in LoopType
      <4>1. loop \in LoopType
        BY DEF LoopTypeOK
      <4>2. PICK err \in CollectErrors :
              loop' = [loop EXCEPT !.at = "switch", !.attempts = @ + 1, !.err = err]
        BY <1>2, Zenon DEF CollectErrors
      <4> DEFINE n == loop.attempts + 1
      <4>3. loop' = [loop EXCEPT !.at = "switch", !.attempts = n, !.err = err]
        BY <4>2
      <4>4. n \in 0..CollectRetries
        BY <2>1
      <4> HIDE DEF n
      <4> QED BY ONLY <4>1, <4>3, <4>4 DEF LoopType
    <3>2. loop'.attempt = loop.attempt /\ loop'.session = loop.session
      <4>1. loop \in LoopType
        BY DEF LoopTypeOK
      <4> QED BY ONLY <4>1, <1>2 DEF LoopType
    <3> QED BY <1>2, <2>1, <3>1, <3>2 DEF LoopTypeOK
  <2> QED BY <1>2, <2>1, <2>2
     DEF LoopType, LoopTypeOK, SessionsFit, RefusedLeftOut, NothingRefused, ReturnedFits, ResponsesClosed,
         CollectAt, NothingReturned
<1> QED BY <1>1, <1>2 DEF RegeneratesCollected

(* A session on another account, or none.                                  *)
LEMMA CollectElsewhere ==
  ASSUME CollectInv, StartsOnAnother \/ StartFailsOnAnother PROVE CollectInv'
<1> USE DEF CollectInv
<1>0. ASSUME NEW b \in BOOLEAN PROVE (loop.once \/ b) \in BOOLEAN
  OBVIOUS
<1>1. CASE StartsOnAnother
  <2>1. PICK once \in BOOLEAN, a \in NextAccounts :
          /\ loop' = [loop EXCEPT !.at = "collect", !.attempt = @ + 1, !.session = @ + 1,
                                 !.account = a, !.strayed = FALSE, !.once = once,
                                 !.err = "none"]
          /\ ownerOfSession' = Append(ownerOfSession, a)
    BY <1>1, Zenon DEF StartsOnAnother
  <2>2. /\ loop.at = "switch" /\ UNCHANGED <<unusable, returned>>
        /\ sessionOf' = Append(sessionOf, loop.session + 1)
        /\ unread' = unread \cup {loop.attempt + 1} /\ thoughts' = {}
    BY <1>1 DEF StartsOnAnother, CollectAt, NextAttempt, NewSessionThoughts
  <2>3. /\ loop'.at = "collect" /\ loop'.attempt = loop.attempt + 1
        /\ loop'.session = loop.session + 1 /\ loop'.account = a
    BY <2>1 DEF LoopType, LoopTypeOK
  <2>4. /\ sessionOf' \in Seq(Nat) /\ Len(sessionOf') = loop'.attempt
        /\ sessionOf'[loop'.attempt] = loop'.session
    <3>1. /\ sessionOf \in Seq(Nat) /\ Len(sessionOf) = loop.attempt
          /\ Len(ownerOfSession) = loop.session /\ loop.session + 1 \in Nat
      BY DEF LoopType, LoopTypeOK
    <3> QED BY <2>2, <2>3, <3>1, AppendNat
  <2>5. /\ ownerOfSession' \in Seq(Nat) /\ Len(ownerOfSession') = loop'.session
        /\ ownerOfSession'[loop'.session] = loop'.account
    <3>1. /\ ownerOfSession \in Seq(Nat) /\ Len(ownerOfSession) = loop.session
      BY DEF LoopType, LoopTypeOK
    <3>2. a \in Nat
      BY NextAccountsTyped DEF CollectAccounts
    <3> QED BY <2>1, <2>3, <3>1, <3>2, AppendNat
  <2>6. LoopTypeOK'
    <3>1. /\ loop.attempt + 1 \in Nat \ {0} /\ loop.session + 1 \in Nat \ {0}
          /\ FALSE \in BOOLEAN /\ a \in CollectAccounts
      BY NextAccountsTyped DEF LoopType, LoopTypeOK
    <3>2. loop' \in LoopType
      BY <2>1, <3>1 DEF LoopType, LoopTypeOK
    <3>3. unusable' \subseteq 1..loop'.attempt
      BY <2>2, <2>3 DEF LoopType, LoopTypeOK
    <3> QED BY <2>2, <2>4, <2>5, <3>2, <3>3 DEF LoopTypeOK
  <2>7. SessionsFit'
    BY <2>2, <2>3, <2>4, <2>5 DEF SessionsFit
  <2>8. RefusedLeftOut' /\ ReturnedFits' /\ ResponsesClosed'
    BY <2>2, <2>3
       DEF LoopType, LoopTypeOK, RefusedLeftOut, NothingRefused, ReturnedFits, ResponsesClosed, CollectAt,
           NothingReturned
  <2> QED BY <2>6, <2>7, <2>8
<1>2. CASE StartFailsOnAnother
  <2>1. PICK once \in BOOLEAN, a \in NextAccounts :
          loop' = [loop EXCEPT !.at = "over", !.account = a, !.once = once]
    BY <1>2, Zenon DEF StartFailsOnAnother
  <2>2. /\ loop.at = "switch" /\ returned'.answer = 0
        /\ UNCHANGED <<thoughts, sessionOf, ownerOfSession, unusable, unread>>
    <3>1. loop.at = "switch" /\ \E err \in {"account", "once", "fatal"} : ReturnsError(err)
      BY <1>2, Zenon DEF StartFailsOnAnother, CollectAt
    <3> QED BY <3>1 DEF ReturnsError
  <2>3. a \in CollectAccounts
    BY NextAccountsTyped
  <2>4. LoopTypeOK'
    BY <2>1, <2>2, <2>3 DEF LoopType, LoopTypeOK
  <2> QED BY <2>1, <2>2, <2>4
     DEF LoopType, LoopTypeOK, SessionsFit, RefusedLeftOut, NothingRefused, ReturnedFits, ResponsesClosed,
         CollectAt
<1> QED BY <1>1, <1>2

LEMMA CollectStep == ASSUME CollectInv, [CollectNext]_collectVars PROVE CollectInv'
<1>1. CASE UNCHANGED collectVars
  BY <1>1 DEF collectVars, CollectInv, LoopType, LoopTypeOK, SessionsFit, RefusedLeftOut, NothingRefused,
     ReturnedFits, ResponsesClosed, CollectAt
<1> QED BY <1>1, CollectGoes, CollectAgain, CollectElsewhere DEF CollectNext

LEMMA CollectSafe == CollectInv => TurnOfOneSession
BY DEF CollectInv, LoopType, LoopTypeOK, SessionsFit, ReturnedFits, NothingRefused, ResponsesClosed,
   CollectAt, TurnOfOneSession

(* However often an answer is generated again, here or elsewhere, what is  *)
(* returned is of one session and contains nothing that was refused; and   *)
(* only a repair of tool calls parts the request from its session's        *)
(* account.                                                                *)
THEOREM TurnOfOneSessionHolds == CollectSpec => []TurnOfOneSession
BY CollectInitInv, CollectStep, CollectSafe, PTL DEF CollectSpec

-----------------------------------------------------------------------------
(***************************************************************************)
(* BridgeRegistry.                                                         *)
(*                                                                         *)
(* A dialer's reference keeps its instance from the reaper and from        *)
(* evictions, so that whoever has the mutex of an instance to start its    *)
(* helper finds it registered, or on CloseAll's list, when it gives the    *)
(* mutex back.  Only a dialer that waits for the mutex may find that the   *)
(* instance is nobody's any more; its lifetime has ended then, which is    *)
(* what the look at the context before the mutex is for.                   *)
(***************************************************************************)

InstanceType == [helper : Helpers, mu : MutexHolders, ended : BOOLEAN]
DialerType == [at : {"rest", "evict", "discard"} \cup DialingPlaces,
               proxy : Proxies \cup {CHOOSE p \in Proxies : TRUE},
               on : Instances \cup {NoInstance}, retired : Instances \cup {NoInstance}]

BridgeShape ==
  /\ items \in [Proxies -> Instances \cup {NoInstance}]
  /\ instance \in [Instances -> InstanceType]
  /\ dialer \in [Dialers -> DialerType]
  /\ reaping \subseteq Instances
  /\ closing \in [at : {"none", "stopping", "done"}, left : SUBSET Instances]

Known == RegisteredInstances \cup closing.left
Holds(d, i) ==
  \/ dialer[d].at \in {"ensure", "wait"} /\ dialer[d].on = i
  \/ dialer[d].at = "evict" /\ dialer[d].retired = i

DialerFits(d) ==
  /\ dialer[d].on = NoInstance <=> dialer[d].at = "rest"
  /\ dialer[d].retired = NoInstance <=> dialer[d].at # "evict"
  /\ dialer[d].at \in {"lock", "evict"} =>
       dialer[d].on \in RegisteredInstances \/ instance[dialer[d].on].ended
  /\ dialer[d].at \in {"ensure", "wait"} => dialer[d].on \in Known
  /\ LeaseKept(d)

MutexFits(i) ==
  /\ \A d \in Dialers : instance[i].mu = d <=> Holds(d, i)
  /\ instance[i].mu = "reaper" <=> i \in reaping
  /\ instance[i].mu = "closer" => i \in closing.left

InstanceFits(i) ==
  /\ MutexFits(i) /\ HelperOwned(i)
  /\ i \in RegisteredInstances => ~instance[i].ended
  /\ i \in closing.left => instance[i].ended

RegistryFits ==
  /\ IsFiniteSet(RegisteredInstances) /\ Cardinality(RegisteredInstances) <= MaxRegistered
  /\ closing.at = "none" => closing.left = {}

BridgeInv ==
  /\ BridgeShape /\ RegistryFits
  /\ \A d \in Dialers : DialerFits(d)
  /\ \A i \in Instances : InstanceFits(i)

LEMMA BridgeInitInv == BridgeInit => BridgeInv
<1> SUFFICES ASSUME BridgeInit PROVE BridgeInv
  OBVIOUS
<1>1. RegisteredInstances = {}
  BY DEF BridgeInit, RegisteredInstances
<1>2. FALSE \in BOOLEAN
  BY Zenon
<1>3. BridgeShape
  <2>1. FreshInstance \in InstanceType
    BY <1>2 DEF FreshInstance, InstanceType, Helpers, MutexHolders
  <2>2. NotDialing \in DialerType
    BY DEF NotDialing, DialerType
  <2> QED BY <2>1, <2>2 DEF BridgeInit, BridgeShape
<1>4. RegistryFits
  BY <1>1, FS_EmptySet, BridgeAssumption DEF RegistryFits, BridgeInit
<1>5. ASSUME NEW d \in Dialers PROVE DialerFits(d) /\ ~\E i \in Instances : Holds(d, i)
  BY DEF BridgeInit, DialerFits, NotDialing, LeaseKept, DialerAt, Holds
<1>6. ASSUME NEW i \in Instances PROVE InstanceFits(i)
  BY <1>1, <1>5, BridgeAssumption
     DEF BridgeInit, FreshInstance, InstanceFits, MutexFits, HelperOwned, HelperRuns
<1> QED BY <1>3, <1>4, <1>5, <1>6 DEF BridgeInv

(* An instance that is idle has no dialer on it.                           *)
LEMMA IdleUnused ==
  ASSUME NEW i \in Instances, IdleNow(i)
  PROVE  instance[i].mu = "none" /\ \A d \in Dialers : ~HasReference(d, i)
<1>1. IsFiniteSet({d \in Dialers : HasReference(d, i)})
  BY BridgeAssumption, FS_Subset
<1> QED BY <1>1, FS_EmptySet DEF IdleNow, References

(* What is made anew is nobody's yet.                                      *)
LEMMA NewIsUnused ==
  ASSUME CanMake
  PROVE  /\ NewInstance \in Instances \ RegisteredInstances
         /\ NewInstance \notin reaping \cup closing.left
         /\ \A d \in Dialers : dialer[d].on # NewInstance /\ dialer[d].retired # NewInstance
<1>1. NewInstance \in Instances /\ NewInstance \notin MadeInstances
  BY DEF CanMake, NewInstance
<1> QED BY <1>1 DEF MadeInstances

(* What an action does to the registry.                                    *)
LEMMA RegistryWithout ==
  ASSUME BridgeShape, NEW is, items' = WithoutInstances(is)
  PROVE  RegisteredInstances' = RegisteredInstances \ is
BY DEF BridgeShape, RegisteredInstances, WithoutInstances

LEMMA RegistryWith ==
  ASSUME BridgeShape, NEW p \in Proxies, items[p] = NoInstance, NEW i \in Instances, NEW is,
         items' = [WithoutInstances(is) EXCEPT ![p] = i]
  PROVE  RegisteredInstances' = (RegisteredInstances \ is) \cup {i}
<1> DEFINE kept == WithoutInstances(is)
<1>1. kept \in [Proxies -> Instances \cup {NoInstance}] /\ kept[p] = NoInstance
  BY DEF BridgeShape, WithoutInstances
<1>2. \A q \in Proxies : kept[q] = IF items[q] \in is THEN NoInstance ELSE items[q]
  BY DEF WithoutInstances
<1> HIDE DEF kept
<1>3. items'[p] = i /\ \A q \in Proxies \ {p} : items'[q] = kept[q]
  BY <1>1 DEF kept
<1>4. ASSUME NEW j PROVE j \in RegisteredInstances <=> j # NoInstance /\ \E q \in Proxies : items[q] = j
  BY DEF RegisteredInstances
<1>5. ASSUME NEW j
      PROVE j \in RegisteredInstances' <=> j # NoInstance /\ \E q \in Proxies : items'[q] = j
  BY DEF RegisteredInstances
<1>6. ASSUME NEW j PROVE j \in RegisteredInstances' <=> j \in (RegisteredInstances \ is) \cup {i}
  <2>1. CASE j = i
    BY <1>3, <1>5, <2>1, BridgeAssumption
  <2>2. CASE j # i
    BY <1>1, <1>2, <1>3, <1>4, <1>5, <2>2
  <2> QED BY <2>1, <2>2
<1> QED BY <1>6

(* A dialer that goes to another place, and nothing else of it.            *)
LEMMA DialerMoves ==
  ASSUME BridgeShape, NEW d \in Dialers,
         NEW place \in {"rest", "evict", "discard"} \cup DialingPlaces,
         dialer' = DialerGoes(d, place)
  PROVE  /\ dialer' \in [Dialers -> DialerType]
         /\ dialer'[d].at = place /\ dialer'[d].on = dialer[d].on
         /\ dialer'[d].retired = dialer[d].retired
         /\ \A e \in Dialers \ {d} : dialer'[e] = dialer[e]
BY DEF BridgeShape, DialerType, DialerGoes

(* A dialer's step on one instance, of which the mutex stays or is taken   *)
(* or given back by the dialer.                                            *)
LEMMA OneInstanceStep ==
  ASSUME BridgeInv, BridgeShape', NEW d \in Dialers, NEW i \in Instances,
         UNCHANGED <<items, reaping, closing>>,
         \A e \in Dialers \ {d} : dialer'[e] = dialer[e],
         \A j \in Instances \ {i} : instance'[j] = instance[j],
         instance'[i].ended = instance[i].ended,
         \/ instance'[i].mu = instance[i].mu
         \/ {instance[i].mu, instance'[i].mu} \subseteq {"none", d},
         DialerFits(d)', HelperOwned(i)',
         \A j \in Instances : instance'[j].mu = d <=> Holds(d, j)'
  PROVE  BridgeInv'
<1>1. RegisteredInstances' = RegisteredInstances
  BY DEF RegisteredInstances
<1>2. RegistryFits'
  BY <1>1 DEF BridgeInv, RegistryFits
<1>3. ASSUME NEW e \in Dialers PROVE DialerFits(e)'
  <2>1. CASE e # d
    <3>1. DialerFits(e) /\ dialer'[e] = dialer[e] /\ \A j \in Instances : instance[j].mu = e <=> Holds(e, j)
      BY <2>1 DEF BridgeInv, InstanceFits, MutexFits
    <3>2. dialer[e].on # NoInstance => dialer[e].on \in Instances
      BY DEF BridgeInv, BridgeShape, DialerType
    <3>3. \A j \in Instances : instance'[j].ended = instance[j].ended
      OBVIOUS
    <3>4. LeaseKept(e)'
      BY <1>1, <3>1, <3>2, BridgeAssumption DEF DialerFits, LeaseKept, DialerAt
    <3> QED BY <1>1, <3>1, <3>2, <3>3, <3>4 DEF DialerFits, Known
  <2> QED BY <2>1
<1>4. ASSUME NEW j \in Instances PROVE InstanceFits(j)'
  <2>1. InstanceFits(j)
    BY DEF BridgeInv
  <2>2. MutexFits(j)'
    <3>1. ASSUME NEW e \in Dialers PROVE instance'[j].mu = e <=> Holds(e, j)'
      <4>1. CASE e # d
        BY <2>1, <4>1, BridgeAssumption DEF InstanceFits, MutexFits, Holds
      <4> QED BY <4>1
    <3>2. /\ instance'[j].mu = "reaper" <=> instance[j].mu = "reaper"
          /\ instance'[j].mu = "closer" <=> instance[j].mu = "closer"
      BY BridgeAssumption
    <3> QED BY <2>1, <3>1, <3>2 DEF InstanceFits, MutexFits
  <2>3. HelperOwned(j)'
    BY <1>1, <2>1 DEF InstanceFits, HelperOwned
  <2>4. instance'[j].ended = instance[j].ended
    OBVIOUS
  <2> QED BY <1>1, <2>1, <2>2, <2>3, <2>4 DEF InstanceFits
<1> QED BY <1>2, <1>3, <1>4 DEF BridgeInv

(* What is known of a dialer that is on an instance.                       *)
LEMMA OnInstance ==
  ASSUME BridgeInv, NEW d \in Dialers, dialer[d].at # "rest"
  PROVE  /\ dialer[d].on \in Instances /\ InstanceFits(dialer[d].on) /\ DialerFits(d)
         /\ instance[dialer[d].on] \in InstanceType /\ dialer[d] \in DialerType
         /\ dialer[d].at # "evict" => dialer[d].retired = NoInstance
         /\ \A j \in Instances : instance[j].mu = d <=> Holds(d, j)
BY DEF BridgeInv, BridgeShape, DialerFits, DialerType, InstanceFits, MutexFits

LEMMA SetInstance ==
  ASSUME BridgeShape, NEW i \in Instances, NEW b \in InstanceType,
         instance' = [instance EXCEPT ![i] = b]
  PROVE  /\ instance' \in [Instances -> InstanceType] /\ instance'[i] = b
         /\ \A j \in Instances \ {i} : instance'[j] = instance[j]
BY DEF BridgeShape

LEMMA LockInstanceStep ==
  ASSUME BridgeInv, NEW d \in Dialers, LockInstance(d) PROVE BridgeInv'
<1>0. dialer[d].at = "lock"
  BY DEF LockInstance, DialerAt
<1>a. PICK i \in Instances : i = dialer[d].on
  BY <1>0, OnInstance
<1>1. /\ dialer[d].at = "lock" /\ ~instance[i].ended /\ instance[i].mu = "none"
      /\ dialer' = DialerGoes(d, "ensure") /\ UNCHANGED <<items, reaping, closing>>
  BY <1>a DEF LockInstance, DialerAt, MayLock, LifetimeEnded
<1>2. /\ i \in Instances /\ InstanceFits(i) /\ DialerFits(d) /\ instance[i] \in InstanceType
      /\ dialer[d].retired = NoInstance
      /\ \A j \in Instances : instance[j].mu = d <=> Holds(d, j)
  BY <1>1, <1>a, OnInstance
<1>3. PICK b \in InstanceType :
          /\ b.mu = d
          /\ b.ended = instance[i].ended
          /\ instance' = [instance EXCEPT ![i] = b]
  <2> DEFINE c == [instance[i] EXCEPT !.mu = d]
  <2>1. c \in InstanceType /\ c.mu = d /\ c.ended = instance[i].ended
    BY <1>2 DEF InstanceType, MutexHolders
  <2>2. instance' = [instance EXCEPT ![i] = c]
    BY <1>2, <1>a DEF LockInstance
  <2> QED BY <2>1, <2>2
<1>5. /\ instance' \in [Instances -> InstanceType] /\ instance'[i] = b
      /\ \A j \in Instances \ {i} : instance'[j] = instance[j]
  BY <1>2, <1>3, SetInstance DEF BridgeInv
<1>6. /\ dialer' \in [Dialers -> DialerType] /\ dialer'[d].at = "ensure" /\ dialer'[d].on = i
      /\ dialer'[d].retired = NoInstance /\ \A e \in Dialers \ {d} : dialer'[e] = dialer[e]
  BY <1>a, <1>1, <1>2, DialerMoves DEF BridgeInv, DialingPlaces
<1>7. BridgeShape'
  BY <1>1, <1>5, <1>6 DEF BridgeInv, BridgeShape
<1>8. RegisteredInstances' = RegisteredInstances
  BY <1>1 DEF RegisteredInstances
<1>9. DialerFits(d)'
  BY <1>a, <1>1, <1>2, <1>6, <1>8, BridgeAssumption DEF DialerFits, LeaseKept, DialerAt, Known
<1>10. HelperOwned(i)'
  BY <1>3, <1>5, BridgeAssumption DEF HelperOwned
<1>11. ASSUME NEW j \in Instances PROVE instance'[j].mu = d <=> Holds(d, j)'
  BY <1>a, <1>1, <1>2, <1>3, <1>5, <1>6, BridgeAssumption DEF Holds
<1> QED BY <1>1, <1>2, <1>3, <1>5, <1>6, <1>7, <1>9, <1>10, <1>11, OneInstanceStep

(* Leaving ensure: the mutex is given back.                                *)
LEMMA EnsuredFits ==
  ASSUME BridgeInv, NEW d \in Dialers, NEW helper \in Helpers, NEW place \in {"open", "discard"},
         dialer[d].at \in {"ensure", "wait"}, Ensured(d, helper, place),
         UNCHANGED <<items, reaping, closing>>
  PROVE  BridgeInv'
<1>a. PICK i \in Instances : i = dialer[d].on
  BY OnInstance
<1>1. dialer' = DialerGoes(d, place) /\ place \in DialingPlaces \cup {"discard"}
  BY DEF Ensured, DialingPlaces
<1>2. /\ i \in Instances /\ InstanceFits(i) /\ DialerFits(d) /\ instance[i] \in InstanceType
      /\ dialer[d].retired = NoInstance /\ instance[i].mu = d
      /\ \A j \in Instances : instance[j].mu = d <=> Holds(d, j)
  BY <1>a, OnInstance DEF Holds
<1>3. PICK b \in InstanceType :
          /\ b.mu = "none"
          /\ b.ended = instance[i].ended
          /\ instance' = [instance EXCEPT ![i] = b]
  <2> DEFINE c == [instance[i] EXCEPT !.mu = "none", !.helper = helper]
  <2>1. c \in InstanceType /\ c.mu = "none" /\ c.ended = instance[i].ended
    BY <1>2 DEF InstanceType, MutexHolders
  <2>2. instance' = [instance EXCEPT ![i] = c]
    BY <1>2, <1>a DEF Ensured, BridgeInv, BridgeShape, InstanceType
  <2> QED BY <2>1, <2>2
<1>5. /\ instance' \in [Instances -> InstanceType] /\ instance'[i] = b
      /\ \A j \in Instances \ {i} : instance'[j] = instance[j]
  BY <1>2, <1>3, SetInstance DEF BridgeInv
<1>6. /\ dialer' \in [Dialers -> DialerType] /\ dialer'[d].at = place /\ dialer'[d].on = i
      /\ dialer'[d].retired = NoInstance /\ \A e \in Dialers \ {d} : dialer'[e] = dialer[e]
  BY <1>a, <1>1, <1>2, DialerMoves DEF BridgeInv
<1>7. BridgeShape'
  BY <1>5, <1>6 DEF BridgeInv, BridgeShape
<1>8. RegisteredInstances' = RegisteredInstances
  BY DEF RegisteredInstances
<1>9. i \in Known
  BY <1>a, <1>2 DEF DialerFits
<1>10. DialerFits(d)'
  <2>1. closing.at = "none" => i \in RegisteredInstances
    BY <1>9 DEF Known, BridgeInv, RegistryFits
  <2> QED BY <1>2, <1>3, <1>5, <1>6, <1>8, <2>1, BridgeAssumption
     DEF DialerFits, LeaseKept, DialerAt
<1>11. HelperOwned(i)'
  BY <1>8, <1>9 DEF HelperOwned, Known
<1>12. ASSUME NEW j \in Instances PROVE instance'[j].mu = d <=> Holds(d, j)'
  BY <1>a, <1>2, <1>3, <1>5, <1>6, BridgeAssumption DEF Holds
<1> QED BY <1>2, <1>3, <1>5, <1>6, <1>7, <1>10, <1>11, <1>12, OneInstanceStep

LEMMA StartHelperStep == ASSUME BridgeInv, NEW d \in Dialers, StartHelper(d) PROVE BridgeInv'
<1>0. dialer[d].at = "ensure"
  BY DEF StartHelper, DialerAt
<1>a. PICK i \in Instances : i = dialer[d].on
  BY <1>0, OnInstance
<1>1. /\ dialer[d].at = "ensure" /\ dialer' = DialerGoes(d, "wait")
      /\ UNCHANGED <<items, reaping, closing>>
  BY DEF StartHelper, DialerAt
<1>2. /\ i \in Instances /\ InstanceFits(i) /\ DialerFits(d) /\ instance[i] \in InstanceType
      /\ dialer[d].retired = NoInstance /\ instance[i].mu = d
      /\ \A j \in Instances : instance[j].mu = d <=> Holds(d, j)
  BY <1>1, <1>a, OnInstance DEF Holds
<1>3. PICK b \in InstanceType :
          /\ b.mu = d
          /\ b.ended = instance[i].ended
          /\ instance' = [instance EXCEPT ![i] = b]
  <2> DEFINE c == [instance[i] EXCEPT !.helper = "starting"]
  <2>1. c \in InstanceType /\ c.mu = d /\ c.ended = instance[i].ended
    BY <1>2 DEF InstanceType, Helpers
  <2>2. instance' = [instance EXCEPT ![i] = c]
    BY <1>2, <1>a DEF StartHelper
  <2> QED BY <2>1, <2>2
<1>5. /\ instance' \in [Instances -> InstanceType] /\ instance'[i] = b
      /\ \A j \in Instances \ {i} : instance'[j] = instance[j]
  BY <1>2, <1>3, SetInstance DEF BridgeInv
<1>6. /\ dialer' \in [Dialers -> DialerType] /\ dialer'[d].at = "wait" /\ dialer'[d].on = i
      /\ dialer'[d].retired = NoInstance /\ \A e \in Dialers \ {d} : dialer'[e] = dialer[e]
  BY <1>a, <1>1, <1>2, DialerMoves DEF BridgeInv, DialingPlaces
<1>7. BridgeShape'
  BY <1>1, <1>5, <1>6 DEF BridgeInv, BridgeShape
<1>8. RegisteredInstances' = RegisteredInstances
  BY <1>1 DEF RegisteredInstances
<1>9. DialerFits(d)'
  BY <1>a, <1>1, <1>2, <1>6, <1>8, BridgeAssumption DEF DialerFits, LeaseKept, DialerAt, Known
<1>10. HelperOwned(i)'
  BY <1>3, <1>5, BridgeAssumption DEF HelperOwned
<1>11. ASSUME NEW j \in Instances PROVE instance'[j].mu = d <=> Holds(d, j)'
  BY <1>a, <1>1, <1>2, <1>3, <1>5, <1>6, BridgeAssumption DEF Holds
<1> QED BY <1>1, <1>2, <1>3, <1>5, <1>6, <1>7, <1>9, <1>10, <1>11, OneInstanceStep

(* Steps to the registry without one on an instance.                       *)
LEMMA LeavesInstance ==
  ASSUME BridgeInv, NEW d \in Dialers, LockGivenUp(d) \/ ReleaseLocal(d) PROVE BridgeInv'
<1>1. /\ dialer[d].at \in {"lock", "open"} /\ dialer' = DialerGoes(d, "discard")
      /\ UNCHANGED <<items, instance, reaping, closing>>
  BY DEF LockGivenUp, ReleaseLocal, DialerAt
<1>2. /\ dialer[d].on \in Instances /\ InstanceFits(dialer[d].on) /\ DialerFits(d)
      /\ dialer[d].retired = NoInstance
      /\ \A j \in Instances : instance[j].mu = d <=> Holds(d, j)
  BY <1>1, OnInstance
<1>3. /\ dialer' \in [Dialers -> DialerType] /\ dialer'[d].at = "discard"
      /\ dialer'[d].on = dialer[d].on
      /\ dialer'[d].retired = NoInstance /\ \A e \in Dialers \ {d} : dialer'[e] = dialer[e]
  BY <1>1, <1>2, DialerMoves DEF BridgeInv
<1>4. BridgeShape'
  BY <1>1, <1>3 DEF BridgeInv, BridgeShape
<1>5. DialerFits(d)'
  BY <1>2, <1>3, BridgeAssumption DEF DialerFits, LeaseKept, DialerAt
<1>6. HelperOwned(dialer[d].on)'
  <2>1. RegisteredInstances' = RegisteredInstances
    BY <1>1 DEF RegisteredInstances
  <2>2. HelperOwned(dialer[d].on)
    BY <1>2 DEF InstanceFits
  <2> DEFINE i == dialer[d].on
  <2>3. HelperOwned(i)
    BY <2>2
  <2> HIDE DEF i
  <2> QED BY <1>1, <1>2, <1>3, <2>1, <2>2 DEF HelperOwned
<1>7. ASSUME NEW j \in Instances PROVE instance'[j].mu = d <=> Holds(d, j)'
  BY <1>1, <1>2, <1>3, BridgeAssumption DEF Holds
<1> QED BY <1>1, <1>2, <1>3, <1>4, <1>5, <1>6, <1>7, OneInstanceStep

LEMMA EvictedStopsStep == ASSUME BridgeInv, NEW d \in Dialers, EvictedStops(d) PROVE BridgeInv'
<1>0. dialer[d].at = "evict"
  BY DEF EvictedStops, DialerAt
<1>1. PICK i \in Instances : i = dialer[d].retired
  BY <1>0 DEF BridgeInv, BridgeShape, DialerFits, DialerType
<1>2. /\ dialer[d].on \in Instances /\ DialerFits(d)
      /\ \A j \in Instances : instance[j].mu = d <=> Holds(d, j)
  BY <1>0, OnInstance
<1>3. instance[i].mu = d /\ instance[i] \in InstanceType
  BY <1>0, <1>1, <1>2 DEF Holds, BridgeInv, BridgeShape
<1>4. PICK b \in InstanceType :
        /\ b.mu = "none" /\ b.helper = "none" /\ b.ended = instance[i].ended
        /\ instance' = [instance EXCEPT ![i] = b]
  <2> DEFINE c == [instance[i] EXCEPT !.helper = "none", !.mu = "none"]
  <2>1. c \in InstanceType /\ c.mu = "none" /\ c.helper = "none" /\ c.ended = instance[i].ended
    BY <1>3 DEF InstanceType, MutexHolders, Helpers
  <2>2. instance' = [instance EXCEPT ![i] = c]
    BY <1>1 DEF EvictedStops, HelperStopped
  <2> QED BY <2>1, <2>2
<1>5. /\ instance' \in [Instances -> InstanceType] /\ instance'[i] = b
      /\ \A j \in Instances \ {i} : instance'[j] = instance[j]
  BY <1>4, SetInstance DEF BridgeInv
<1>6. /\ dialer' \in [Dialers -> DialerType] /\ dialer'[d].at = "lock"
      /\ dialer'[d].on = dialer[d].on
      /\ dialer'[d].retired = NoInstance /\ \A e \in Dialers \ {d} : dialer'[e] = dialer[e]
      /\ UNCHANGED <<items, reaping, closing>>
  <2>1. /\ dialer' = [dialer EXCEPT ![d].at = "lock", ![d].retired = NoInstance]
        /\ UNCHANGED <<items, reaping, closing>>
    BY DEF EvictedStops
  <2>2. dialer \in [Dialers -> DialerType] /\ "lock" \in DialingPlaces
    BY DEF BridgeInv, BridgeShape, DialingPlaces
  <2> QED BY <2>1, <2>2 DEF DialerType
<1>7. BridgeShape'
  BY <1>5, <1>6 DEF BridgeInv, BridgeShape
<1>8. RegisteredInstances' = RegisteredInstances
  BY <1>6 DEF RegisteredInstances
<1>9. DialerFits(d)'
  BY <1>0, <1>2, <1>4, <1>5, <1>6, <1>8, BridgeAssumption DEF DialerFits, LeaseKept, DialerAt
<1>10. HelperOwned(i)'
  BY <1>4, <1>5 DEF HelperOwned, HelperRuns
<1>11. ASSUME NEW j \in Instances PROVE instance'[j].mu = d <=> Holds(d, j)'
  BY <1>0, <1>1, <1>2, <1>4, <1>5, <1>6, BridgeAssumption DEF Holds
<1> QED BY <1>3, <1>4, <1>5, <1>6, <1>7, <1>9, <1>10, <1>11, OneInstanceStep

(* A step of the dialers ds to another state of the instances is, of which *)
(* nobody else uses one.                                                   *)
OthersRest(is, ds) ==
  \A e \in Dialers \ ds :
    /\ dialer'[e] = dialer[e]
    /\ \A j \in is : ~HasReference(e, j) /\ ~Holds(e, j) /\ instance'[j].mu # e
OthersKept(is, ds) ==
  \A j \in Instances \ is :
    /\ instance'[j] = instance[j]
    /\ j \in reaping' <=> j \in reaping
    /\ j \in RegisteredInstances' <=> j \in RegisteredInstances
    /\ \A e \in ds : Holds(e, j)' <=> Holds(e, j)
TheseFit(is, ds) ==
  \A e \in ds : DialerFits(e)' /\ \A j \in is : instance'[j].mu = e <=> Holds(e, j)'
FreedFit(is) ==
  \A j \in is :
    /\ HelperOwned(j)'
    /\ instance'[j].mu = "reaper" <=> j \in reaping'
    /\ instance'[j].mu # "closer"
    /\ j \in RegisteredInstances' => ~instance'[j].ended
    /\ j \in closing.left => instance'[j].ended

LEMMA UnusedStep ==
  ASSUME BridgeInv, BridgeShape', RegistryFits', UNCHANGED closing,
         NEW is \in SUBSET Instances, NEW ds \in SUBSET Dialers,
         OthersRest(is, ds), OthersKept(is, ds), TheseFit(is, ds), FreedFit(is)
  PROVE  BridgeInv'
<1> USE DEF OthersRest, OthersKept, TheseFit, FreedFit
<1>1. ASSUME NEW e \in Dialers PROVE DialerFits(e)'
  <2>1. CASE e \notin ds
    <3>1. DialerFits(e) /\ dialer'[e] = dialer[e]
      BY <2>1 DEF BridgeInv
    <3>2. dialer[e].on # NoInstance => dialer[e].on \in Instances
      BY DEF BridgeInv, BridgeShape, DialerType
    <3>3. CASE dialer[e].on \in is
      <4>1. dialer[e].at \notin {"lock", "ensure", "wait", "open", "evict"}
        BY <2>1, <3>3 DEF HasReference, DialingPlaces
      <4> QED BY <3>1, <4>1 DEF DialerFits, LeaseKept, DialerAt
    <3>4. CASE dialer[e].on \notin is
      BY <3>1, <3>2, <3>4, BridgeAssumption DEF DialerFits, LeaseKept, DialerAt, Known
    <3> QED BY <3>3, <3>4
  <2> QED BY <2>1
<1>2. ASSUME NEW j \in Instances PROVE InstanceFits(j)'
  <2>1. InstanceFits(j)
    BY DEF BridgeInv
  <2>2. CASE j \in is
    <3>1. ASSUME NEW e \in Dialers PROVE instance'[j].mu = e <=> Holds(e, j)'
      BY <2>2, <3>1 DEF Holds
    <3> QED BY <2>2, <3>1 DEF InstanceFits, MutexFits
  <2>3. CASE j \notin is
    <3>1. ASSUME NEW e \in Dialers PROVE instance'[j].mu = e <=> Holds(e, j)'
      <4>1. instance'[j].mu = e <=> Holds(e, j)
        BY <2>1, <2>3 DEF InstanceFits, MutexFits
      <4>2. Holds(e, j)' <=> Holds(e, j)
        BY <2>3 DEF Holds
      <4> QED BY <4>1, <4>2
    <3>2. MutexFits(j)'
      BY <2>1, <2>3, <3>1 DEF InstanceFits, MutexFits
    <3> QED BY <2>1, <2>3, <3>2 DEF InstanceFits, HelperOwned
  <2> QED BY <2>2, <2>3
<1> QED BY <1>1, <1>2 DEF BridgeInv

(* A step on one instance while all dialers stay where they are.           *)
LEMMA OutsideStep ==
  ASSUME BridgeInv, BridgeShape', UNCHANGED <<items, dialer>>, closing'.at = closing.at,
         NEW i \in Instances,
         \A j \in Instances \ {i} :
           /\ instance'[j] = instance[j]
           /\ j \in reaping' <=> j \in reaping
           /\ j \in closing'.left <=> j \in closing.left,
         instance'[i].ended = instance[i].ended,
         \A e \in Dialers : instance'[i].mu = e <=> instance[i].mu = e,
         instance'[i].mu \in {instance[i].mu, "none"} \/ closing.at # "none",
         closing'.left \subseteq closing.left,
         i \in closing.left \ closing'.left => instance[i].mu = "closer",
         HelperOwned(i)', instance'[i].mu = "reaper" <=> i \in reaping',
         instance'[i].mu = "closer" => i \in closing'.left
  PROVE  BridgeInv'
<1>1. RegisteredInstances' = RegisteredInstances
  BY DEF RegisteredInstances
<1>2. RegistryFits'
  BY <1>1 DEF BridgeInv, RegistryFits
<1>3. ASSUME NEW e \in Dialers PROVE DialerFits(e)'
  <2>1. DialerFits(e) /\ dialer'[e] = dialer[e]
    BY DEF BridgeInv
  <2>2. /\ dialer[e].on # NoInstance => dialer[e].on \in Instances
        /\ \A j \in Instances : instance[j].mu = e <=> Holds(e, j)
    BY DEF BridgeInv, BridgeShape, DialerType, InstanceFits, MutexFits
  <2>3. \A j \in Instances : instance'[j].ended = instance[j].ended
    OBVIOUS
  <2>4. dialer[e].at \in {"ensure", "wait"} => dialer[e].on \in Known'
    <3>1. SUFFICES ASSUME dialer[e].at \in {"ensure", "wait"} PROVE dialer[e].on \in Known'
      OBVIOUS
    <3>2. PICK j \in Instances : j = dialer[e].on
      BY <2>1, <2>2, <3>1 DEF DialerFits
    <3>3. instance[j].mu = e /\ j \in Known
      BY <2>1, <2>2, <3>1, <3>2 DEF Holds, DialerFits
    <3>4. j \in Known'
      BY <1>1, <3>3, BridgeAssumption DEF Known
    <3> QED BY <3>2, <3>4
  <2>5. LeaseKept(e)'
    BY <1>1, <2>1, <2>2, BridgeAssumption DEF DialerFits, LeaseKept, DialerAt
  <2> QED BY <1>1, <2>1, <2>2, <2>3, <2>4, <2>5 DEF DialerFits
<1>4. ASSUME NEW j \in Instances PROVE InstanceFits(j)'
  <2>1. InstanceFits(j)
    BY DEF BridgeInv
  <2>2. MutexFits(j)'
    <3>1. ASSUME NEW e \in Dialers PROVE instance'[j].mu = e <=> Holds(e, j)'
      <4>1. instance[j].mu = e <=> Holds(e, j)
        BY <2>1 DEF InstanceFits, MutexFits
      <4>2. Holds(e, j)' <=> Holds(e, j)
        BY DEF Holds
      <4>3. instance'[j].mu = e <=> instance[j].mu = e
        OBVIOUS
      <4> QED BY <4>1, <4>2, <4>3
    <3>2. CASE j = i
      BY <3>1, <3>2 DEF MutexFits
    <3>3. CASE j # i
      BY <2>1, <3>1, <3>3 DEF InstanceFits, MutexFits
    <3> QED BY <3>2, <3>3
  <2>3. HelperOwned(j)'
    <3>1. CASE j # i
      BY <1>1, <2>1, <3>1 DEF InstanceFits, HelperOwned
    <3> QED BY <3>1
  <2>4. instance'[j].ended = instance[j].ended
    OBVIOUS
  <2> QED BY <1>1, <2>1, <2>2, <2>3, <2>4 DEF InstanceFits
<1> QED BY <1>2, <1>3, <1>4 DEF BridgeInv

LEMMA ReapedStopsStep == ASSUME BridgeInv, ReapedStops PROVE BridgeInv'
<1>1. PICK i \in reaping :
      /\ instance' = [instance EXCEPT ![i] = HelperStopped(@)]
      /\ reaping' = reaping \ {i}
  BY DEF ReapedStops
<1>2. UNCHANGED <<items, dialer, closing>>
  BY DEF ReapedStops
<1>3. i \in Instances /\ InstanceFits(i) /\ instance[i] \in InstanceType
  BY DEF BridgeInv, BridgeShape
<1>4. instance[i].mu = "reaper"
  BY <1>3 DEF InstanceFits, MutexFits
<1>5. HelperStopped(instance[i]) \in InstanceType
  BY <1>3 DEF HelperStopped, InstanceType, MutexHolders, Helpers
<1>6. /\ instance' \in [Instances -> InstanceType] /\ instance'[i] = HelperStopped(instance[i])
      /\ \A j \in Instances \ {i} : instance'[j] = instance[j]
  BY <1>1, <1>3, <1>5, SetInstance DEF BridgeInv
<1>7. instance'[i].mu = "none" /\ instance'[i].helper = "none" /\ instance'[i].ended = instance[i].ended
  BY <1>3, <1>6 DEF HelperStopped, InstanceType
<1>8. BridgeShape'
  BY <1>1, <1>2, <1>6 DEF BridgeInv, BridgeShape
<1>9. HelperOwned(i)'
  BY <1>7 DEF HelperOwned, HelperRuns
<1> QED BY <1>1, <1>2, <1>3, <1>4, <1>6, <1>7, <1>8, <1>9, OutsideStep, BridgeAssumption

LEMMA HelperExitsStep == ASSUME BridgeInv, HelperExits PROVE BridgeInv'
<1>1. PICK i \in Instances : instance' = [instance EXCEPT ![i].helper = "exited"]
  BY DEF HelperExits
<1>2. UNCHANGED <<items, dialer, reaping, closing>>
  BY DEF HelperExits
<1>3. InstanceFits(i) /\ instance[i] \in InstanceType
  BY DEF BridgeInv, BridgeShape
<1>4. PICK b \in InstanceType :
      /\ b = [instance[i] EXCEPT !.helper = "exited"]
      /\ b.mu = instance[i].mu /\ b.ended = instance[i].ended
      /\ b.helper = "exited"
  <2> DEFINE c == [instance[i] EXCEPT !.helper = "exited"]
  <2>1. c \in InstanceType /\ c.helper = "exited"
    BY <1>3 DEF InstanceType, Helpers
  <2>2. c.mu = instance[i].mu /\ c.ended = instance[i].ended
    BY <1>3 DEF InstanceType
  <2> QED BY <2>1, <2>2
<1>5. /\ instance' \in [Instances -> InstanceType] /\ instance'[i] = b
      /\ \A j \in Instances \ {i} : instance'[j] = instance[j]
  BY <1>1, <1>4, SetInstance DEF BridgeInv
<1>6. BridgeShape'
  BY <1>2, <1>5 DEF BridgeInv, BridgeShape
<1>7. HelperOwned(i)'
  BY <1>4, <1>5 DEF HelperOwned, HelperRuns
<1>8. instance[i].mu = "reaper" <=> i \in reaping
  BY <1>3 DEF InstanceFits, MutexFits
<1>9. instance[i].mu = "closer" => i \in closing.left
  BY <1>3 DEF InstanceFits, MutexFits
<1> QED BY <1>2, <1>4, <1>5, <1>6, <1>7, <1>8, <1>9, OutsideStep

LEMMA CloserStep == ASSUME BridgeInv, CloserSteps PROVE BridgeInv'
<1>1. CASE CloserLocks
  <2>1. PICK i \in closing.left :
          instance[i].mu = "none" /\ instance' = [instance EXCEPT ![i].mu = "closer"]
    BY <1>1 DEF CloserLocks
  <2>2. UNCHANGED <<items, dialer, reaping, closing>>
    BY <1>1 DEF CloserLocks
  <2>3. i \in Instances /\ InstanceFits(i) /\ instance[i] \in InstanceType /\ closing.at # "none"
    BY DEF BridgeInv, BridgeShape, RegistryFits
  <2>4. PICK b \in InstanceType :
        /\ b = [instance[i] EXCEPT !.mu = "closer"]
        /\ b.mu = "closer" /\ b.ended = instance[i].ended
    <3> DEFINE c == [instance[i] EXCEPT !.mu = "closer"]
    <3>1. c \in InstanceType /\ c.mu = "closer" /\ c.ended = instance[i].ended
      BY <2>3 DEF InstanceType, MutexHolders
    <3> QED BY <3>1
  <2>5. /\ instance' \in [Instances -> InstanceType] /\ instance'[i] = b
        /\ \A j \in Instances \ {i} : instance'[j] = instance[j]
    BY <2>1, <2>3, <2>4, SetInstance DEF BridgeInv
  <2>6. BridgeShape'
    BY <2>2, <2>5 DEF BridgeInv, BridgeShape
  <2>7. HelperOwned(i)'
    BY <2>4, <2>5 DEF HelperOwned
  <2>8. i \notin reaping
    BY <2>1, <2>3 DEF InstanceFits, MutexFits
  <2> QED BY <2>1, <2>2, <2>3, <2>4, <2>5, <2>6, <2>7, <2>8, OutsideStep, BridgeAssumption
<1>2. CASE ClosedStops
  <2>1. PICK i \in closing.left :
          /\ instance[i].mu = "closer" /\ instance' = [instance EXCEPT ![i] = HelperStopped(@)]
          /\ closing' = [closing EXCEPT !.left = @ \ {i}]
    BY <1>2 DEF ClosedStops
  <2>2. UNCHANGED <<items, dialer, reaping>>
    BY <1>2 DEF ClosedStops
  <2>3. i \in Instances /\ InstanceFits(i) /\ instance[i] \in InstanceType
    BY DEF BridgeInv, BridgeShape
  <2>4. HelperStopped(instance[i]) \in InstanceType
    BY <2>3 DEF HelperStopped, InstanceType, MutexHolders, Helpers
  <2>5. /\ instance' \in [Instances -> InstanceType] /\ instance'[i] = HelperStopped(instance[i])
        /\ \A j \in Instances \ {i} : instance'[j] = instance[j]
    BY <2>1, <2>3, <2>4, SetInstance DEF BridgeInv
  <2>6. /\ instance'[i].mu = "none" /\ instance'[i].helper = "none"
        /\ instance'[i].ended = instance[i].ended
    BY <2>3, <2>5 DEF HelperStopped, InstanceType
  <2>7. closing'.at = closing.at /\ closing'.left = closing.left \ {i}
    BY <2>1 DEF BridgeInv, BridgeShape
  <2>8. BridgeShape'
    BY <2>1, <2>2, <2>5 DEF BridgeInv, BridgeShape
  <2>9. HelperOwned(i)'
    BY <2>6 DEF HelperOwned, HelperRuns
  <2>10. i \notin reaping
    BY <2>1, <2>3 DEF InstanceFits, MutexFits
  <2> QED BY <2>1, <2>2, <2>3, <2>5, <2>6, <2>7, <2>8, <2>9, <2>10, OutsideStep, BridgeAssumption
<1>3. CASE ClosesAll
  <2>1. /\ closing'.at = "done" /\ closing'.left = closing.left
        /\ UNCHANGED <<items, instance, dialer, reaping>>
    BY <1>3 DEF ClosesAll, BridgeInv, BridgeShape
  <2>2. RegisteredInstances' = RegisteredInstances
    BY <2>1 DEF RegisteredInstances
  <2>3. BridgeShape'
    BY <1>3, <2>1 DEF ClosesAll, BridgeInv, BridgeShape
  <2>4. \A d \in Dialers : DialerFits(d)'
    BY <2>1, <2>2 DEF BridgeInv, DialerFits, LeaseKept, DialerAt, Known
  <2>5. \A i \in Instances : InstanceFits(i)'
    BY <2>1, <2>2 DEF BridgeInv, InstanceFits, MutexFits, HelperOwned, Holds
  <2> QED BY <2>1, <2>2, <2>3, <2>4, <2>5 DEF BridgeInv, RegistryFits
<1> QED BY <1>1, <1>2, <1>3 DEF CloserSteps

LEMMA CloseAllStep == ASSUME BridgeInv, CloseAll PROVE BridgeInv'
<1>1. /\ closing.left = {} /\ closing'.at = "stopping" /\ closing'.left = RegisteredInstances
      /\ UNCHANGED <<dialer, reaping>>
  BY DEF CloseAll, BridgeInv, RegistryFits
<1>2. RegisteredInstances' = {}
  BY DEF CloseAll, RegisteredInstances
<1>3. ASSUME NEW i \in Instances
      PROVE  /\ instance'[i] \in InstanceType /\ instance'[i].mu = instance[i].mu
             /\ instance'[i].helper = instance[i].helper
             /\ instance'[i].ended <=> (i \in RegisteredInstances \/ instance[i].ended)
  <2>1. instance[i] \in InstanceType
    BY DEF BridgeInv, BridgeShape
  <2>2. instance'[i] = IF i \in RegisteredInstances THEN [instance[i] EXCEPT !.ended = TRUE]
                       ELSE instance[i]
    BY DEF CloseAll
  <2>3. TRUE \in BOOLEAN
    BY Zenon
  <2> QED BY <2>1, <2>2, <2>3 DEF InstanceType
<1>4. BridgeShape'
  <2>1. RegisteredInstances \subseteq Instances
    BY DEF BridgeInv, BridgeShape, RegisteredInstances
  <2>2. instance' \in [Instances -> InstanceType]
    BY <1>3 DEF CloseAll
  <2>3. items' \in [Proxies -> Instances \cup {NoInstance}]
    BY DEF CloseAll
  <2>4. closing' \in [at : {"none", "stopping", "done"}, left : SUBSET Instances]
    BY <2>1 DEF CloseAll
  <2> QED BY <1>1, <2>2, <2>3, <2>4 DEF BridgeInv, BridgeShape
<1>5. RegistryFits'
  BY <1>1, <1>2, FS_EmptySet, BridgeAssumption DEF RegistryFits
<1>6. ASSUME NEW d \in Dialers PROVE DialerFits(d)'
  <2>1. DialerFits(d) /\ (dialer[d].on # NoInstance => dialer[d].on \in Instances)
    BY DEF BridgeInv, BridgeShape, DialerType
  <2> QED BY <1>1, <1>2, <1>3, <2>1 DEF DialerFits, LeaseKept, DialerAt, Known
<1>7. ASSUME NEW i \in Instances PROVE InstanceFits(i)'
  <2>1. InstanceFits(i)
    BY DEF BridgeInv
  <2>2. MutexFits(i)'
    BY <1>1, <1>3, <2>1 DEF InstanceFits, MutexFits, Holds
  <2>3. HelperOwned(i)'
    BY <1>1, <1>3, <2>1 DEF InstanceFits, HelperOwned
  <2> QED BY <1>1, <1>2, <1>3, <2>1, <2>2, <2>3 DEF InstanceFits
<1> QED BY <1>4, <1>5, <1>6, <1>7 DEF BridgeInv

LEMMA RegistryShrinks ==
  ASSUME BridgeInv, NEW is, RegisteredInstances' = RegisteredInstances \ is, closing' = closing
  PROVE  RegistryFits'
<1>1. /\ IsFiniteSet(RegisteredInstances \ is)
      /\ Cardinality(RegisteredInstances \ is) <= Cardinality(RegisteredInstances)
      /\ Cardinality(RegisteredInstances \ is) \in Nat /\ Cardinality(RegisteredInstances) \in Nat
  BY FS_Subset, FS_CardinalityType DEF BridgeInv, RegistryFits
<1> QED BY <1>1, BridgeAssumption DEF BridgeInv, RegistryFits

(* Nobody has the mutex of an idle instance, nor refers to it.             *)
LEMMA IdleFree ==
  ASSUME BridgeInv, NEW i \in Instances, IdleNow(i)
  PROVE  /\ instance[i].mu = "none" /\ i \notin reaping
         /\ \A d \in Dialers : ~HasReference(d, i) /\ ~Holds(d, i)
<1>1. InstanceFits(i)
  BY DEF BridgeInv
<1> QED BY <1>1, IdleUnused, BridgeAssumption DEF InstanceFits, MutexFits

LEMMA ReapIdleStep == ASSUME BridgeInv, ReapIdle PROVE BridgeInv'
<1>1. PICK is \in SUBSET {i \in RegisteredInstances : IdleNow(i)} :
        /\ items' = WithoutInstances(is) /\ reaping' = is
        /\ instance' = [i \in Instances |->
             IF i \in is THEN [instance[i] EXCEPT !.mu = "reaper", !.ended = TRUE]
             ELSE instance[i]]
  BY DEF ReapIdle
<1>2. reaping = {} /\ UNCHANGED <<dialer, closing>>
  BY DEF ReapIdle
<1>3. is \subseteq Instances /\ RegisteredInstances' = RegisteredInstances \ is
  <2>1. RegisteredInstances \subseteq Instances
    BY DEF BridgeInv, BridgeShape, RegisteredInstances
  <2>2. RegisteredInstances' = RegisteredInstances \ is
    BY <1>1, RegistryWithout DEF BridgeInv
  <2> QED BY <2>1, <2>2
<1>4. ASSUME NEW i \in is
      PROVE  /\ instance'[i] \in InstanceType /\ instance'[i].mu = "reaper"
             /\ instance'[i].ended
  <2>1. instance[i] \in InstanceType
    BY <1>3 DEF BridgeInv, BridgeShape
  <2>2. instance'[i] = [instance[i] EXCEPT !.mu = "reaper", !.ended = TRUE]
    BY <1>1, <1>3
  <2>3. TRUE \in BOOLEAN
    BY Zenon
  <2> QED BY <2>1, <2>2, <2>3 DEF InstanceType, MutexHolders
<1>5. \A j \in Instances \ is : instance'[j] = instance[j]
  BY <1>1
<1>6. BridgeShape'
  <2>1. items' \in [Proxies -> Instances \cup {NoInstance}]
    BY <1>1 DEF BridgeInv, BridgeShape, WithoutInstances
  <2>2. instance' \in [Instances -> InstanceType]
    BY <1>1, <1>4, <1>5 DEF BridgeInv, BridgeShape
  <2> QED BY <1>1, <1>2, <1>3, <2>1, <2>2 DEF BridgeInv, BridgeShape
<1>7. RegistryFits'
  BY <1>2, <1>3, RegistryShrinks
<1>8. \A i \in is : \A e \in Dialers :
        ~HasReference(e, i) /\ ~Holds(e, i) /\ instance'[i].mu # e
  BY <1>1, <1>3, <1>4, IdleFree, BridgeAssumption
<1>9. \A i \in is : HelperOwned(i)'
  BY <1>4 DEF HelperOwned
<1>10. \A j \in Instances \ is :
         /\ instance'[j] = instance[j]
         /\ j \in reaping' <=> j \in reaping
         /\ j \in RegisteredInstances' <=> j \in RegisteredInstances
  BY <1>1, <1>2, <1>3, <1>5
<1>11. \A i \in is :
         /\ HelperOwned(i)'
         /\ instance'[i].mu = "reaper" <=> i \in reaping'
         /\ instance'[i].mu # "closer"
         /\ i \in RegisteredInstances' => ~instance'[i].ended
         /\ i \in closing.left => instance'[i].ended
  BY <1>1, <1>3, <1>4, <1>9
<1> DEFINE ds == {}
<1>12. ds \in SUBSET Dialers /\ \A e \in Dialers \ ds : dialer'[e] = dialer[e]
  BY <1>2
<1>13. \A d \in ds : DialerFits(d)' /\ \A i \in is : instance'[i].mu = d <=> Holds(d, i)'
  OBVIOUS
<1>14. \A j \in Instances \ is : \A d \in ds : Holds(d, j)' <=> Holds(d, j)
  OBVIOUS
<1>15. is \in SUBSET Instances /\ UNCHANGED closing
  BY <1>2, <1>3
<1> HIDE DEF ds
<1>16. OthersRest(is, ds) /\ OthersKept(is, ds)
  BY <1>8, <1>10, <1>12, <1>14 DEF OthersRest, OthersKept
<1>17. TheseFit(is, ds) /\ FreedFit(is)
  BY <1>11, <1>13 DEF TheseFit, FreedFit
<1> QED BY ONLY BridgeInv, BridgeShape', RegistryFits', <1>6, <1>7, <1>12, <1>15, <1>16, <1>17,
                UnusedStep

LEMMA DiscardStoppedStep ==
  ASSUME BridgeInv, NEW d \in Dialers, DiscardStopped(d) PROVE BridgeInv'
<1>0. dialer[d].at = "discard"
  BY DEF DiscardStopped, DialerAt
<1>1. PICK i \in Instances : i = dialer[d].on
  BY <1>0, OnInstance
<1>2. /\ dialer'[d] = NotDialing /\ \A e \in Dialers \ {d} : dialer'[e] = dialer[e]
      /\ dialer' \in [Dialers -> DialerType] /\ UNCHANGED <<reaping, closing>>
  <2>1. NotDialing \in DialerType
    BY DEF NotDialing, DialerType
  <2> QED BY <2>1 DEF DiscardStopped, BridgeInv, BridgeShape
<1>3. /\ dialer'[d].at = "rest" /\ dialer'[d].on = NoInstance /\ dialer'[d].retired = NoInstance
  BY <1>2 DEF NotDialing
<1>4. DialerFits(d)'
  BY <1>3 DEF DialerFits, LeaseKept, DialerAt
<1>5. \A j \in Instances : ~Holds(d, j) /\ ~Holds(d, j)'
  BY <1>0, <1>3 DEF Holds
<1>6. InstanceFits(i) /\ instance[i] \in InstanceType /\ \A j \in Instances : InstanceFits(j)
  BY DEF BridgeInv, BridgeShape
<1>7. CASE UNCHANGED <<items, instance>>
  <2>1. RegisteredInstances' = RegisteredInstances
    BY <1>7 DEF RegisteredInstances
  <2>2. BridgeShape'
    BY <1>2, <1>7 DEF BridgeInv, BridgeShape
  <2>3. HelperOwned(i)'
    BY <1>2, <1>6, <1>7, <2>1 DEF HelperOwned, InstanceFits
  <2>4. \A j \in Instances : instance'[j].mu = d <=> Holds(d, j)'
    BY <1>5, <1>6, <1>7 DEF InstanceFits, MutexFits
  <2> QED BY <1>2, <1>4, <1>7, <2>2, <2>3, <2>4, OneInstanceStep
<1>8. CASE /\ i \in RegisteredInstances /\ IdleNow(i) /\ HelperDead(i)
           /\ items' = WithoutInstances({i})
           /\ instance' = [instance EXCEPT ![i] = [HelperStopped(@) EXCEPT !.ended = TRUE]]
  <2>1. PICK b \in InstanceType :
          /\ b.mu = "none" /\ b.helper = "none" /\ b.ended
          /\ instance' = [instance EXCEPT ![i] = b]
    <3> DEFINE c == [HelperStopped(instance[i]) EXCEPT !.ended = TRUE]
    <3>1. TRUE \in BOOLEAN
      BY Zenon
    <3>2. c \in InstanceType /\ c.mu = "none" /\ c.helper = "none" /\ c.ended
      BY <1>6, <3>1 DEF InstanceType, MutexHolders, Helpers, HelperStopped
    <3>3. instance' = [instance EXCEPT ![i] = c]
      BY <1>8
    <3> QED BY <3>2, <3>3
  <2>2. /\ instance' \in [Instances -> InstanceType] /\ instance'[i] = b
        /\ \A j \in Instances \ {i} : instance'[j] = instance[j]
    BY <2>1, SetInstance DEF BridgeInv
  <2>3. RegisteredInstances' = RegisteredInstances \ {i}
    BY <1>8, RegistryWithout DEF BridgeInv
  <2>4. BridgeShape'
    <3>1. items' \in [Proxies -> Instances \cup {NoInstance}]
      BY <1>8 DEF BridgeInv, BridgeShape, WithoutInstances
    <3> QED BY <1>2, <2>2, <3>1 DEF BridgeInv, BridgeShape
  <2>5. RegistryFits'
    BY <1>2, <2>3, RegistryShrinks
  <2>6. \A e \in Dialers : ~HasReference(e, i) /\ ~Holds(e, i) /\ instance'[i].mu # e
    BY <1>8, <2>1, <2>2, IdleFree, BridgeAssumption
  <2>7. HelperOwned(i)'
    BY <2>1, <2>2 DEF HelperOwned, HelperRuns
  <2>8. instance'[i].mu # "reaper" /\ i \notin reaping'
    BY <1>2, <1>8, <2>1, <2>2, IdleFree
  <2> DEFINE is == {i}
             ds == {d}
  <2>9. is \in SUBSET Instances /\ ds \in SUBSET Dialers
    OBVIOUS
  <2>10. \A e \in Dialers \ ds :
           /\ dialer'[e] = dialer[e]
           /\ \A j \in is : ~HasReference(e, j) /\ ~Holds(e, j) /\ instance'[j].mu # e
    BY <1>2, <2>6
  <2>11. \A j \in Instances \ is :
           /\ instance'[j] = instance[j]
           /\ j \in reaping' <=> j \in reaping
           /\ j \in RegisteredInstances' <=> j \in RegisteredInstances
           /\ \A e \in ds : Holds(e, j)' <=> Holds(e, j)
    BY <1>2, <1>5, <2>2, <2>3
  <2>12. \A e \in ds : DialerFits(e)' /\ \A j \in is : instance'[j].mu = e <=> Holds(e, j)'
    BY <1>4, <1>5, <2>1, <2>2, <2>6
  <2>13. \A j \in is :
           /\ HelperOwned(j)'
           /\ instance'[j].mu = "reaper" <=> j \in reaping'
           /\ instance'[j].mu # "closer"
           /\ j \in RegisteredInstances' => ~instance'[j].ended
           /\ j \in closing.left => instance'[j].ended
    BY <2>1, <2>2, <2>3, <2>7, <2>8
  <2>14. UNCHANGED closing
    BY <1>2
  <2> HIDE DEF is, ds
  <2>15. OthersRest(is, ds) /\ OthersKept(is, ds) /\ TheseFit(is, ds) /\ FreedFit(is)
    BY ONLY <2>10, <2>11, <2>12, <2>13 DEF OthersRest, OthersKept, TheseFit, FreedFit
  <2> QED BY ONLY BridgeInv, BridgeShape', RegistryFits', <2>4, <2>5, <2>9, <2>14, <2>15, UnusedStep
<1> QED BY <1>1, <1>7, <1>8 DEF DiscardStopped

(* A new instance is registered, in the place of none or of an idle one.   *)
LEMMA RegistersNew ==
  ASSUME BridgeInv, NEW d \in Dialers, NEW p \in Proxies, dialer[d].at = "rest",
         items[p] = NoInstance, CanMake, UNCHANGED <<reaping, closing>>,
         NEW i \in Instances, i = NewInstance,
         NEW gone \in SUBSET RegisteredInstances, \A g \in gone : IdleNow(g),
         BridgeShape', RegistryFits',
         RegisteredInstances' = (RegisteredInstances \ gone) \cup {i},
         \A e \in Dialers \ {d} : dialer'[e] = dialer[e],
         dialer'[d].on = i,
         \/ gone = {} /\ dialer'[d].at = "lock" /\ dialer'[d].retired = NoInstance
         \/ gone = {dialer'[d].retired} /\ dialer'[d].at = "evict",
         instance'[i] = FreshInstance,
         \A g \in gone : instance'[g].mu = d /\ instance'[g].ended,
         \A j \in Instances \ (gone \cup {i}) : instance'[j] = instance[j]
  PROVE  BridgeInv'
<1>1. /\ i \notin RegisteredInstances /\ i \notin reaping /\ i \notin closing.left
      /\ \A e \in Dialers : dialer[e].on # i /\ dialer[e].retired # i
  BY NewIsUnused
<1>2. \A j \in Instances : InstanceFits(j)
  BY DEF BridgeInv
<1>3. gone \subseteq Instances /\ i \notin gone
  BY <1>1 DEF BridgeInv, BridgeShape, RegisteredInstances
<1>4. \A g \in gone : /\ g \notin reaping /\ instance[g].mu = "none"
                     /\ \A e \in Dialers : ~HasReference(e, g) /\ ~Holds(e, g)
  BY <1>3, IdleFree
<1>5. /\ instance'[i].mu = "none" /\ instance'[i].helper = "none" /\ ~instance'[i].ended
  BY DEF FreshInstance
<1> DEFINE is == gone \cup {i}
           ds == {d}
<1>6. is \in SUBSET Instances /\ ds \in SUBSET Dialers
  BY <1>3
<1>7. \A e \in Dialers \ ds :
        /\ dialer'[e] = dialer[e]
        /\ \A j \in is : ~HasReference(e, j) /\ ~Holds(e, j) /\ instance'[j].mu # e
  <2>1. ASSUME NEW e \in Dialers \ ds
        PROVE  ~HasReference(e, i) /\ ~Holds(e, i) /\ instance'[i].mu # e
    BY <1>1, <1>5, BridgeAssumption DEF HasReference, Holds
  <2>2. ASSUME NEW e \in Dialers \ ds, NEW g \in gone
        PROVE  ~HasReference(e, g) /\ ~Holds(e, g) /\ instance'[g].mu # e
    BY <1>4
  <2> QED BY <2>1, <2>2
<1>8. ASSUME NEW j \in Instances
      PROVE  ~Holds(d, j) /\ (Holds(d, j)' <=> j \in gone)
  BY <1>3 DEF Holds, BridgeInv, BridgeShape
<1>9. \A j \in Instances \ is :
        /\ instance'[j] = instance[j]
        /\ j \in reaping' <=> j \in reaping
        /\ j \in RegisteredInstances' <=> j \in RegisteredInstances
        /\ \A e \in ds : Holds(e, j)' <=> Holds(e, j)
  BY <1>8
<1>10. DialerFits(d)'
  <2>1. i # NoInstance /\ NoInstance \notin gone
    BY <1>3, BridgeAssumption
  <2> QED BY <2>1 DEF DialerFits, LeaseKept, DialerAt
<1>11. \A j \in is : instance'[j].mu = d <=> Holds(d, j)'
  BY <1>3, <1>5, <1>8, BridgeAssumption
<1>12. \A e \in ds : DialerFits(e)' /\ \A j \in is : instance'[j].mu = e <=> Holds(e, j)'
  BY <1>10, <1>11
<1>13. \A j \in is :
         /\ HelperOwned(j)'
         /\ instance'[j].mu = "reaper" <=> j \in reaping'
         /\ instance'[j].mu # "closer"
         /\ j \in RegisteredInstances' => ~instance'[j].ended
         /\ j \in closing.left => instance'[j].ended
  <2>1. CASE TRUE
    <3>1. HelperOwned(i)' /\ \A g \in gone : HelperOwned(g)'
      BY <1>5, BridgeAssumption DEF HelperOwned, HelperRuns
    <3>2. ASSUME NEW g \in gone
          PROVE  /\ instance'[g].mu # "reaper" /\ g \notin reaping'
                 /\ instance'[g].mu # "closer" /\ g \notin RegisteredInstances'
                 /\ instance'[g].ended
      BY <1>3, <1>4, BridgeAssumption
    <3> QED BY <1>1, <1>5, <3>1, <3>2
  <2> QED BY <2>1
<1>14. UNCHANGED closing
  OBVIOUS
<1> HIDE DEF is, ds
<1>15. OthersRest(is, ds) /\ OthersKept(is, ds) /\ TheseFit(is, ds) /\ FreedFit(is)
  BY ONLY <1>7, <1>9, <1>12, <1>13 DEF OthersRest, OthersKept, TheseFit, FreedFit
<1>16. BridgeShape' /\ RegistryFits'
  OBVIOUS
<1> QED BY ONLY BridgeInv, <1>6, <1>14, <1>15, <1>16, UnusedStep

LEMMA DialBridgeStep ==
  ASSUME BridgeInv, NEW d \in Dialers, NEW p \in Proxies, DialBridge(d, p) PROVE BridgeInv'
<1>0. dialer[d].at = "rest" /\ UNCHANGED <<reaping, closing>>
  BY DEF DialBridge, DialerAt
<1>1. \A j \in Instances : InstanceFits(j) /\ ~Holds(d, j)
  BY <1>0 DEF BridgeInv, Holds
<1>2. dialer \in [Dialers -> DialerType] /\ "lock" \in DialingPlaces
  BY DEF BridgeInv, BridgeShape, DialingPlaces
<1>3. CASE /\ items[p] # NoInstance /\ dialer' = [dialer EXCEPT ![d] = Dialing(p, items[p])]
           /\ UNCHANGED <<items, instance>>
  <2>1. PICK i \in RegisteredInstances : i = items[p]
    BY <1>3 DEF RegisteredInstances
  <2>2. i \in Instances
    BY <1>3, <2>1 DEF BridgeInv, BridgeShape
  <2>3. /\ dialer' \in [Dialers -> DialerType] /\ dialer'[d].at = "lock" /\ dialer'[d].on = i
        /\ dialer'[d].retired = NoInstance /\ \A e \in Dialers \ {d} : dialer'[e] = dialer[e]
    BY <1>2, <1>3, <2>1, <2>2 DEF Dialing, DialerType
  <2>4. BridgeShape'
    BY <1>0, <1>3, <2>3 DEF BridgeInv, BridgeShape
  <2>5. RegisteredInstances' = RegisteredInstances
    BY <1>3 DEF RegisteredInstances
  <2>6. DialerFits(d)'
    BY <2>2, <2>3, <2>5, BridgeAssumption DEF DialerFits, LeaseKept, DialerAt
  <2>7. HelperOwned(i)'
    BY <1>0, <1>1, <1>3, <2>2, <2>5 DEF InstanceFits, HelperOwned
  <2>8. ASSUME NEW j \in Instances PROVE instance'[j].mu = d <=> Holds(d, j)'
    <3>1. ~Holds(d, j)'
      BY <2>3 DEF Holds
    <3> QED BY <1>1, <1>3, <3>1 DEF InstanceFits, MutexFits
  <2> QED BY <1>0, <1>3, <2>2, <2>3, <2>4, <2>6, <2>7, <2>8, OneInstanceStep
<1>4. FreshInstance \in InstanceType
  <2>1. FALSE \in BOOLEAN
    BY Zenon
  <2> QED BY <2>1 DEF FreshInstance, InstanceType, Helpers, MutexHolders
<1>5. CASE /\ items[p] = NoInstance /\ Cardinality(RegisteredInstances) < MaxRegistered
           /\ CanMake /\ items' = [items EXCEPT ![p] = NewInstance]
           /\ instance' = [instance EXCEPT ![NewInstance] = FreshInstance]
           /\ dialer' = [dialer EXCEPT ![d] = Dialing(p, NewInstance)]
  <2>1. PICK i \in Instances : i = NewInstance
    BY <1>5, NewIsUnused
  <2>2. /\ instance' \in [Instances -> InstanceType] /\ instance'[i] = FreshInstance
        /\ \A j \in Instances \ {i} : instance'[j] = instance[j]
    BY <1>4, <1>5, <2>1, SetInstance DEF BridgeInv
  <2>3. /\ dialer' \in [Dialers -> DialerType] /\ dialer'[d].at = "lock" /\ dialer'[d].on = i
        /\ dialer'[d].retired = NoInstance /\ \A e \in Dialers \ {d} : dialer'[e] = dialer[e]
    BY <1>2, <1>5, <2>1 DEF Dialing, DialerType
  <2>4. items' \in [Proxies -> Instances \cup {NoInstance}]
    BY <1>5, <2>1 DEF BridgeInv, BridgeShape
  <2>5. BridgeShape'
    BY <1>0, <2>2, <2>3, <2>4 DEF BridgeInv, BridgeShape
  <2>6. RegisteredInstances' = (RegisteredInstances \ {}) \cup {i}
    <3>1. items' = [WithoutInstances({}) EXCEPT ![p] = i]
      BY <1>5, <2>1 DEF BridgeInv, BridgeShape, WithoutInstances
    <3> QED BY <1>5, <3>1, RegistryWith DEF BridgeInv
  <2>7. RegistryFits'
    <3>1. IsFiniteSet(RegisteredInstances) /\ i \notin RegisteredInstances
      BY <1>5, <2>1, NewIsUnused DEF BridgeInv, RegistryFits
    <3>2. /\ IsFiniteSet(RegisteredInstances \cup {i})
          /\ Cardinality(RegisteredInstances \cup {i}) = Cardinality(RegisteredInstances) + 1
          /\ Cardinality(RegisteredInstances) \in Nat
      BY <3>1, FS_AddElement, FS_CardinalityType
    <3>3. RegisteredInstances' = RegisteredInstances \cup {i}
      BY <2>6
    <3> QED BY <1>0, <1>5, <3>2, <3>3, BridgeAssumption DEF BridgeInv, RegistryFits
  <2> DEFINE gone == {}
  <2>8. gone \in SUBSET RegisteredInstances /\ gone = {}
    OBVIOUS
  <2> HIDE DEF gone
  <2>9. RegisteredInstances' = (RegisteredInstances \ gone) \cup {i}
    BY <2>6, <2>8
  <2>10. /\ \A g \in gone : IdleNow(g)
         /\ \A g \in gone : instance'[g].mu = d /\ instance'[g].ended
         /\ \A j \in Instances \ (gone \cup {i}) : instance'[j] = instance[j]
    BY <2>2, <2>8
  <2>11. /\ dialer[d].at = "rest" /\ items[p] = NoInstance /\ CanMake
         /\ UNCHANGED <<reaping, closing>>
    BY <1>0, <1>5
  <2> QED BY <2>1, <2>2, <2>3, <2>5, <2>7, <2>8, <2>9, <2>10, <2>11, RegistersNew
<1>6. ASSUME NEW old \in RegisteredInstances, IdleNow(old), items[p] = NoInstance, CanMake,
             Cardinality(RegisteredInstances) = MaxRegistered,
             items' = [WithoutInstances({old}) EXCEPT ![p] = NewInstance],
             instance' = [instance EXCEPT ![NewInstance] = FreshInstance,
                                          ![old].mu = d, ![old].ended = TRUE],
             dialer' = [dialer EXCEPT ![d] = [Dialing(p, NewInstance) EXCEPT !.at = "evict",
                                                                            !.retired = old]]
      PROVE  BridgeInv'
  <2>1. PICK i \in Instances : i = NewInstance /\ i \notin RegisteredInstances
    BY <1>6, NewIsUnused
  <2>2. old \in Instances /\ old # i /\ instance[old] \in InstanceType
    BY <2>1 DEF BridgeInv, BridgeShape, RegisteredInstances
  <2>3. PICK b \in InstanceType : b = [instance[old] EXCEPT !.mu = d, !.ended = TRUE]
    <3>1. TRUE \in BOOLEAN
      BY Zenon
    <3> QED BY <2>2, <3>1 DEF InstanceType, MutexHolders
  <2>4. b.mu = d /\ b.ended
    BY <2>2, <2>3 DEF InstanceType
  <2>5. instance' = [instance EXCEPT ![i] = FreshInstance, ![old] = b]
    BY <1>6, <2>1, <2>2, <2>3 DEF BridgeInv, BridgeShape
  <2>6. /\ instance' \in [Instances -> InstanceType] /\ instance'[i] = FreshInstance
        /\ instance'[old] = b /\ \A j \in Instances \ {i, old} : instance'[j] = instance[j]
    BY <1>4, <2>2, <2>5 DEF BridgeInv, BridgeShape
  <2>7. /\ dialer' \in [Dialers -> DialerType] /\ dialer'[d].at = "evict" /\ dialer'[d].on = i
        /\ dialer'[d].retired = old /\ \A e \in Dialers \ {d} : dialer'[e] = dialer[e]
    BY <1>2, <1>6, <2>1, <2>2 DEF Dialing, DialerType
  <2>8. items' \in [Proxies -> Instances \cup {NoInstance}]
    BY <1>6, <2>1 DEF BridgeInv, BridgeShape, WithoutInstances
  <2>9. BridgeShape'
    BY <1>0, <2>6, <2>7, <2>8 DEF BridgeInv, BridgeShape
  <2>10. RegisteredInstances' = (RegisteredInstances \ {old}) \cup {i}
    BY <1>6, <2>1, RegistryWith DEF BridgeInv
  <2>11. RegistryFits'
    <3>1. IsFiniteSet(RegisteredInstances) /\ Cardinality(RegisteredInstances) \in Nat
      BY FS_CardinalityType DEF BridgeInv, RegistryFits
    <3>2. /\ IsFiniteSet(RegisteredInstances \ {old})
          /\ Cardinality(RegisteredInstances \ {old}) = Cardinality(RegisteredInstances) - 1
      BY <3>1, FS_RemoveElement
    <3>3. i \notin RegisteredInstances \ {old}
      BY <2>1
    <3>4. /\ IsFiniteSet((RegisteredInstances \ {old}) \cup {i})
          /\ Cardinality((RegisteredInstances \ {old}) \cup {i})
               = Cardinality(RegisteredInstances \ {old}) + 1
      BY <3>2, <3>3, FS_AddElement
    <3>5. Cardinality((RegisteredInstances \ {old}) \cup {i}) <= MaxRegistered
      BY <1>6, <3>1, <3>2, <3>4
    <3> QED BY <1>0, <2>10, <3>4, <3>5 DEF BridgeInv, RegistryFits
  <2> DEFINE gone == {old}
  <2>12. /\ gone \in SUBSET RegisteredInstances /\ gone = {dialer'[d].retired}
         /\ \A g \in gone : IdleNow(g) /\ instance'[g].mu = d /\ instance'[g].ended
         /\ \A j \in Instances \ (gone \cup {i}) : instance'[j] = instance[j]
         /\ RegisteredInstances' = (RegisteredInstances \ gone) \cup {i}
    BY <1>6, <2>4, <2>6, <2>7, <2>10
  <2>13. \/ gone = {} /\ dialer'[d].at = "lock" /\ dialer'[d].retired = NoInstance
         \/ gone = {dialer'[d].retired} /\ dialer'[d].at = "evict"
    BY <2>7, <2>12
  <2>14. /\ dialer[d].at = "rest" /\ items[p] = NoInstance /\ CanMake
         /\ UNCHANGED <<reaping, closing>> /\ i \in Instances /\ i = NewInstance
    BY <1>0, <1>6, <2>1
  <2>15. \A g \in gone : IdleNow(g)
    BY <2>12
  <2>16. \A g \in gone : instance'[g].mu = d /\ instance'[g].ended
    BY <2>12
  <2> HIDE DEF gone
  <2> QED BY ONLY BridgeInv, d \in Dialers, p \in Proxies, <2>6, <2>7, <2>9, <2>11, <2>12, <2>13,
                  <2>14, <2>15, <2>16, RegistersNew
<1> QED BY <1>3, <1>5, <1>6 DEF DialBridge

LEMMA BridgeStep == ASSUME BridgeInv, [BridgeNext]_bridgeVars PROVE BridgeInv'
<1>1. ASSUME NEW d \in Dialers, DialerEnds(d) PROVE BridgeInv'
  <2>1. CASE ReuseHelper(d)
    BY <2>1, EnsuredFits DEF ReuseHelper, DialerAt, Helpers
  <2>2. CASE EnsureFails(d)
    <3>1. PICK helper \in Helpers : Ensured(d, helper, "discard")
      <4>1. dialer[d].at = "ensure"
        BY <2>2 DEF EnsureFails, DialerAt
      <4>2. instance[dialer[d].on].helper \in Helpers
        BY <4>1, OnInstance DEF InstanceType
      <4> QED BY <2>2, <4>2 DEF EnsureFails, Helpers
    <3> QED BY <2>2, <3>1, EnsuredFits DEF EnsureFails, DialerAt
  <2>3. CASE HelperReady(d)
    BY <2>3, EnsuredFits DEF HelperReady, DialerAt, Helpers
  <2>4. CASE StartFails(d)
    BY <2>4, EnsuredFits DEF StartFails, DialerAt, Helpers
  <2> QED BY <1>1, <2>1, <2>2, <2>3, <2>4, EvictedStopsStep, LockInstanceStep, LeavesInstance,
             StartHelperStep, DiscardStoppedStep DEF DialerEnds
<1>2. CASE UNCHANGED bridgeVars
  BY <1>2 DEF bridgeVars, BridgeInv, BridgeShape, RegistryFits, RegisteredInstances, DialerFits,
     LeaseKept, DialerAt, Known, InstanceFits, MutexFits, HelperOwned, Holds
<1> QED BY <1>1, <1>2, DialBridgeStep, LeavesInstance, ReapIdleStep, ReapedStopsStep,
           CloseAllStep, CloserStep, HelperExitsStep DEF BridgeNext

LEMMA BridgeSafe == BridgeInv => HelpersOwned
BY DEF BridgeInv, RegistryFits, DialerFits, InstanceFits, HelpersOwned

(* However many dialers share however many helpers, no helper that runs is *)
(* without an owner and no connection loses its own but to CloseAll.       *)
THEOREM HelpersOwnedHolds == BridgeSpec => []HelpersOwned
BY BridgeInitInv, BridgeStep, BridgeSafe, PTL DEF BridgeSpec

-----------------------------------------------------------------------------
(***************************************************************************)
(* Uploads that are not repeated.                                          *)
(***************************************************************************)

ResultType == [file : Nat, share : BOOLEAN, err : {"none", "aborted", "failed"}]
UploaderType == [at : UploadPlaces, key : Owners, id : Owners, cached : Nat, gen : Nat,
                 led : BOOLEAN, result : ResultType]

UploadShape ==
  /\ entries \in [Owners -> Nat] /\ epoch \in Nat
  /\ uploader \in [Uploaders -> UploaderType]
  /\ ownerOf \in Seq(Owners)
  /\ deleted \subseteq (1..Len(ownerOf)) \X Owners

(* File f was uploaded under identity o.                                   *)
FileOf(f, o) == f \in 1..Len(ownerOf) /\ ownerOf[f] = o

(* What an uploader brings is of the account it is on; what it shares is   *)
(* of the identity it looked up, and, as long as nothing was invalidated   *)
(* since it looked, not deleted.  Nobody is given a file before.           *)
ResultFits(w) ==
  w.result.file # 0 =>
    /\ w.at \in {"publish", "woken", "rest"} /\ w.result.err = "none"
    /\ w.result.file \in 1..Len(ownerOf)
    /\ w.at # "woken" => AccountOf[ownerOf[w.result.file]] = AccountOf[w.id]
    /\ w.at # "rest" /\ w.result.share => ownerOf[w.result.file] = w.key
    /\ w.at = "publish" /\ w.result.share /\ w.gen = epoch =>
         <<w.result.file, w.key>> \notin deleted

UploaderFits(u) ==
  LET w == uploader[u] IN
  /\ w.gen <= epoch
  /\ w.at \in {"enter", "waiting", "woken", "validate"} => w.id = w.key
  /\ w.at = "validate" =>
       FileOf(w.cached, w.key) /\ (w.gen = epoch => <<w.cached, w.key>> \notin deleted)
  /\ w.at \in {"validate", "upload", "publish"} => w.led
  /\ w.at = "rest" /\ w.result.err = "aborted" => u \in cut \/ w.led
  /\ ResultFits(w)

EntryFits(o) ==
  entries[o] # 0 => FileOf(entries[o], o) /\ <<entries[o], o>> \notin deleted

CacheFits == IsFiniteSet(KeptEntries) /\ Cardinality(KeptEntries) <= UploadLimit

UploadInv ==
  /\ UploadShape /\ CacheFits
  /\ \A u \in Uploaders : UploaderFits(u)
  /\ \A o \in Owners : EntryFits(o)

(* Files are only added.                                                   *)
Grown ==
  /\ ownerOf' \in Seq(Owners) /\ Len(ownerOf) <= Len(ownerOf')
  /\ \A f \in 1..Len(ownerOf) : ownerOf'[f] = ownerOf[f]

LEMMA NoneGrown == ASSUME UploadInv, UNCHANGED ownerOf PROVE Grown
<1>1. ownerOf \in Seq(Owners) /\ Len(ownerOf) \in Nat
  BY DEF UploadInv, UploadShape
<1> QED BY <1>1 DEF Grown

(* Who does nothing is as well off as before, whatever is uploaded, or     *)
(* deleted in a new epoch.                                                 *)
LEMMA UploaderStays ==
  ASSUME UploadInv, NEW v \in Uploaders, uploader'[v] = uploader[v], Grown, cut \subseteq cut',
         UNCHANGED <<epoch, deleted>> \/ epoch' = epoch + 1
  PROVE  UploaderFits(v)'
<1>1. UploaderFits(v) /\ uploader[v].gen \in Nat /\ epoch \in Nat
  BY DEF UploadInv, UploadShape, UploaderType
<1>2. Len(ownerOf) \in Nat /\ Len(ownerOf') \in Nat
  BY DEF UploadInv, UploadShape, Grown
<1>3. \A f \in 1..Len(ownerOf) : f \in 1..Len(ownerOf')
  BY <1>2 DEF Grown
<1>4. uploader[v].gen <= epoch' /\ (uploader[v].gen = epoch' => UNCHANGED <<epoch, deleted>>)
  BY <1>1 DEF UploaderFits
<1>5. FileOf(uploader[v].cached, uploader[v].key) =>
        FileOf(uploader[v].cached, uploader[v].key)'
  BY <1>3 DEF FileOf, Grown
<1>6. ResultFits(uploader[v])'
  <2>1. ResultFits(uploader[v])
    BY <1>1 DEF UploaderFits
  <2> QED BY <1>3, <1>4, <2>1 DEF ResultFits, Grown
<1>7. /\ uploader'[v].at \in {"enter", "waiting", "woken", "validate"} =>
           uploader'[v].id = uploader'[v].key
      /\ uploader'[v].at \in {"validate", "upload", "publish"} => uploader'[v].led
      /\ uploader'[v].at = "rest" /\ uploader'[v].result.err = "aborted" =>
           v \in cut' \/ uploader'[v].led
  BY <1>1 DEF UploaderFits
<1>8. uploader'[v].at = "validate" =>
        /\ FileOf(uploader[v].cached, uploader[v].key)'
        /\ uploader'[v].gen = epoch' =>
             <<uploader'[v].cached, uploader'[v].key>> \notin deleted'
  BY <1>1, <1>4, <1>5 DEF UploaderFits
<1> QED BY <1>4, <1>6, <1>7, <1>8 DEF UploaderFits

LEMMA EntryStays ==
  ASSUME UploadInv, NEW o \in Owners, entries'[o] \in {0, entries[o]}, Grown,
         UNCHANGED deleted
  PROVE  EntryFits(o)'
<1>1. EntryFits(o) /\ Len(ownerOf) \in Nat /\ Len(ownerOf') \in Nat
  BY DEF UploadInv, UploadShape, Grown
<1> QED BY <1>1 DEF EntryFits, FileOf, Grown

LEMMA CacheShrinks ==
  ASSUME UploadInv, \A o \in Owners : entries'[o] \in {0, entries[o]}
  PROVE  CacheFits'
<1>1. KeptEntries' \subseteq KeptEntries /\ IsFiniteSet(KeptEntries)
  BY DEF KeptEntries, UploadInv, CacheFits
<1>2. /\ IsFiniteSet(KeptEntries') /\ Cardinality(KeptEntries') <= Cardinality(KeptEntries)
      /\ Cardinality(KeptEntries') \in Nat /\ Cardinality(KeptEntries) \in Nat
  BY <1>1, FS_Subset, FS_CardinalityType
<1> QED BY <1>2, UploadAssumption DEF UploadInv, CacheFits

(* A step of one uploader that keeps nothing new.                          *)
LEMMA OneUploaderStep ==
  ASSUME UploadInv, NEW u \in Uploaders, NEW w \in UploaderType,
         uploader' = [uploader EXCEPT ![u] = w], UNCHANGED <<epoch, deleted, cut>>, Grown,
         entries' \in [Owners -> Nat], \A o \in Owners : entries'[o] \in {0, entries[o]},
         UploaderFits(u)'
  PROVE  UploadInv'
<1>1. /\ uploader' \in [Uploaders -> UploaderType]
      /\ \A v \in Uploaders \ {u} : uploader'[v] = uploader[v]
  BY DEF UploadInv, UploadShape
<1>2. deleted' \subseteq (1..Len(ownerOf')) \X Owners
  <2>1. Len(ownerOf) \in Nat /\ Len(ownerOf') \in Nat
    BY DEF UploadInv, UploadShape, Grown
  <2>2. 1..Len(ownerOf) \subseteq 1..Len(ownerOf')
    BY <2>1 DEF Grown
  <2>3. deleted \subseteq (1..Len(ownerOf)) \X Owners
    BY DEF UploadInv, UploadShape
  <2> QED BY <2>2, <2>3
<1>3. UploadShape'
  BY <1>1, <1>2 DEF UploadInv, UploadShape, Grown
<1>4. CacheFits'
  BY CacheShrinks
<1>5. ASSUME NEW v \in Uploaders PROVE UploaderFits(v)'
  BY <1>1, UploaderStays
<1>6. ASSUME NEW o \in Owners PROVE EntryFits(o)'
  BY EntryStays
<1> QED BY <1>3, <1>4, <1>5, <1>6 DEF UploadInv

LEMMA UploadersTyped ==
  ASSUME UploadInv, NEW u \in Uploaders
  PROVE  /\ uploader \in [Uploaders -> UploaderType] /\ uploader[u] \in UploaderType
         /\ uploader[u].key \in Owners /\ uploader[u].id \in Owners
         /\ uploader[u].result \in ResultType /\ UploaderFits(u)
         /\ entries \in [Owners -> Nat] /\ epoch \in Nat
         /\ UNCHANGED ownerOf => Grown
<1>1. uploader \in [Uploaders -> UploaderType] /\ uploader[u] \in UploaderType
  BY DEF UploadInv, UploadShape
<1>2. /\ uploader[u].key \in Owners /\ uploader[u].id \in Owners
      /\ uploader[u].result \in ResultType
  BY <1>1 DEF UploaderType
<1> QED BY <1>1, <1>2, NoneGrown DEF UploadInv, UploadShape

LEMMA NoUploadTyped ==
  /\ NoUpload \in ResultType /\ NoUpload.file = 0 /\ ~NoUpload.share /\ NoUpload.err = "none"
  /\ UploadAborted \in ResultType /\ UploadAborted.file = 0
<1>1. FALSE \in BOOLEAN
  BY Zenon
<1> QED BY <1>1 DEF NoUpload, UploadAborted, ResultType

LEMMA NoNeedTyped ==
  ASSUME NEW o \in Owners
  PROVE  /\ NoNeed(o) \in UploaderType /\ NoNeed(o).at = "rest" /\ NoNeed(o).key = o
         /\ NoNeed(o).id = o /\ NoNeed(o).gen = 0 /\ NoNeed(o).result = NoUpload
<1>1. FALSE \in BOOLEAN
  BY Zenon
<1> QED BY <1>1, NoUploadTyped DEF NoNeed, UploaderType, UploadPlaces

LEMMA Returning ==
  ASSUME UploadInv, NEW u \in Uploaders, NEW got \in ResultType
  PROVE  LET w == UploadReturns(u, got)
         IN  /\ w \in UploaderType /\ w.at = "rest" /\ w.id = uploader[u].id
             /\ w.gen = 0 /\ w.led = uploader[u].led /\ w.result = got
<1>1. uploader[u].id \in Owners /\ uploader[u].led \in BOOLEAN
  BY UploadersTyped DEF UploaderType
<1> DEFINE n == NoNeed(uploader[u].id)
<1>2. n \in UploaderType /\ n.at = "rest" /\ n.id = uploader[u].id /\ n.gen = 0
  BY <1>1, NoNeedTyped
<1> HIDE DEF n
<1>3. UploadReturns(u, got) = [n EXCEPT !.result = got, !.led = uploader[u].led]
  BY DEF UploadReturns, n
<1> QED BY <1>1, <1>2, <1>3 DEF UploaderType

(* Whoever returns without a file, and with its own cancellation if any.   *)
LEMMA ReturnsWithoutFile ==
  ASSUME UploadInv, NEW u \in Uploaders, u \in cut,
         uploader' = [uploader EXCEPT ![u] = UploadReturns(u, UploadAborted)],
         UNCHANGED <<entries, epoch, cut, ownerOf, deleted>>
  PROVE  UploadInv'
<1>1. PICK w \in UploaderType :
        /\ uploader' = [uploader EXCEPT ![u] = w] /\ w.at = "rest" /\ w.gen = 0
        /\ w.result = UploadAborted
  BY Returning, NoUploadTyped
<1>2. uploader'[u] = w /\ epoch \in Nat /\ entries \in [Owners -> Nat] /\ Grown
  BY <1>1, UploadersTyped
<1>3. UploaderFits(u)'
  BY <1>1, <1>2, NoUploadTyped DEF UploaderFits, ResultFits
<1> QED BY <1>1, <1>2, <1>3, OneUploaderStep

LEMMA NeedFileStep == ASSUME UploadInv, NEW u \in Uploaders, NeedFile(u) PROVE UploadInv'
<1>1. PICK o \in Owners :
        uploader' = [uploader EXCEPT ![u] = [NoNeed(o) EXCEPT !.at = "enter"]]
  BY DEF NeedFile
<1>2. PICK w \in UploaderType :
        /\ uploader' = [uploader EXCEPT ![u] = w] /\ w.at = "enter" /\ w.id = w.key
        /\ w.gen = 0 /\ w.result = NoUpload
  <2> DEFINE n == NoNeed(o)
  <2>1. n \in UploaderType /\ n.id = n.key /\ n.gen = 0 /\ n.result = NoUpload
    BY NoNeedTyped
  <2>2. uploader' = [uploader EXCEPT ![u] = [n EXCEPT !.at = "enter"]]
    BY <1>1
  <2> HIDE DEF n
  <2> DEFINE w == [n EXCEPT !.at = "enter"]
  <2>3. /\ w \in UploaderType /\ w.at = "enter" /\ w.id = w.key
        /\ w.gen = 0 /\ w.result = NoUpload
    BY <2>1 DEF UploaderType, UploadPlaces
  <2> QED BY <2>2, <2>3
<1>3. /\ uploader'[u] = w /\ epoch \in Nat /\ entries \in [Owners -> Nat] /\ Grown
      /\ UNCHANGED <<entries, epoch, cut, deleted>>
  BY <1>2, UploadersTyped DEF NeedFile
<1>4. UploaderFits(u)'
  BY <1>2, <1>3, NoUploadTyped DEF UploaderFits, ResultFits
<1> QED BY <1>2, <1>3, <1>4, OneUploaderStep

LEMMA UploadTurnStep == ASSUME UploadInv, NEW u \in Uploaders, UploadTurn(u) PROVE UploadInv'
<1> DEFINE k == uploader[u].key
<1>1. /\ uploader[u] \in UploaderType /\ k \in Owners /\ epoch \in Nat
      /\ entries \in [Owners -> Nat] /\ Grown /\ uploader[u].at = "enter"
      /\ UNCHANGED <<entries, epoch, cut, ownerOf, deleted>>
  BY UploadersTyped DEF UploadTurn, UpAt
<1>2. /\ uploader[u].gen <= epoch /\ uploader[u].id = k /\ uploader[u].result.file = 0
      /\ EntryFits(k)
  <2>1. UploaderFits(u) /\ EntryFits(k)
    BY <1>1, UploadersTyped DEF UploadInv
  <2> QED BY <1>1, <2>1 DEF UploaderFits, ResultFits
<1>3. CASE u \in cut /\ uploader' = [uploader EXCEPT ![u] = UploadReturns(u, UploadAborted)]
  BY <1>1, <1>3, ReturnsWithoutFile
<1>4. CASE uploader' = [uploader EXCEPT ![u].at = "waiting", ![u].led = FALSE]
  <2>1. PICK w \in UploaderType :
          /\ uploader' = [uploader EXCEPT ![u] = w] /\ w.at = "waiting"
          /\ w.key = k /\ w.id = k /\ w.gen = uploader[u].gen /\ w.result = uploader[u].result
    <3> DEFINE n == [uploader[u] EXCEPT !.at = "waiting", !.led = FALSE]
    <3>1. FALSE \in BOOLEAN
      BY Zenon
    <3>2. /\ n \in UploaderType /\ n.at = "waiting" /\ n.key = k /\ n.id = k
          /\ n.gen = uploader[u].gen /\ n.result = uploader[u].result
      BY <1>1, <1>2, <3>1 DEF UploaderType, UploadPlaces
    <3>3. uploader' = [uploader EXCEPT ![u] = n]
      BY <1>4, UploadersTyped
    <3> QED BY <3>2, <3>3
  <2>2. uploader'[u] = w
    BY <2>1, UploadersTyped
  <2>3. UploaderFits(u)'
    BY <1>1, <1>2, <2>1, <2>2 DEF UploaderFits, ResultFits
  <2> QED BY <1>1, <2>1, <2>3, OneUploaderStep
<1>5. CASE uploader' = [uploader EXCEPT
             ![u].at = IF entries[k] # 0 THEN "validate" ELSE "upload",
             ![u].led = TRUE, ![u].cached = entries[k], ![u].gen = epoch]
  <2>1. PICK w \in UploaderType :
          /\ uploader' = [uploader EXCEPT ![u] = w]
          /\ w.at = (IF entries[k] # 0 THEN "validate" ELSE "upload")
          /\ w.key = k /\ w.id = k /\ w.gen = epoch /\ w.result = uploader[u].result
          /\ w.led /\ w.cached = entries[k]
    <3> DEFINE place == IF entries[k] # 0 THEN "validate" ELSE "upload"
    <3>1. place \in UploadPlaces
      BY DEF UploadPlaces
    <3> HIDE DEF place
    <3> DEFINE n == [uploader[u] EXCEPT !.at = place, !.led = TRUE,
                                        !.cached = entries[k], !.gen = epoch]
    <3>2. TRUE \in BOOLEAN
      BY Zenon
    <3>3. /\ n \in UploaderType /\ n.at = place /\ n.key = k /\ n.id = k
          /\ n.gen = epoch /\ n.result = uploader[u].result
          /\ n.led /\ n.cached = entries[k]
      BY <1>1, <1>2, <3>1, <3>2 DEF UploaderType
    <3>4. uploader' = [uploader EXCEPT ![u] = n]
      BY <1>5, UploadersTyped DEF place
    <3> QED BY <3>3, <3>4 DEF place
  <2>2. uploader'[u] = w
    BY <2>1, UploadersTyped
  <2>3. w.at = "validate" =>
          /\ FileOf(w.cached, w.key)'
          /\ <<w.cached, w.key>> \notin deleted'
    BY <1>1, <1>2, <2>1 DEF EntryFits, FileOf
  <2>4. UploaderFits(u)'
    BY <1>1, <1>2, <2>1, <2>2, <2>3 DEF UploaderFits, ResultFits
  <2> QED BY <1>1, <2>1, <2>4, OneUploaderStep
<1> QED BY <1>3, <1>4, <1>5 DEF UploadTurn
LEMMA UploadWokenStep == ASSUME UploadInv, NEW u \in Uploaders, UploadWoken(u) PROVE UploadInv'
<1>1. /\ uploader \in [Uploaders -> UploaderType] /\ uploader[u] \in UploaderType
      /\ uploader[u].result \in ResultType /\ epoch \in Nat /\ entries \in [Owners -> Nat]
      /\ Grown /\ uploader[u].at = "woken" /\ uploader[u].id = uploader[u].key
      /\ UNCHANGED <<entries, epoch, cut, ownerOf, deleted>> /\ UploaderFits(u)
  BY UploadersTyped DEF UploadWoken, UpAt, UploaderFits
<1>2. CASE TriesAgain(uploader[u].result)
  <2> DEFINE w == [uploader[u] EXCEPT !.at = "enter", !.result = NoUpload]
  <2>1. /\ w \in UploaderType /\ w.at = "enter" /\ w.id = w.key
        /\ w.gen = uploader[u].gen /\ w.result = NoUpload
    BY <1>1, NoUploadTyped DEF UploaderType, UploadPlaces
  <2>2. uploader' = [uploader EXCEPT ![u] = w]
    BY <1>1, <1>2 DEF UploadWoken
  <2>3. uploader'[u] = w
    BY <1>1, <2>2
  <2> HIDE DEF w
  <2>4. UploaderFits(u)'
    BY <1>1, <2>1, <2>3, NoUploadTyped DEF UploaderFits, ResultFits
  <2> QED BY <1>1, <2>1, <2>2, <2>4, OneUploaderStep
<1>3. CASE ~TriesAgain(uploader[u].result)
  <2>1. PICK w \in UploaderType :
          /\ uploader' = [uploader EXCEPT ![u] = w]
          /\ w.at = "rest" /\ w.id = uploader[u].id /\ w.gen = 0
          /\ w.result = uploader[u].result
    <3>1. uploader' = [uploader EXCEPT ![u] = UploadReturns(u, uploader[u].result)]
      BY <1>1, <1>3 DEF UploadWoken
    <3> QED BY <1>1, <3>1, Returning
  <2>2. /\ uploader'[u] = w /\ w.result.err # "aborted"
        /\ w.result.err = "none" => w.result.share
    BY <1>1, <1>3, <2>1 DEF TriesAgain
  <2>3. ResultFits(w)'
    BY <1>1, <2>1, <2>2 DEF UploaderFits, ResultFits
  <2>4. UploaderFits(u)'
    BY <1>1, <2>1, <2>2, <2>3 DEF UploaderFits
  <2> QED BY <1>1, <2>1, <2>4, OneUploaderStep
<1> QED BY <1>2, <1>3

LEMMA WaitGivenUpStep == ASSUME UploadInv, NEW u \in Uploaders, WaitGivenUp(u) PROVE UploadInv'
BY ReturnsWithoutFile DEF WaitGivenUp

(* An uploader comes to publish what it has.                               *)
LEMMA ComesToPublish ==
  ASSUME UploadInv, NEW u \in Uploaders, uploader[u].led, NEW id \in Owners,
         NEW got \in ResultType,
         uploader' = [uploader EXCEPT ![u].at = "publish", ![u].id = id, ![u].result = got],
         Grown, UNCHANGED <<entries, epoch, cut, deleted>>,
         got.file # 0 =>
           /\ got.err = "none" /\ got.file \in 1..Len(ownerOf')
           /\ AccountOf[ownerOf'[got.file]] = AccountOf[id]
           /\ got.share => ownerOf'[got.file] = uploader[u].key
           /\ got.share /\ uploader[u].gen = epoch =>
                <<got.file, uploader[u].key>> \notin deleted
  PROVE  UploadInv'
<1>1. /\ uploader \in [Uploaders -> UploaderType] /\ uploader[u] \in UploaderType
      /\ entries \in [Owners -> Nat] /\ uploader[u].gen <= epoch
  BY UploadersTyped DEF UploaderFits
<1>2. PICK w \in UploaderType :
        /\ w = [uploader[u] EXCEPT !.at = "publish", !.id = id, !.result = got]
        /\ w.at = "publish" /\ w.id = id /\ w.key = uploader[u].key
        /\ w.gen = uploader[u].gen /\ w.result = got /\ w.led = uploader[u].led
  <2> DEFINE n == [uploader[u] EXCEPT !.at = "publish", !.id = id, !.result = got]
  <2>1. /\ n \in UploaderType /\ n.at = "publish" /\ n.id = id /\ n.key = uploader[u].key
        /\ n.gen = uploader[u].gen /\ n.result = got /\ n.led = uploader[u].led
    BY <1>1 DEF UploaderType, UploadPlaces
  <2> QED BY <2>1
<1>3. uploader' = [uploader EXCEPT ![u] = w]
  BY <1>1, <1>2
<1>4. uploader'[u] = w
  BY <1>1, <1>3
<1>5. ResultFits(w)'
  BY <1>2 DEF ResultFits
<1>6. UploaderFits(u)'
  BY <1>1, <1>2, <1>4, <1>5 DEF UploaderFits
<1> QED BY <1>1, <1>2, <1>3, <1>6, OneUploaderStep

LEMMA FailureTyped ==
  ASSUME NEW err \in Failures, NEW shared \in BOOLEAN
  PROVE  LET got == [NoUpload EXCEPT !.err = err, !.share = shared]
         IN  got \in ResultType /\ got.file = 0
BY NoUploadTyped DEF ResultType, Failures

LEMMA FileTyped ==
  ASSUME NEW f \in Nat, NEW shared \in BOOLEAN
  PROVE  LET got == [file |-> f, share |-> shared, err |-> "none"]
         IN  got \in ResultType /\ got.file = f /\ got.share = shared /\ got.err = "none"
BY DEF ResultType

LEMMA CachedTyped ==
  ASSUME NEW f \in Nat, NEW shared \in BOOLEAN
  PROVE  LET got == [NoUpload EXCEPT !.file = f, !.share = shared]
         IN  got \in ResultType /\ got.file = f /\ got.share = shared /\ got.err = "none"
BY NoUploadTyped DEF ResultType

LEMMA ValidateUploadStep ==
  ASSUME UploadInv, NEW u \in Uploaders, ValidateUpload(u) PROVE UploadInv'
<1> DEFINE k == uploader[u].key
           f == uploader[u].cached
<1>1. /\ uploader \in [Uploaders -> UploaderType] /\ uploader[u] \in UploaderType
      /\ k \in Owners /\ f \in Nat /\ uploader[u].at = "validate" /\ uploader[u].led
      /\ uploader[u].id = k /\ epoch \in Nat /\ entries \in [Owners -> Nat] /\ Grown
      /\ UploaderFits(u) /\ UNCHANGED <<epoch, cut, ownerOf, deleted>>
  BY UploadersTyped DEF ValidateUpload, UpAt, UploaderFits, UploaderType
<1>2. /\ f \in 1..Len(ownerOf) /\ ownerOf[f] = k /\ f # 0
      /\ uploader[u].gen = epoch => <<f, k>> \notin deleted
      /\ uploader[u].gen <= epoch /\ uploader[u].result.file = 0
  BY <1>1 DEF UploaderFits, ResultFits, FileOf
<1>3. PICK id \in Siblings(k) :
     \/ /\ uploader' = [uploader EXCEPT ![u].at = "publish", ![u].id = id,
                            ![u].result = [NoUpload EXCEPT !.file = f,
                                                           !.share = SameIdentity(u, id)]]
        /\ UNCHANGED entries
     \/ /\ entries' = [entries EXCEPT ![k] = 0]
        /\ uploader' = [uploader EXCEPT ![u].at = "upload", ![u].id = id]
     \/ /\ \E err \in Failures :
             uploader' = [uploader EXCEPT ![u].at = "publish", ![u].id = id,
                                          ![u].result = [NoUpload EXCEPT !.err = err]]
        /\ UNCHANGED entries
  BY <1>1 DEF ValidateUpload
<1>4. id \in Owners /\ AccountOf[id] = AccountOf[k]
  BY DEF Siblings
<1>5. CASE /\ uploader' = [uploader EXCEPT ![u].at = "publish", ![u].id = id,
                            ![u].result = [NoUpload EXCEPT !.file = f,
                                                           !.share = SameIdentity(u, id)]]
           /\ UNCHANGED entries
  <2>1. PICK shared \in BOOLEAN : shared = SameIdentity(u, id)
    BY DEF SameIdentity
  <2>2. PICK got \in ResultType :
          /\ got = [NoUpload EXCEPT !.file = f, !.share = shared]
          /\ got.file = f /\ got.share = shared /\ got.err = "none"
    <3> DEFINE g == [NoUpload EXCEPT !.file = f, !.share = shared]
    <3>0. f \in Nat
      BY <1>1
    <3>1. g \in ResultType /\ g.file = f /\ g.share = shared /\ g.err = "none"
      BY ONLY <3>0, shared \in BOOLEAN, CachedTyped
    <3> QED BY <3>1
  <2>3. got = [NoUpload EXCEPT !.file = f, !.share = SameIdentity(u, id)]
    BY <2>1, <2>2
  <2>4. uploader' = [uploader EXCEPT ![u].at = "publish", ![u].id = id, ![u].result = got]
    BY <1>5, <2>3
  <2>5. /\ got.file \in 1..Len(ownerOf') /\ ownerOf'[got.file] = k
        /\ AccountOf[ownerOf'[got.file]] = AccountOf[id]
        /\ uploader[u].gen = epoch => <<got.file, uploader[u].key>> \notin deleted
    BY <1>1, <1>2, <1>4, <2>2
  <2>6. uploader[u].led /\ Grown /\ UNCHANGED <<entries, epoch, cut, deleted>>
    BY <1>1, <1>5
  <2> QED BY ONLY UploadInv, u \in Uploaders, got \in ResultType, <1>4, <2>2, <2>4, <2>5, <2>6,
                  ComesToPublish
<1>6. CASE /\ entries' = [entries EXCEPT ![k] = 0]
           /\ uploader' = [uploader EXCEPT ![u].at = "upload", ![u].id = id]
  <2> DEFINE w == [uploader[u] EXCEPT !.at = "upload", !.id = id]
  <2>1. /\ w \in UploaderType /\ w.at = "upload" /\ w.gen = uploader[u].gen
        /\ w.result = uploader[u].result /\ w.led = uploader[u].led
    BY <1>1, <1>4 DEF UploaderType, UploadPlaces
  <2>2. uploader' = [uploader EXCEPT ![u] = w]
    BY <1>1, <1>6
  <2> HIDE DEF w
  <2>3. uploader'[u] = w
    BY <1>1, <2>2
  <2>4. UploaderFits(u)'
    BY <1>1, <1>2, <2>1, <2>3 DEF UploaderFits, ResultFits
  <2>5. entries' \in [Owners -> Nat] /\ \A o \in Owners : entries'[o] \in {0, entries[o]}
    BY <1>1, <1>6
  <2> QED BY <1>1, <2>1, <2>2, <2>4, <2>5, OneUploaderStep
<1>7. CASE /\ \E err \in Failures :
                uploader' = [uploader EXCEPT ![u].at = "publish", ![u].id = id,
                                             ![u].result = [NoUpload EXCEPT !.err = err]]
           /\ UNCHANGED entries
  <2>1. PICK err \in Failures :
          uploader' = [uploader EXCEPT ![u].at = "publish", ![u].id = id,
                                       ![u].result = [NoUpload EXCEPT !.err = err]]
    BY <1>7
  <2> DEFINE got == [NoUpload EXCEPT !.err = err]
  <2>2. got \in ResultType /\ got.file = 0
    BY NoUploadTyped DEF ResultType, Failures
  <2>3. uploader' = [uploader EXCEPT ![u].at = "publish", ![u].id = id, ![u].result = got]
    BY <2>1
  <2> HIDE DEF got
  <2> QED BY <1>1, <1>4, <1>7, <2>2, <2>3, ComesToPublish
<1> QED BY <1>3, <1>5, <1>6, <1>7

LEMMA UploadFileStep == ASSUME UploadInv, NEW u \in Uploaders, UploadFile(u) PROVE UploadInv'
<1> DEFINE k == uploader[u].key
<1>0. /\ uploader[u].led /\ k \in Owners /\ UNCHANGED <<entries, leaders, epoch, cut, deleted>>
  BY UploadersTyped DEF UploadFile, UpAt, UploaderFits
<1>1. /\ ownerOf \in Seq(Owners) /\ Len(ownerOf) \in Nat
      /\ deleted \subseteq (1..Len(ownerOf)) \X Owners
  BY DEF UploadInv, UploadShape
<1>2. PICK id \in Owners :
     \/ /\ ownerOf' = Append(ownerOf, id)
        /\ uploader' = [uploader EXCEPT ![u].at = "publish", ![u].id = id,
                            ![u].result = [file |-> Len(ownerOf) + 1,
                                           share |-> SameIdentity(u, id), err |-> "none"]]
     \/ /\ \E err \in Failures :
             uploader' = [uploader EXCEPT ![u].at = "publish", ![u].id = id,
                              ![u].result = [NoUpload EXCEPT !.err = err,
                                               !.share = SameIdentity(u, id)]]
        /\ UNCHANGED ownerOf
  BY DEF UploadFile
<1>3. PICK shared \in BOOLEAN : shared = SameIdentity(u, id)
  BY DEF SameIdentity
<1>4. CASE /\ ownerOf' = Append(ownerOf, id)
           /\ uploader' = [uploader EXCEPT ![u].at = "publish", ![u].id = id,
                               ![u].result = [file |-> Len(ownerOf) + 1,
                                              share |-> SameIdentity(u, id), err |-> "none"]]
  <2>1. /\ Grown /\ Len(ownerOf') = Len(ownerOf) + 1
        /\ ownerOf'[Len(ownerOf) + 1] = id
    BY <1>1, <1>4 DEF Grown
  <2>2. PICK got \in ResultType :
          /\ got = [file |-> Len(ownerOf) + 1, share |-> shared, err |-> "none"]
          /\ got.file = Len(ownerOf) + 1 /\ got.share = shared /\ got.err = "none"
    <3>1. Len(ownerOf) + 1 \in Nat
      BY <1>1
    <3> QED BY <3>1, FileTyped
  <2>3. uploader' = [uploader EXCEPT ![u].at = "publish", ![u].id = id, ![u].result = got]
    BY <1>3, <1>4, <2>2
  <2>4. /\ got.file \in 1..Len(ownerOf') /\ <<got.file, k>> \notin deleted
        /\ ownerOf'[got.file] = id
    BY <1>1, <2>1, <2>2
  <2>5. got.share => id = k
    BY <1>3, <2>2 DEF SameIdentity
  <2> QED BY <1>0, <2>1, <2>2, <2>3, <2>4, <2>5, ComesToPublish
<1>5. CASE /\ \E err \in Failures :
                uploader' = [uploader EXCEPT ![u].at = "publish", ![u].id = id,
                                 ![u].result = [NoUpload EXCEPT !.err = err,
                                                  !.share = SameIdentity(u, id)]]
           /\ UNCHANGED ownerOf
  <2>1. PICK err \in Failures :
          uploader' = [uploader EXCEPT ![u].at = "publish", ![u].id = id,
                           ![u].result = [NoUpload EXCEPT !.err = err, !.share = shared]]
    BY <1>3, <1>5
  <2> DEFINE got == [NoUpload EXCEPT !.err = err, !.share = shared]
  <2>2. got \in ResultType /\ got.file = 0
    BY FailureTyped
  <2>3. uploader' = [uploader EXCEPT ![u].at = "publish", ![u].id = id, ![u].result = got]
    BY <2>1
  <2>4. Grown
    BY <1>5, NoneGrown
  <2> HIDE DEF got
  <2> QED BY <1>0, <2>2, <2>3, <2>4, ComesToPublish
<1> QED BY <1>2, <1>4, <1>5
(* What is published is shared in the epoch it was looked up in only.      *)
LEMMA UploadPublishedStep ==
  ASSUME UploadInv, NEW u \in Uploaders, UploadPublished(u) PROVE UploadInv'
<1> DEFINE k == uploader[u].key
<1>1. /\ uploader \in [Uploaders -> UploaderType] /\ uploader[u] \in UploaderType
      /\ uploader[u].result \in ResultType /\ k \in Owners /\ uploader[u].at = "publish"
      /\ uploader[u].led /\ epoch \in Nat /\ entries \in [Owners -> Nat] /\ Grown
      /\ UNCHANGED <<epoch, cut, ownerOf, deleted>> /\ ResultFits(uploader[u])
  BY UploadersTyped DEF UploadPublished, UpAt, UploaderFits
<1>2. PICK got \in ResultType :
        /\ got = [uploader[u].result EXCEPT !.share = SharedResult(u)]
        /\ got.file = uploader[u].result.file /\ got.err = uploader[u].result.err
        /\ got.share => uploader[u].result.share /\ uploader[u].gen = epoch
  <2>1. PICK shared \in BOOLEAN : shared = SharedResult(u)
    BY DEF SharedResult
  <2> DEFINE g == [uploader[u].result EXCEPT !.share = shared]
  <2>2. /\ g \in ResultType /\ g.file = uploader[u].result.file
        /\ g.err = uploader[u].result.err /\ g.share = shared
    BY <1>1 DEF ResultType
  <2>3. g.share => uploader[u].result.share /\ uploader[u].gen = epoch
    BY <2>1, <2>2 DEF SharedResult
  <2>4. g = [uploader[u].result EXCEPT !.share = SharedResult(u)]
    BY <2>1
  <2> QED BY <2>2, <2>3, <2>4
<1>3. /\ \/ /\ got.err = "none" /\ got.share
            /\ \/ entries' = [entries EXCEPT ![k] = got.file]
               \/ \E o \in KeptEntries : entries' = [entries EXCEPT ![k] = got.file, ![o] = 0]
            /\ Cardinality({o \in Owners : entries'[o] # 0}) <= UploadLimit
         \/ UNCHANGED entries
      /\ uploader' = [v \in Uploaders |->
           IF v = u THEN UploadReturns(u, got)
           ELSE IF UpAt(v, "waiting") /\ uploader[v].key = k
                THEN [uploader[v] EXCEPT !.at = "woken", !.result = got]
           ELSE uploader[v]]
  BY <1>2 DEF UploadPublished
<1>4. got.file # 0 =>
        /\ got.err = "none" /\ got.file \in 1..Len(ownerOf)
        /\ AccountOf[ownerOf[got.file]] = AccountOf[uploader[u].id]
        /\ got.share => ownerOf[got.file] = k /\ <<got.file, k>> \notin deleted
  BY <1>1, <1>2 DEF ResultFits
<1>5. uploader'[u] \in UploaderType /\ UploaderFits(u)'
  <2>1. PICK w \in UploaderType :
          /\ uploader'[u] = w /\ w.at = "rest" /\ w.id = uploader[u].id /\ w.gen = 0
          /\ w.led /\ w.result = got
    BY <1>1, <1>3, Returning
  <2>2. ResultFits(w)'
    BY <1>1, <1>4, <2>1 DEF ResultFits
  <2> QED BY <1>1, <2>1, <2>2 DEF UploaderFits
<1>6. ASSUME NEW v \in Uploaders \ {u} PROVE uploader'[v] \in UploaderType /\ UploaderFits(v)'
  <2>1. CASE UpAt(v, "waiting") /\ uploader[v].key = k
    <3>1. /\ uploader[v] \in UploaderType /\ uploader[v].gen <= epoch
          /\ uploader[v].id = uploader[v].key
      BY <2>1, UploadersTyped DEF UploaderFits, UpAt
    <3>2. PICK w \in UploaderType :
            /\ w = [uploader[v] EXCEPT !.at = "woken", !.result = got]
            /\ w.at = "woken" /\ w.key = k /\ w.id = k /\ w.gen <= epoch /\ w.result = got
      <4> DEFINE n == [uploader[v] EXCEPT !.at = "woken", !.result = got]
      <4>1. /\ n \in UploaderType /\ n.at = "woken" /\ n.key = k /\ n.id = k
            /\ n.gen <= epoch /\ n.result = got
        BY <2>1, <3>1 DEF UploaderType, UploadPlaces
      <4> QED BY <4>1
    <3>3. uploader'[v] = w
      BY <1>3, <2>1, <3>2
    <3>4. ResultFits(w)'
      BY <1>1, <1>4, <3>2 DEF ResultFits
    <3> QED BY <1>1, <3>2, <3>3, <3>4 DEF UploaderFits
  <2>2. CASE ~(UpAt(v, "waiting") /\ uploader[v].key = k)
    <3>1. uploader'[v] = uploader[v]
      BY <1>3, <2>2
    <3> QED BY <1>1, <3>1, UploaderStays
  <2> QED BY <2>1, <2>2
<1>7. /\ entries' \in [Owners -> Nat]
      /\ \A o \in Owners : \/ entries'[o] \in {0, entries[o]}
                           \/ o = k /\ entries'[o] = got.file /\ got.share
  <2>1. got.file \in Nat
    BY DEF ResultType
  <2>2. CASE entries' = [entries EXCEPT ![k] = got.file] /\ got.share
    BY <1>1, <2>1, <2>2
  <2>3. CASE /\ \E o \in KeptEntries : entries' = [entries EXCEPT ![k] = got.file, ![o] = 0]
             /\ got.share
    <3>1. PICK o \in Owners : entries' = [entries EXCEPT ![k] = got.file, ![o] = 0]
      BY <2>3 DEF KeptEntries
    <3> QED BY <1>1, <2>1, <2>3, <3>1
  <2>4. CASE UNCHANGED entries
    BY <1>1, <2>4
  <2> QED BY <1>3, <2>2, <2>3, <2>4
<1>8. ASSUME NEW o \in Owners PROVE EntryFits(o)'
  <2>1. CASE entries'[o] \in {0, entries[o]}
    BY <1>1, <2>1, EntryStays
  <2>2. CASE o = k /\ entries'[o] = got.file /\ got.share
    BY <1>1, <1>4, <2>2 DEF EntryFits, FileOf
  <2> QED BY <1>7, <2>1, <2>2
<1>9. CacheFits'
  <2>1. CASE UNCHANGED entries
    BY <2>1, CacheShrinks
  <2>2. CASE Cardinality({o \in Owners : entries'[o] # 0}) <= UploadLimit
    <3>1. IsFiniteSet(KeptEntries) /\ KeptEntries' \subseteq KeptEntries \cup {k}
      BY <1>7 DEF UploadInv, CacheFits, KeptEntries
    <3>2. IsFiniteSet(KeptEntries')
      BY <3>1, FS_AddElement, FS_Subset
    <3> QED BY <2>2, <3>2 DEF CacheFits, KeptEntries
  <2> QED BY <1>3, <2>1, <2>2
<1>10. UploadShape'
  <2>1. uploader' \in [Uploaders -> UploaderType]
    <3>1. \A v \in Uploaders : uploader'[v] \in UploaderType
      BY <1>5, <1>6
    <3>2. uploader' = [v \in Uploaders |-> uploader'[v]]
      BY <1>3
    <3> QED BY <3>1, <3>2
  <2> QED BY <1>1, <1>7, <2>1 DEF UploadInv, UploadShape
<1> QED BY <1>5, <1>6, <1>8, <1>9, <1>10 DEF UploadInv

(* Only what was kept under other identities survives, in a new epoch.     *)
LEMMA InvalidateOwnerStep ==
  ASSUME UploadInv, NEW o \in Owners, InvalidateOwner(o) PROVE UploadInv'
<1>1. /\ UploadShape /\ epoch' = epoch + 1 /\ entries' = [entries EXCEPT ![o] = 0]
      /\ UNCHANGED <<uploader, cut, ownerOf>>
  BY DEF InvalidateOwner, UploadInv
<1>2. ownerOf \in Seq(Owners) /\ DOMAIN ownerOf = 1..Len(ownerOf) /\ Grown
  BY <1>1, NoneGrown DEF UploadShape
<1>3. /\ deleted \subseteq deleted'
      /\ \A pair \in deleted' \ deleted : pair \in (1..Len(ownerOf)) \X {o}
  <2>1. deleted' = deleted \cup
          {<<f, o>> : f \in {g \in 1..Len(ownerOf) : AccountOf[ownerOf[g]] = AccountOf[o]}}
    BY <1>2 DEF InvalidateOwner
  <2> QED BY <2>1
<1>4. entries' \in [Owners -> Nat] /\ \A p \in Owners : entries'[p] \in {0, entries[p]}
  BY <1>1 DEF UploadShape
<1>5. UploadShape'
  <2>1. deleted' \subseteq (1..Len(ownerOf)) \X Owners
    BY <1>1, <1>3 DEF UploadShape
  <2> QED BY <1>1, <1>4, <2>1 DEF UploadShape
<1>6. CacheFits'
  BY <1>4, CacheShrinks
<1>7. ASSUME NEW v \in Uploaders PROVE UploaderFits(v)'
  BY <1>1, <1>2, UploaderStays
<1>8. ASSUME NEW p \in Owners PROVE EntryFits(p)'
  <2>1. CASE p = o
    BY <1>1, <2>1 DEF EntryFits, UploadShape
  <2>2. CASE p # o
    <3>1. entries'[p] = entries[p] /\ EntryFits(p)
      BY <1>1, <2>2 DEF UploadInv, UploadShape
    <3>2. <<entries[p], p>> \in deleted' => <<entries[p], p>> \in deleted
      BY <1>3, <2>2
    <3> QED BY <1>1, <3>1, <3>2 DEF EntryFits, FileOf
  <2> QED BY <2>1, <2>2
<1> QED BY <1>5, <1>6, <1>7, <1>8 DEF UploadInv

LEMMA EntryExpiresStep == ASSUME UploadInv, EntryExpires PROVE UploadInv'
<1>1. /\ UploadShape /\ UNCHANGED <<epoch, uploader, cut, ownerOf, deleted>> /\ Grown
  BY NoneGrown DEF EntryExpires, UploadInv
<1>2. entries' \in [Owners -> Nat] /\ \A p \in Owners : entries'[p] \in {0, entries[p]}
  <2>1. PICK o \in Owners : entries' = [entries EXCEPT ![o] = 0]
    BY DEF EntryExpires, KeptEntries
  <2> QED BY <1>1, <2>1 DEF UploadShape
<1>3. CacheFits' /\ \A v \in Uploaders : UploaderFits(v)'
  BY <1>1, <1>2, CacheShrinks, UploaderStays
<1>4. \A p \in Owners : EntryFits(p)'
  BY <1>1, <1>2, EntryStays
<1> QED BY <1>1, <1>2, <1>3, <1>4 DEF UploadInv, UploadShape

LEMMA UploadContextEndsStep ==
  ASSUME UploadInv, NEW u \in Uploaders, UploadContextEnds(u) PROVE UploadInv'
<1>1. /\ UploadShape /\ UNCHANGED <<entries, epoch, uploader, ownerOf, deleted>> /\ Grown
      /\ cut \subseteq cut'
  BY NoneGrown DEF UploadContextEnds, UploadInv
<1>2. CacheFits' /\ \A v \in Uploaders : UploaderFits(v)'
  BY <1>1, CacheShrinks, UploaderStays
<1>3. \A p \in Owners : EntryFits(p)'
  BY <1>1, EntryStays
<1> QED BY <1>1, <1>2, <1>3 DEF UploadInv, UploadShape

LEMMA UploadStep == ASSUME UploadInv, [UploadNext]_uploadVars PROVE UploadInv'
<1>1. CASE UNCHANGED uploadVars
  <2>1. /\ UploadShape /\ UNCHANGED <<entries, epoch, uploader, cut, ownerOf, deleted>> /\ Grown
    BY <1>1, NoneGrown DEF uploadVars, UploadInv
  <2>2. CacheFits' /\ \A v \in Uploaders : UploaderFits(v)'
    BY <2>1, CacheShrinks, UploaderStays
  <2>3. \A p \in Owners : EntryFits(p)'
    BY <2>1, EntryStays
  <2> QED BY <2>1, <2>2, <2>3 DEF UploadInv, UploadShape
<1> QED BY <1>1, NeedFileStep, UploadTurnStep, UploadWokenStep, WaitGivenUpStep,
           ValidateUploadStep, UploadFileStep, UploadPublishedStep, InvalidateOwnerStep,
           EntryExpiresStep, UploadContextEndsStep DEF UploadNext, UploadSteps

LEMMA UploadInitInv ==
  ASSUME UploadInit PROVE UploadInv
<1> DEFINE o == CHOOSE p \in Owners : TRUE
<1>1. o \in Owners
  BY UploadAssumption
<1>2. /\ NoNeed(o) \in UploaderType /\ NoNeed(o).at = "rest" /\ NoNeed(o).gen = 0
      /\ NoNeed(o).result = NoUpload
  BY <1>1, NoNeedTyped
<1>3. ASSUME NEW u \in Uploaders PROVE uploader[u] = NoNeed(o)
  BY DEF UploadInit
<1>4. /\ entries = [p \in Owners |-> 0] /\ epoch = 0 /\ ownerOf = <<>> /\ deleted = {}
      /\ uploader \in [Uploaders -> {NoNeed(o)}]
  BY DEF UploadInit
<1> HIDE DEF o
<1>5. UploadShape
  BY <1>2, <1>4 DEF UploadShape
<1>6. CacheFits
  <2>1. KeptEntries = {}
    BY <1>4 DEF KeptEntries
  <2> QED BY <2>1, FS_EmptySet, UploadAssumption DEF CacheFits
<1>7. \A u \in Uploaders : UploaderFits(u)
  BY <1>2, <1>3, <1>4, NoUploadTyped DEF UploaderFits, ResultFits
<1>8. \A p \in Owners : EntryFits(p)
  BY <1>4 DEF EntryFits
<1> QED BY <1>5, <1>6, <1>7, <1>8 DEF UploadInv

LEMMA UploadSafe ==
  ASSUME UploadInv PROVE UploadsFresh
<1>1. ASSUME NEW u \in Uploaders, UpAt(u, "rest")
      PROVE  /\ LET f == uploader[u].result.file IN
                f # 0 => AccountOf[ownerOf[f]] = AccountOf[uploader[u].id]
             /\ uploader[u].result.err = "aborted" => u \in cut \/ uploader[u].led
  BY <1>1 DEF UploadInv, UploaderFits, ResultFits, UpAt
<1>2. \A o \in KeptEntries : ownerOf[entries[o]] = o /\ <<entries[o], o>> \notin deleted
  BY DEF UploadInv, KeptEntries, EntryFits, FileOf
<1>3. Cardinality(KeptEntries) <= UploadLimit
  BY DEF UploadInv, CacheFits
<1> QED BY <1>1, <1>2, <1>3 DEF UploadsFresh

(* Whoever shares an upload, on whatever identity its retries end, and     *)
(* however entries expire, are evicted or invalidated meanwhile: a request *)
(* is given a file of the account it is on, the cache lends only files of  *)
(* their identity that were not deleted with its sessions, it keeps to its *)
(* limit, and nobody is told of the cancellation of somebody else.         *)
THEOREM UploadsFreshHolds == UploadSpec => []UploadsFresh
BY UploadInitInv, UploadStep, UploadSafe, PTL DEF UploadSpec

-----------------------------------------------------------------------------
(***************************************************************************)
(* AnswerStream.                                                           *)
(*                                                                         *)
(* What is delivered or kept is of the present generation: a new one only  *)
(* begins where nothing was delivered.  And what the client and the        *)
(* history have been told fits the place of the loop.                      *)
(***************************************************************************)

RetryType == [at : RetryPlaces, attempts : 0..RetryMax, alternates : 0..Alternates,
              once : BOOLEAN, failed : BOOLEAN, resuming : BOOLEAN,
              err : Errors \cup {"none"}]
GenType == [n : Nat \ {0}, partial : BOOLEAN, thought : BOOLEAN, id : BOOLEAN,
            pending : BOOLEAN, raw : SUBSET Nat, markup : SUBSET Nat, sieve : SUBSET Nat,
            deferred : SUBSET Nat, lead : SUBSET Nat, stop : {"none", "stop", "error"}]
ClientType == [text : SUBSET Nat, calls : SUBSET Nat, terminals : Nat,
               ended : {"no", "done", "error"}]
BlocksType == [{"thinking", "text"} -> BlockStates]

AnswerShape ==
  /\ asked.on \in Surfaces /\ asked.hold \in BOOLEAN
  /\ retry \in RetryType /\ gen \in GenType /\ client \in ClientType /\ blocks \in BlocksType
  /\ record \in {"streaming", "stopped", "success", "error"}

OfThisGeneration ==
  /\ client.text \cup client.calls \subseteq {gen.n}
  /\ gen.raw \cup gen.markup \cup gen.sieve \cup gen.deferred \cup gen.lead \subseteq {gen.n}

(* Text that may be shown has been, or waits in the sieve or for the       *)
(* verdict; a call that is pending is in the markup.                       *)
TextKept ==
  /\ gen.pending => gen.markup # {}
  /\ ~asked.hold /\ gen.raw # {} /\ gen.markup = {} =>
       client.text # {} \/ gen.sieve # {} \/ gen.deferred # {}

(* A stream that is judged has stopped, and a new generation begins only   *)
(* where nothing was delivered.                                            *)
PlaceFits ==
  /\ retry.at \in {"flush", "verdict"} => gen.stop # "none"
  /\ retry.at \in {"consume", "flush", "verdict"} => ~retry.resuming
  /\ LoopAt("resume") => retry.attempts # 0
  /\ LoopAt("head") => ~Delivered \/ retry.attempts # 0 \/ gen.n # 1
  /\ LoopAt("decide") => retry.resuming \/ ~Delivered
  /\ retry.at \in {"regenerate", "switch"} => ~Delivered

(* Who has been told what.                                                 *)
Untold == client.terminals = 0 /\ client.ended = "no" /\ record = "streaming"
BlocksClosed == \A b \in {"thinking", "text"} : blocks[b] # "open"
ToldOfFailure ==
  /\ record \in {"streaming", "error"}
  /\ \/ (left \/ broken) /\ client.terminals = 0 /\ client.ended = "no"
     \/ client.terminals = 1 /\ client.ended = "error"
  /\ record = "streaming" => left \/ asked.on = "gemini"
  /\ asked.on = "claude" /\ client.terminals = 1 => BlocksClosed
ToldAtEnd ==
  /\ client.terminals = IF client.ended = "no" THEN 0 ELSE 1
  /\ client.ended = "no" => left \/ broken
  /\ record = "success" <=> client.ended = "done"
  /\ record = "streaming" => left \/ broken \/ asked.on = "gemini"
  /\ (asked.on = "claude" /\ client.ended # "no") \/ client.ended = "done" => BlocksClosed
  /\ client.ended = "done" => client.text \cup client.calls = {gen.n}
ToldFits ==
  /\ retry.failed => retry.at \in {"refused", "end"}
  /\ retry.at \notin {"refused", "end"} => Untold
  /\ LoopAt("refused") => IF retry.failed THEN ToldOfFailure ELSE Untold
  /\ LoopAt("end") => ToldAtEnd

AnswerInv == AnswerShape /\ OfThisGeneration /\ TextKept /\ PlaceFits /\ ToldFits

LEMMA GenerationTyped ==
  ASSUME NEW n \in Nat \ {0}, NEW thought \in BOOLEAN
  PROVE  LET g == Generation(n, thought)
         IN  /\ g \in GenType /\ g.n = n /\ ~g.pending
             /\ g.raw = {} /\ g.markup = {} /\ g.sieve = {} /\ g.deferred = {} /\ g.lead = {}
<1>1. FALSE \in BOOLEAN
  BY Zenon
<1> QED BY <1>1 DEF Generation, GenType

LEMMA AnswerInitInv == AnswerInit => AnswerInv
<1> SUFFICES ASSUME AnswerInit PROVE AnswerInv
  OBVIOUS
<1>1. /\ gen \in GenType /\ gen.n = 1 /\ ~gen.pending
      /\ gen.raw = {} /\ gen.markup = {} /\ gen.sieve = {} /\ gen.deferred = {} /\ gen.lead = {}
  <2>1. FALSE \in BOOLEAN
    BY Zenon
  <2>2. 1 \in Nat \ {0}
    OBVIOUS
  <2> QED BY <2>1, <2>2, GenerationTyped DEF AnswerInit
<1>2. /\ retry \in RetryType /\ retry.at = "head" /\ ~retry.failed
  <2>1. FALSE \in BOOLEAN
    BY Zenon
  <2> QED BY <2>1, AnswerAssumption DEF AnswerInit, RetryType, RetryPlaces
<1>3. /\ client \in ClientType /\ client.text = {} /\ client.calls = {}
      /\ client.terminals = 0 /\ client.ended = "no"
  BY DEF AnswerInit, ClientType
<1>4. blocks \in BlocksType /\ asked.on \in Surfaces /\ asked.hold \in BOOLEAN
  BY DEF AnswerInit, BlocksType, BlockStates
<1> QED BY <1>1, <1>2, <1>3, <1>4
        DEF AnswerInit, AnswerInv, AnswerShape, OfThisGeneration, TextKept, PlaceFits,
            ToldFits, Untold, LoopAt, Delivered

-----------------------------------------------------------------------------

LEMMA ClosedBlocks ==
  ASSUME NEW b \in BlocksType
  PROVE  Closed(b) \in BlocksType /\ \A k \in {"thinking", "text"} : Closed(b)[k] # "open"
BY DEF Closed, BlocksType, BlockStates

LEMMA OpenedTyped ==
  ASSUME NEW b \in BlocksType, NEW kind \in {"thinking", "text"}
  PROVE  Opened(b, kind) \in BlocksType
<1> DEFINE other == IF kind = "text" THEN "thinking" ELSE "text"
<1>1. other \in {"thinking", "text"}
  OBVIOUS
<1>2. CASE asked.on = "claude"
  <2>1. Opened(b, kind) =
          [b EXCEPT ![kind] = "open", ![other] = IF @ = "open" THEN "closed" ELSE @]
    BY <1>2 DEF Opened
  <2> QED BY <1>1, <2>1 DEF BlocksType, BlockStates
<1>3. CASE asked.on = "responses" /\ kind = "text"
  <2>1. Opened(b, kind) =
          [b EXCEPT !.text = "open", !.thinking = IF @ = "open" THEN "closed" ELSE @]
    BY <1>3 DEF Opened
  <2> QED BY <2>1 DEF BlocksType, BlockStates
<1>4. CASE asked.on = "responses" /\ kind = "thinking"
  <2>1. Opened(b, kind) = [b EXCEPT !.thinking = IF @ = "none" THEN "open" ELSE @]
    BY <1>4 DEF Opened
  <2> QED BY <2>1 DEF BlocksType, BlockStates
<1>5. CASE asked.on \notin {"claude", "responses"}
  BY <1>5 DEF Opened
<1> QED BY <1>2, <1>3, <1>4, <1>5

LEMMA WithTextFits ==
  ASSUME NEW c \in ClientType, NEW texts \in SUBSET Nat, gen \in GenType
  PROVE  LET w == WithText(c, texts)
         IN  /\ w \in ClientType
             /\ w.calls = c.calls /\ w.terminals = c.terminals /\ w.ended = c.ended
             /\ w.text = IF texts = {} \/ broken THEN c.text ELSE c.text \cup texts \cup gen.lead
BY DEF WithText, ClientType, GenType

LEMMA TerminatedFits ==
  ASSUME NEW c \in ClientType, c.terminals = 0, c.ended = "no", NEW how \in {"done", "error"}
  PROVE  LET t == Terminated(c, how)
         IN  /\ t \in ClientType /\ t.text = c.text /\ t.calls = c.calls
             /\ IF broken THEN t.terminals = 0 /\ t.ended = "no"
                          ELSE t.terminals = 1 /\ t.ended = how
<1>1. CASE broken
  BY <1>1 DEF Terminated
<1>2. CASE ~broken
  <2> DEFINE t == [c EXCEPT !.terminals = 1, !.ended = how]
  <2>1. t \in ClientType /\ t.text = c.text /\ t.calls = c.calls /\ t.terminals = 1 /\ t.ended = how
    BY DEF ClientType
  <2>2. Terminated(c, how) = t
    BY <1>2 DEF Terminated, ClientType
  <2> HIDE DEF t
  <2> QED BY <1>2, <2>1, <2>2
<1> QED BY <1>1, <1>2

(* A step that goes on: nobody is told of an end.                          *)
LEMMA GoesOn ==
  ASSUME AnswerInv, Untold, UNCHANGED <<asked, record>>,
         retry' \in RetryType, ~retry'.failed, retry'.at # "end",
         gen' \in GenType, client' \in ClientType, blocks' \in BlocksType,
         client'.terminals = client.terminals, client'.ended = client.ended,
         OfThisGeneration', TextKept', PlaceFits'
  PROVE  AnswerInv'
<1>1. AnswerShape'
  BY DEF AnswerInv, AnswerShape
<1>2. ToldFits'
  BY DEF ToldFits, Untold, LoopAt
<1> QED BY <1>1, <1>2 DEF AnswerInv

(* Before the loop comes to an end nobody has been told.                   *)
LEMMA UntoldHere ==
  ASSUME AnswerInv, retry.at \notin {"refused", "end"}
  PROVE  Untold /\ ~retry.failed
BY DEF AnswerInv, ToldFits

LEMMA Ended ==
  ASSUME AnswerInv, Returns, UNCHANGED asked,
         client' \in ClientType, blocks' \in BlocksType,
         record' \in {"streaming", "stopped", "success", "error"},
         client'.text \cup client'.calls \subseteq {gen.n}, ToldAtEnd'
  PROVE  AnswerInv'
<1>1. retry' \in RetryType /\ retry'.at = "end"
  BY DEF AnswerInv, AnswerShape, RetryType, RetryPlaces, Returns, GoTo
<1>2. /\ gen' \in GenType /\ gen'.n = gen.n /\ ~gen'.pending
      /\ gen'.raw = {} /\ gen'.markup = {} /\ gen'.sieve = {} /\ gen'.deferred = {}
      /\ gen'.lead = {}
  <2>1. gen.n \in Nat \ {0}
    BY DEF AnswerInv, AnswerShape, GenType
  <2>2. FALSE \in BOOLEAN
    BY Zenon
  <2> QED BY <2>1, <2>2, GenerationTyped DEF Returns
<1>3. AnswerShape'
  BY <1>1, <1>2 DEF AnswerInv, AnswerShape
<1> QED BY <1>1, <1>2, <1>3
        DEF AnswerInv, OfThisGeneration, TextKept, PlaceFits, ToldFits, LoopAt

(* Text that goes out is of the present generation.                        *)
LEMMA SentFits ==
  ASSUME AnswerInv, NEW texts \in SUBSET {gen.n}
  PROVE  LET w == WithText(client, texts)
         IN  /\ w \in ClientType /\ w.text \subseteq {gen.n}
             /\ w.calls = client.calls /\ w.terminals = client.terminals
             /\ w.ended = client.ended
             /\ client.text \subseteq w.text
             /\ ~broken => texts \subseteq w.text
<1>1. gen \in GenType /\ client \in ClientType /\ texts \in SUBSET Nat
  BY DEF AnswerInv, AnswerShape, GenType
<1>2. client.text \subseteq {gen.n} /\ gen.lead \subseteq {gen.n}
  BY DEF AnswerInv, OfThisGeneration
<1>3. PICK w :
        /\ w = WithText(client, texts) /\ w \in ClientType
        /\ w.calls = client.calls /\ w.terminals = client.terminals /\ w.ended = client.ended
        /\ w.text = IF texts = {} \/ broken THEN client.text ELSE client.text \cup texts \cup gen.lead
  BY <1>1, WithTextFits
<1>4. /\ w.text \subseteq {gen.n} /\ client.text \subseteq w.text
      /\ ~broken => texts \subseteq w.text
  BY <1>2, <1>3
<1> QED BY <1>3, <1>4

-----------------------------------------------------------------------------
(***************************************************************************)
(* The parts of a stream.                                                  *)
(***************************************************************************)

LEMMA PartStep == ASSUME AnswerInv, Parts PROVE AnswerInv'
<1>0. /\ LoopAt("consume") /\ ~broken /\ UNCHANGED <<asked, retry, record>>
  BY DEF Parts, Thinks, WritesBlank, WritesText, WritesDoubtful, CallsTool, Reading
<1>1. /\ Untold /\ ~retry.failed /\ retry \in RetryType /\ gen \in GenType
      /\ client \in ClientType /\ blocks \in BlocksType /\ asked.hold \in BOOLEAN
      /\ OfThisGeneration /\ TextKept /\ gen.n \in Nat /\ {gen.n} \in SUBSET Nat
      /\ PlaceFits
  BY <1>0, UntoldHere DEF AnswerInv, AnswerShape, LoopAt, GenType
<1>2. TRUE \in BOOLEAN
  BY Zenon
<1>3. PlaceFits'
  BY <1>0, <1>1 DEF PlaceFits, LoopAt
<1>4. SUFFICES /\ gen' \in GenType /\ client' \in ClientType /\ blocks' \in BlocksType
               /\ client'.terminals = client.terminals /\ client'.ended = client.ended
               /\ OfThisGeneration' /\ TextKept'
  BY <1>0, <1>1, <1>3, GoesOn DEF LoopAt
<1> USE DEF OfThisGeneration, TextKept
<1>5. CASE Thinks
  <2>1. blocks' \in BlocksType
    BY <1>1, <1>5, OpenedTyped DEF Thinks
  <2>2. /\ gen' \in GenType /\ gen'.n = gen.n /\ gen'.pending = gen.pending
        /\ gen'.raw = gen.raw /\ gen'.markup = gen.markup /\ gen'.sieve = gen.sieve
        /\ gen'.deferred = gen.deferred /\ gen'.lead = gen.lead
    <3>1. \/ gen' = [gen EXCEPT !.partial = TRUE, !.thought = TRUE]
          \/ gen' = [gen EXCEPT !.partial = TRUE]
      BY <1>5 DEF Thinks
    <3>2. gen' \in GenType
      <4>1. CASE gen' = [gen EXCEPT !.partial = TRUE, !.thought = TRUE]
        BY ONLY <1>1, <1>2, <4>1 DEF GenType
      <4>2. CASE gen' = [gen EXCEPT !.partial = TRUE]
        BY ONLY <1>1, <1>2, <4>2 DEF GenType
      <4> QED BY <3>1, <4>1, <4>2
    <3>3. /\ gen'.n = gen.n /\ gen'.pending = gen.pending
          /\ gen'.raw = gen.raw /\ gen'.markup = gen.markup /\ gen'.sieve = gen.sieve
          /\ gen'.deferred = gen.deferred /\ gen'.lead = gen.lead
      BY ONLY <1>1, <3>1 DEF GenType
    <3> QED BY <3>2, <3>3
  <2> QED BY <1>0, <1>1, <1>5, <2>1, <2>2 DEF Thinks
<1>6. CASE WritesBlank
  <2>1. PICK lead \in {gen.lead, gen.lead \cup {gen.n}} :
          gen' = [gen EXCEPT !.partial = TRUE, !.lead = lead]
    BY <1>6 DEF WritesBlank
  <2>2. /\ gen' \in GenType /\ gen'.n = gen.n /\ gen'.pending = gen.pending
        /\ gen'.raw = gen.raw /\ gen'.markup = gen.markup /\ gen'.sieve = gen.sieve
        /\ gen'.deferred = gen.deferred /\ gen'.lead = lead
    BY <1>1, <1>2, <2>1 DEF GenType
  <2>3. UNCHANGED <<client, blocks, asked>>
    BY <1>6 DEF WritesBlank
  <2> QED BY <1>1, <2>1, <2>2, <2>3
<1>7. CASE WritesText
  <2>1. /\ Prose \in GenType /\ Prose.n = gen.n /\ Prose.pending = gen.pending
        /\ Prose.raw = gen.raw \cup {gen.n} /\ Prose.markup = gen.markup
        /\ Prose.sieve = gen.sieve /\ Prose.deferred = gen.deferred /\ Prose.lead = gen.lead
    BY <1>1, <1>2 DEF Prose, GenType
  <2>2. CASE asked.hold \/ gen.pending
    BY <1>0, <1>1, <1>7, <2>1, <2>2 DEF WritesText
  <2>3. CASE ~(asked.hold \/ gen.pending)
    <3>1. /\ gen' = [Prose EXCEPT !.lead = {}] /\ client' = WithText(client, {gen.n})
          /\ blocks' = Opened(blocks, "text")
      BY <1>7, <2>3 DEF WritesText
    <3>2. /\ gen' \in GenType /\ gen'.n = gen.n /\ gen'.pending = gen.pending
          /\ gen'.raw = gen.raw \cup {gen.n} /\ gen'.markup = gen.markup
          /\ gen'.sieve = gen.sieve /\ gen'.deferred = gen.deferred /\ gen'.lead = {}
      BY <2>1, <3>1 DEF GenType
    <3>3. /\ client' \in ClientType /\ client'.text = {gen.n} /\ client'.calls = client.calls
          /\ client'.terminals = client.terminals /\ client'.ended = client.ended
      BY <1>0, <3>1, SentFits
    <3>4. blocks' \in BlocksType
      BY <1>1, <3>1, OpenedTyped
    <3> QED BY <1>1, <3>2, <3>3, <3>4
  <2> QED BY <2>2, <2>3
<1>8. CASE WritesDoubtful
  <2>1. PICK s \in {gen.sieve, gen.sieve \cup {gen.n}} :
          /\ ~asked.hold => s # {}
          /\ gen' = [gen EXCEPT !.partial = TRUE, !.raw = @ \cup {gen.n}, !.sieve = s]
    <3>1. CASE asked.hold
      BY <1>1, <1>8, <3>1 DEF WritesDoubtful, Prose, GenType
    <3>2. CASE ~asked.hold
      <4>1. gen' = [gen EXCEPT !.partial = TRUE, !.raw = @ \cup {gen.n}, !.sieve = @ \cup {gen.n}]
        BY <1>1, <1>8, <3>2 DEF WritesDoubtful, Prose, GenType
      <4> QED BY <4>1
    <3> QED BY <3>1, <3>2
  <2>2. /\ gen' \in GenType /\ gen'.n = gen.n /\ gen'.pending = gen.pending
        /\ gen'.raw = gen.raw \cup {gen.n} /\ gen'.markup = gen.markup /\ gen'.sieve = s
        /\ gen'.deferred = gen.deferred /\ gen'.lead = gen.lead
    BY <1>1, <1>2, <2>1 DEF GenType
  <2>3. UNCHANGED <<client, blocks, asked>>
    BY <1>8 DEF WritesDoubtful
  <2> QED BY <1>1, <2>1, <2>2, <2>3
<1>9. CASE CallsTool
  <2>1. PICK p \in BOOLEAN : p = ~asked.hold
    BY <1>1
  <2>2. /\ gen' = [gen EXCEPT !.partial = TRUE, !.markup = @ \cup {gen.n}, !.pending = p]
        /\ UNCHANGED <<client, blocks, asked>>
    BY <1>9, <2>1 DEF CallsTool
  <2>3. /\ gen' \in GenType /\ gen'.n = gen.n /\ gen'.raw = gen.raw
        /\ gen'.markup = gen.markup \cup {gen.n} /\ gen'.sieve = gen.sieve
        /\ gen'.deferred = gen.deferred /\ gen'.lead = gen.lead
    BY <1>1, <1>2, <2>2 DEF GenType
  <2> QED BY <1>1, <2>2, <2>3
<1> QED BY <1>5, <1>6, <1>7, <1>8, <1>9 DEF Parts

-----------------------------------------------------------------------------
(***************************************************************************)
(* The end of a stream.                                                    *)
(***************************************************************************)

(* What every step may rely on.                                            *)
LEMMA AnswerNow ==
  ASSUME AnswerInv
  PROVE  /\ retry \in RetryType /\ gen \in GenType /\ client \in ClientType
         /\ blocks \in BlocksType /\ asked.on \in Surfaces /\ asked.hold \in BOOLEAN
         /\ record \in {"streaming", "stopped", "success", "error"}
         /\ gen.n \in Nat \ {0} /\ client.text \cup client.calls \subseteq {gen.n}
         /\ gen.raw \subseteq {gen.n} /\ gen.markup \subseteq {gen.n}
         /\ gen.sieve \subseteq {gen.n} /\ gen.deferred \subseteq {gen.n}
         /\ gen.lead \subseteq {gen.n}
BY DEF AnswerInv, AnswerShape, OfThisGeneration, GenType

(* The client cannot be told any more.                                     *)
LEMMA EndsUntold ==
  ASSUME AnswerInv, Untold, Returns, UNCHANGED <<asked, client, blocks>>,
         left' \/ broken', record' \in {"streaming", "stopped", "error"}
  PROVE  AnswerInv'
<1>1. ToldAtEnd'
  BY DEF ToldAtEnd, Untold
<1> QED BY <1>1, AnswerNow, Ended

(* The client is told of an error.                                         *)
LEMMA EndsWithError ==
  ASSUME AnswerInv, Untold, Returns, UNCHANGED <<asked, left, broken>>,
         NEW c \in ClientType, c.terminals = 0, c.ended = "no",
         c.text \cup c.calls \subseteq {gen.n},
         client' = Terminated(c, "error"), record' \in {"streaming", "error"},
         record' = "streaming" => asked.on = "gemini",
         blocks' \in BlocksType, asked.on = "claude" => BlocksClosed'
  PROVE  AnswerInv'
<1>1. /\ client' \in ClientType /\ client'.text = c.text /\ client'.calls = c.calls
      /\ IF broken THEN client'.terminals = 0 /\ client'.ended = "no"
                   ELSE client'.terminals = 1 /\ client'.ended = "error"
  BY TerminatedFits
<1>2. ToldAtEnd'
  BY <1>1 DEF ToldAtEnd
<1> QED BY <1>1, <1>2, Ended

LEMMA ConsumeEndsStep == ASSUME AnswerInv, ConsumeEnds PROVE AnswerInv'
<1>0. LoopAt("consume") /\ UNCHANGED <<asked, left, broken>>
  BY DEF ConsumeEnds, EndsHeard, EndsUnheard, StreamStops, StreamBreaks
<1>1. Untold /\ ~retry.failed
  BY <1>0, UntoldHere DEF LoopAt
<1>2. TRUE \in BOOLEAN
  BY Zenon
<1>3. CASE EndsHeard
  BY <1>1, <1>3, EndsUntold DEF EndsHeard
<1>4. CASE EndsUnheard
  BY <1>1, <1>4, EndsUntold DEF EndsUnheard, Untold
(* The loop goes on to another place with what it has.                     *)
<1>5. ASSUME UNCHANGED <<client, blocks, record>>,
             NEW stop \in {"none", "stop", "error"}, NEW id \in BOOLEAN,
             gen' = [gen EXCEPT !.stop = stop, !.id = id],
             NEW place \in {"flush", "decide"}, NEW resuming \in BOOLEAN,
             retry' = [retry EXCEPT !.at = place, !.resuming = resuming],
             IF place = "flush" THEN ~resuming /\ stop # "none" ELSE resuming
      PROVE  AnswerInv'
  <2>1. /\ gen' \in GenType /\ gen'.n = gen.n /\ gen'.pending = gen.pending
        /\ gen'.raw = gen.raw /\ gen'.markup = gen.markup /\ gen'.sieve = gen.sieve
        /\ gen'.deferred = gen.deferred /\ gen'.lead = gen.lead /\ gen'.stop = stop
    BY <1>5, AnswerNow DEF GenType
  <2>2. /\ retry' \in RetryType /\ retry'.at = place /\ retry'.resuming = resuming
        /\ ~retry'.failed
    BY <1>1, <1>5, AnswerNow DEF RetryType, RetryPlaces
  <2>3. OfThisGeneration' /\ TextKept'
    BY <1>0, <1>5, <2>1 DEF AnswerInv, OfThisGeneration, TextKept
  <2>4. PlaceFits'
    BY <1>5, <2>1, <2>2 DEF PlaceFits, LoopAt
  <2> QED BY <1>0, <1>1, <1>5, <2>1, <2>2, <2>3, <2>4, AnswerNow, GoesOn
<1>6. ~retry.resuming /\ retry.resuming \in BOOLEAN /\ gen.id \in BOOLEAN
      /\ gen.stop \in {"none", "stop", "error"}
  BY <1>0, AnswerNow DEF AnswerInv, PlaceFits, LoopAt, RetryType, GenType
<1>7. CASE StreamStops
  <2>1. PICK reason \in {"stop", "error"} : gen' = [gen EXCEPT !.stop = reason]
    BY <1>7 DEF StreamStops
  <2>2. gen' = [gen EXCEPT !.stop = reason, !.id = gen.id]
    BY <2>1, AnswerNow DEF GenType
  <2>3. retry' = [retry EXCEPT !.at = "flush", !.resuming = retry.resuming]
    BY <1>7, AnswerNow DEF StreamStops, GoTo, RetryType
  <2>4. UNCHANGED <<client, blocks, record>>
    BY <1>7 DEF StreamStops
  <2> QED BY <1>5, <1>6, <2>2, <2>3, <2>4
<1>8. CASE StreamBreaks
  <2>1. \/ /\ retry' = [GoTo("decide") EXCEPT !.resuming = TRUE]
           /\ gen' = [gen EXCEPT !.id = TRUE]
           /\ UNCHANGED <<client, blocks, record>>
        \/ /\ client' = Terminated(client, "error") /\ record' = "error"
           /\ blocks' = IF asked.on = "claude" THEN Closed(blocks) ELSE blocks
           /\ Returns
        \/ /\ gen' = [gen EXCEPT !.stop = "stop"] /\ retry' = GoTo("flush")
           /\ UNCHANGED <<client, blocks, record>>
    BY <1>8 DEF StreamBreaks
  <2>2. CASE /\ retry' = [GoTo("decide") EXCEPT !.resuming = TRUE]
             /\ gen' = [gen EXCEPT !.id = TRUE]
             /\ UNCHANGED <<client, blocks, record>>
    <3>1. gen' = [gen EXCEPT !.stop = gen.stop, !.id = TRUE]
      BY <2>2, AnswerNow DEF GenType
    <3>2. retry' = [retry EXCEPT !.at = "decide", !.resuming = TRUE]
      BY <2>2, AnswerNow DEF GoTo, RetryType
    <3> QED BY <1>2, <1>5, <1>6, <2>2, <3>1, <3>2
  <2>3. CASE /\ client' = Terminated(client, "error") /\ record' = "error"
             /\ blocks' = IF asked.on = "claude" THEN Closed(blocks) ELSE blocks
             /\ Returns
    <3>1. blocks' \in BlocksType /\ (asked.on = "claude" => BlocksClosed')
      BY <2>3, AnswerNow, ClosedBlocks DEF BlocksClosed
    <3> QED BY <1>0, <1>1, <2>3, <3>1, AnswerNow, EndsWithError DEF Untold
  <2>4. CASE /\ gen' = [gen EXCEPT !.stop = "stop"] /\ retry' = GoTo("flush")
             /\ UNCHANGED <<client, blocks, record>>
    <3>1. gen' = [gen EXCEPT !.stop = "stop", !.id = gen.id]
      BY <2>4, AnswerNow DEF GenType
    <3>2. retry' = [retry EXCEPT !.at = "flush", !.resuming = retry.resuming]
      BY <2>4, AnswerNow DEF GoTo, RetryType
    <3> QED BY <1>5, <1>6, <2>4, <3>1, <3>2
  <2> QED BY <2>1, <2>2, <2>3, <2>4
<1> QED BY <1>3, <1>4, <1>7, <1>8 DEF ConsumeEnds

LEMMA FlushStep == ASSUME AnswerInv, EndsUnwritten \/ Flushes PROVE AnswerInv'
<1>0. LoopAt("flush") /\ UNCHANGED <<asked, left, broken>>
  BY DEF EndsUnwritten, Flushes
<1>1. Untold /\ ~retry.failed
  BY <1>0, UntoldHere DEF LoopAt
<1>2. CASE EndsUnwritten
  <2>1. record' \in {"streaming", "error"} /\ broken'
    BY <1>0, <1>1, <1>2 DEF EndsUnwritten, Untold
  <2> QED BY <1>1, <1>2, <2>1, EndsUntold DEF EndsUnwritten
<1>3. CASE Flushes
  <2>1. PICK shown, deferred, kept \in {{}, gen.sieve}, call \in BOOLEAN :
          /\ asked.on \in {"claude", "responses"} => kept = {}
          /\ gen.sieve = {} => ~call
          /\ shown \cup deferred \cup kept = gen.sieve \/ call
          /\ LET goesOut == shown # {} /\ ~gen.pending IN
             /\ gen' = [gen EXCEPT !.sieve = kept, !.deferred = @ \cup deferred,
                          !.pending = @ \/ call,
                          !.markup = IF call THEN @ \cup gen.sieve ELSE @,
                          !.lead = IF goesOut THEN {} ELSE @]
             /\ client' = IF goesOut THEN WithText(client, shown) ELSE client
             /\ LET opened == IF goesOut THEN FlushedInto(blocks) ELSE blocks IN
                blocks' = IF asked.on = "claude" /\ opened.text = "open"
                          THEN [opened EXCEPT !.text = "closed"] ELSE opened
    BY <1>3 DEF Flushes
  <2> DEFINE goesOut == shown # {} /\ ~gen.pending
             opened == IF goesOut THEN FlushedInto(blocks) ELSE blocks
             pending == gen.pending \/ call
             markup == IF call THEN gen.markup \cup gen.sieve ELSE gen.markup
             lead == IF goesOut THEN {} ELSE gen.lead
  <2>2. opened \in BlocksType /\ blocks' \in BlocksType
    <3>1. FlushedInto(blocks) \in BlocksType
      <4>1. Opened(blocks, "text") \in BlocksType
        BY AnswerNow, OpenedTyped
      <4>2. [blocks EXCEPT !.text = "open"] \in BlocksType
        BY AnswerNow DEF BlocksType, BlockStates
      <4> QED BY <4>1, <4>2 DEF FlushedInto
    <3>2. opened \in BlocksType
      BY <3>1, AnswerNow
    <3>3. blocks' = IF asked.on = "claude" /\ opened.text = "open"
                    THEN [opened EXCEPT !.text = "closed"] ELSE opened
      BY <2>1
    <3> HIDE DEF opened
    <3> QED BY <3>2, <3>3 DEF BlocksType, BlockStates
  <2>3. /\ client' \in ClientType /\ client'.text \subseteq {gen.n}
        /\ client'.calls = client.calls /\ client'.terminals = client.terminals
        /\ client'.ended = client.ended /\ client.text \subseteq client'.text
        /\ goesOut => shown \subseteq client'.text
    <3>1. shown \in SUBSET {gen.n} /\ ~broken
      BY <1>3, AnswerNow DEF Flushes
    <3>2. CASE goesOut
      <4>1. client' = WithText(client, shown)
        BY <2>1, <3>2
      <4> QED BY <3>1, <4>1, SentFits
    <3>3. CASE ~goesOut
      BY <2>1, <3>3, AnswerNow
    <3> QED BY <3>2, <3>3
  <2>4. /\ gen' = [gen EXCEPT !.sieve = kept, !.deferred = gen.deferred \cup deferred,
                              !.pending = pending, !.markup = markup, !.lead = lead]
    BY <2>1, AnswerNow DEF GenType
  <2>5. /\ pending \in BOOLEAN /\ markup \in SUBSET Nat /\ lead \in SUBSET Nat
        /\ kept \in SUBSET Nat /\ (gen.deferred \cup deferred) \in SUBSET Nat
        /\ kept \cup deferred \cup markup \cup lead \subseteq {gen.n}
    <3>1. pending \in BOOLEAN
      BY Zenon
    <3> QED BY <3>1, AnswerNow
  <2>6. /\ call => gen.sieve # {} /\ markup # {}
        /\ gen.markup # {} => markup # {}
        /\ ~call => shown \cup deferred \cup kept = gen.sieve
    BY <2>1
  <2> HIDE DEF opened, markup, lead
  <2>7. /\ gen' \in GenType /\ gen'.n = gen.n /\ gen'.pending = pending
        /\ gen'.raw = gen.raw /\ gen'.markup = markup /\ gen'.sieve = kept
        /\ gen'.deferred = gen.deferred \cup deferred /\ gen'.lead = lead
    <3> HIDE DEF pending
    <3> QED BY <2>4, <2>5, AnswerNow DEF GenType
  <2>8. OfThisGeneration'
    BY <2>3, <2>5, <2>7, AnswerNow DEF OfThisGeneration
  <2>9. TextKept'
    BY <1>0, <2>3, <2>6, <2>7 DEF AnswerInv, TextKept
  <2>10. /\ retry' \in RetryType /\ retry'.at = "verdict" /\ retry'.resuming = retry.resuming
         /\ ~retry'.failed /\ UNCHANGED record
    BY <1>1, <1>3, AnswerNow DEF Flushes, GoTo, RetryType, RetryPlaces
  <2>11. PlaceFits'
    <3>1. gen'.stop = gen.stop
      BY <2>4, AnswerNow DEF GenType
    <3> QED BY <1>0, <2>10, <3>1 DEF AnswerInv, PlaceFits, LoopAt
  <2> QED BY <1>0, <1>1, <2>2, <2>3, <2>7, <2>8, <2>9, <2>10, <2>11, GoesOn
<1> QED BY <1>2, <1>3

-----------------------------------------------------------------------------
(***************************************************************************)
(* The verdict.                                                            *)
(***************************************************************************)

(* A text that is released is of the present generation, and it is there   *)
(* if nothing was sent.                                                    *)
LEMMA ReleasedFits ==
  ASSUME AnswerInv, LoopAt("verdict"), NEW verdict \in Verdicts \cap {"text", "calls"},
         NEW texts \in Released(verdict)
  PROVE  /\ texts \subseteq {gen.n}
         /\ verdict = "text" => texts \cup client.text = {gen.n}
<1>1. texts \subseteq {gen.n}
  BY AnswerNow DEF Released
<1>2. CASE verdict = "text"
  <2>1. gen.raw # {} /\ gen.markup = {}
    <3>1. gen.stop \in {"stop", "error"}
      BY AnswerNow DEF AnswerInv, PlaceFits, LoopAt, GenType
    <3>2. "text" \in Verdicts
      BY <1>2
    <3>3. CASE gen.stop = "error"
      BY <3>2, <3>3 DEF Verdicts
    <3>4. CASE gen.stop = "stop"
      BY <3>2, <3>4 DEF Verdicts
    <3> QED BY <3>1, <3>3, <3>4
  <2>2. CASE asked.hold
    <3>1. texts = gen.raw
      BY <1>2, <2>2 DEF Released
    <3> QED BY <1>1, <2>1, <3>1, AnswerNow
  <2>3. CASE ~asked.hold
    <3>1. texts = gen.deferred \cup gen.sieve
      BY <1>2, <2>3 DEF Released
    <3>2. client.text # {} \/ texts # {}
      BY <2>1, <2>3, <3>1 DEF AnswerInv, TextKept
    <3> QED BY <1>1, <3>2, AnswerNow
  <2> QED BY <2>2, <2>3
<1> QED BY <1>1, <1>2

LEMMA BlocksAfter ==
  ASSUME AnswerInv, NEW texts
  PROVE  LET b == Closed(IF texts # {} THEN Opened(blocks, "text") ELSE blocks)
         IN  b \in BlocksType /\ \A k \in {"thinking", "text"} : b[k] # "open"
<1>1. (IF texts # {} THEN Opened(blocks, "text") ELSE blocks) \in BlocksType
  BY AnswerNow, OpenedTyped
<1> QED BY <1>1, ClosedBlocks

LEMMA SucceedsStep ==
  ASSUME AnswerInv, LoopAt("verdict"), Succeeds, UNCHANGED <<asked, left>> PROVE AnswerInv'
<1>0. Untold
  BY UntoldHere DEF LoopAt
<1>1. PICK verdict \in Verdicts \cap {"text", "calls"} :
        \E texts \in Released(verdict), frames \in IF broken THEN {0} ELSE 0..3 :
          LET calls == IF verdict = "calls" THEN gen.raw \cup gen.markup \cup {gen.n} ELSE {}
              shown == IF frames >= 1 THEN WithText(client, texts) ELSE client
              called == IF frames >= 2 THEN [shown EXCEPT !.calls = @ \cup calls] ELSE shown
          IN /\ client' = IF frames = 3 THEN Terminated(called, "done") ELSE called
             /\ broken' = (frames < 3)
             /\ record' = IF frames = 3 THEN "success" ELSE "error"
             /\ blocks' = Closed(IF texts # {} THEN Opened(blocks, "text") ELSE blocks)
             /\ Returns
  BY Zenon DEF Succeeds
<1>2. PICK texts \in Released(verdict), frames \in IF broken THEN {0} ELSE 0..3 :
        LET calls == IF verdict = "calls" THEN gen.raw \cup gen.markup \cup {gen.n} ELSE {}
            shown == IF frames >= 1 THEN WithText(client, texts) ELSE client
            called == IF frames >= 2 THEN [shown EXCEPT !.calls = @ \cup calls] ELSE shown
        IN /\ client' = IF frames = 3 THEN Terminated(called, "done") ELSE called
           /\ broken' = (frames < 3)
           /\ record' = IF frames = 3 THEN "success" ELSE "error"
           /\ blocks' = Closed(IF texts # {} THEN Opened(blocks, "text") ELSE blocks)
           /\ Returns
  BY <1>1, Zenon
<1> DEFINE calls == IF verdict = "calls" THEN gen.raw \cup gen.markup \cup {gen.n} ELSE {}
           shown == IF frames >= 1 THEN WithText(client, texts) ELSE client
           called == IF frames >= 2 THEN [shown EXCEPT !.calls = @ \cup calls] ELSE shown
<1>3. /\ client' = IF frames = 3 THEN Terminated(called, "done") ELSE called
      /\ broken' = (frames < 3)
      /\ record' = IF frames = 3 THEN "success" ELSE "error"
      /\ Returns
  BY <1>2
<1>4. blocks' \in BlocksType /\ BlocksClosed'
  BY <1>2, BlocksAfter DEF BlocksClosed
<1>5. frames \in 0..3 /\ (frames = 3 => ~broken)
  BY <1>2
<1>6. calls \subseteq {gen.n} /\ (verdict = "calls" => calls = {gen.n})
  BY AnswerNow
<1>7. texts \subseteq {gen.n} /\ (verdict = "text" => texts \cup client.text = {gen.n})
  BY ReleasedFits
<1> HIDE DEF calls
<1>8. /\ shown \in ClientType /\ shown.text \subseteq {gen.n} /\ shown.calls = client.calls
      /\ shown.terminals = 0 /\ shown.ended = "no"
      /\ frames = 3 => client.text \cup texts \subseteq shown.text
  <2>1. CASE frames >= 1
    <3>1. shown = WithText(client, texts)
      BY <2>1
    <3> HIDE DEF shown
    <3> QED BY <1>0, <1>5, <1>7, <3>1, SentFits DEF Untold
  <2>2. CASE ~(frames >= 1)
    BY <1>0, <1>5, <2>2, AnswerNow DEF Untold
  <2> QED BY <2>1, <2>2
<1> HIDE DEF shown
<1>9. /\ called \in ClientType /\ called.text = shown.text /\ called.terminals = 0
      /\ called.ended = "no" /\ called.calls \subseteq {gen.n}
      /\ frames = 3 => called.calls = client.calls \cup calls
  <2>1. client.calls \subseteq {gen.n} /\ calls \in SUBSET Nat /\ shown.calls \cup calls \in SUBSET Nat
    BY <1>6, <1>8, AnswerNow
  <2> QED BY <1>5, <1>6, <1>8, <2>1 DEF ClientType
<1> HIDE DEF called
<1>10. /\ client' \in ClientType /\ client'.text = called.text /\ client'.calls = called.calls
       /\ IF frames = 3 THEN client'.terminals = 1 /\ client'.ended = "done"
                        ELSE client'.terminals = 0 /\ client'.ended = "no"
  <2>1. CASE frames = 3
    BY <1>3, <1>5, <1>9, <2>1, TerminatedFits
  <2>2. CASE frames # 3
    BY <1>3, <1>9, <2>2
  <2> QED BY <2>1, <2>2
<1>11. frames = 3 => client'.text \cup client'.calls = {gen.n}
  BY <1>6, <1>7, <1>8, <1>9, <1>10, AnswerNow
<1>12. ASSUME frames # 3 PROVE broken'
  <2>1. frames < 3
    BY <1>5, <1>12
  <2>2. broken' = (frames < 3)
    BY <1>3
  <2> QED BY <2>1, <2>2, Zenon
<1>13. gen'.n = gen.n
  BY <1>3, AnswerNow DEF Returns, Generation
<1>14. ToldAtEnd'
  BY <1>3, <1>4, <1>10, <1>11, <1>12, <1>13 DEF ToldAtEnd
<1> QED BY <1>3, <1>4, <1>8, <1>9, <1>10, <1>14, Ended

LEMMA JudgesStep == ASSUME AnswerInv, Judges PROVE AnswerInv'
<1>0. LoopAt("verdict") /\ UNCHANGED <<asked, left>>
  BY DEF Judges
<1>1. Untold /\ ~retry.failed
  BY <1>0, UntoldHere DEF LoopAt
<1>2. CASE Succeeds
  BY <1>0, <1>2, SucceedsStep
<1>3. CASE StoreRefuses
  <2>0. PICK verdict \in Verdicts \cap {"text", "calls"} : \E texts \in Released(verdict) :
          /\ client' = Terminated(WithText(client, texts), "error")
          /\ blocks' = Closed(IF texts # {} THEN Opened(blocks, "text") ELSE blocks)
    BY <1>3, Zenon DEF StoreRefuses
  <2>1. PICK texts \in Released(verdict) :
          /\ client' = Terminated(WithText(client, texts), "error")
          /\ blocks' = Closed(IF texts # {} THEN Opened(blocks, "text") ELSE blocks)
    BY <2>0, Zenon
  <2>2. texts \in SUBSET {gen.n}
    BY <1>0, ReleasedFits
  <2>3. PICK c \in ClientType :
          /\ c = WithText(client, texts) /\ c.text \subseteq {gen.n}
          /\ c.calls = client.calls /\ c.terminals = 0 /\ c.ended = "no"
    BY <1>1, <2>2, SentFits DEF Untold
  <2>4. blocks' \in BlocksType /\ BlocksClosed'
    BY <2>1, BlocksAfter DEF BlocksClosed
  <2> QED BY <1>0, <1>1, <1>3, <2>1, <2>3, <2>4, AnswerNow, EndsWithError DEF StoreRefuses
<1>4. CASE Defers
  <2>1. PICK err \in Verdicts \cap Errors :
          CanDefer(err, AllowDefer) /\ retry' = [GoTo("decide") EXCEPT !.err = err]
    BY <1>4 DEF Defers
  <2>2. /\ retry' \in RetryType /\ retry'.at = "decide" /\ ~retry'.failed
    BY <1>1, <2>1, AnswerNow DEF GoTo, RetryType, RetryPlaces
  <2>3. UNCHANGED <<gen, client, blocks, record>> /\ ~Delivered
    BY <1>4, <2>1 DEF Defers, CanDefer
  <2>4. OfThisGeneration' /\ TextKept' /\ PlaceFits'
    BY <1>0, <2>2, <2>3
       DEF AnswerInv, OfThisGeneration, TextKept, PlaceFits, LoopAt, Delivered
  <2> QED BY <1>0, <1>1, <2>2, <2>3, <2>4, AnswerNow, GoesOn
<1>5. CASE ReportsError
  <2>1. /\ client' = Terminated(client, "error") /\ record' = "error" /\ UNCHANGED broken
        /\ blocks' = Closed(blocks) /\ Returns
    BY <1>5 DEF ReportsError
  <2>2. blocks' \in BlocksType /\ BlocksClosed'
    BY <2>1, AnswerNow, ClosedBlocks DEF BlocksClosed
  <2> QED BY <1>0, <1>1, <2>1, <2>2, AnswerNow, EndsWithError DEF Untold
<1> QED BY <1>2, <1>3, <1>4, <1>5 DEF Judges

-----------------------------------------------------------------------------
(***************************************************************************)
(* The loop.                                                               *)
(***************************************************************************)

(* The loop goes from one place to another with the same generation.       *)
LEMMA LoopGoes ==
  ASSUME AnswerInv, retry.at \notin {"refused", "end"},
         UNCHANGED <<asked, gen, client, blocks, record, left, broken>>,
         retry' \in RetryType, ~retry'.failed, retry'.at # "end", PlaceFits'
  PROVE  AnswerInv'
<1>1. Untold
  BY UntoldHere
<1>2. OfThisGeneration' /\ TextKept'
  BY DEF AnswerInv, OfThisGeneration, TextKept
<1> QED BY <1>1, <1>2, AnswerNow, GoesOn

LEMMA LeavesLoopStep == ASSUME AnswerInv, LeavesLoop PROVE AnswerInv'
<1>1. Untold
  BY UntoldHere DEF LeavesLoop
<1> QED BY <1>1, EndsUntold DEF LeavesLoop, Untold

LEMMA ConsumesStep == ASSUME AnswerInv, Consumes PROVE AnswerInv'
<1>0. /\ retry.at = "head" /\ retry \in RetryType /\ ~retry.failed
      /\ UNCHANGED <<asked, gen, client, blocks, record, left, broken>>
  BY AnswerNow, UntoldHere DEF Consumes, LoopAt
<1>1. FALSE \in BOOLEAN
  BY Zenon
<1>2. CASE retry' = [GoTo("consume") EXCEPT !.resuming = FALSE, !.err = "none"]
  <2>1. /\ retry' \in RetryType /\ ~retry'.failed /\ retry'.at = "consume" /\ ~retry'.resuming
    BY <1>0, <1>1, <1>2 DEF GoTo, RetryType, RetryPlaces
  <2>2. PlaceFits'
    BY <2>1 DEF PlaceFits, LoopAt
  <2> QED BY <1>0, <2>1, <2>2, LoopGoes
<1>3. CASE /\ gen = Generation(1, FALSE) /\ retry.attempts = 0
           /\ \E err \in {"account", "fatal"} : retry' = [GoTo("switch") EXCEPT !.err = err]
  <2>1. /\ retry' \in RetryType /\ ~retry'.failed /\ retry'.at = "switch"
    BY <1>0, <1>3 DEF GoTo, RetryType, RetryPlaces, Errors, OutputErrors
  <2>2. ~Delivered
    BY <1>0, <1>3 DEF AnswerInv, PlaceFits, LoopAt, Generation
  <2>3. PlaceFits'
    BY <1>0, <2>1, <2>2 DEF PlaceFits, LoopAt, Delivered
  <2> QED BY <1>0, <2>1, <2>3, LoopGoes
<1> QED BY <1>2, <1>3 DEF Consumes

LEMMA DecidesStep == ASSUME AnswerInv, Decides PROVE AnswerInv'
<1>0. /\ retry.at = "decide" /\ retry \in RetryType /\ ~retry.failed
      /\ retry.attempts \in 0..RetryMax /\ RetryMax \in Nat
      /\ retry.resuming \in BOOLEAN /\ (retry.resuming \/ ~Delivered)
      /\ UNCHANGED <<asked, gen, client, blocks, record, left, broken>>
  BY AnswerNow, UntoldHere, AnswerAssumption
     DEF Decides, LoopAt, AnswerInv, PlaceFits, RetryType
<1>1. \/ /\ retry.attempts < RetryMax /\ retry.resuming
         /\ retry' = [GoTo("resume") EXCEPT !.attempts = @ + 1]
      \/ retry.resuming /\ retry' = [GoTo("refused") EXCEPT !.err = "fatal"]
      \/ ~retry.resuming /\ retry' = GoTo("switch")
      \/ /\ retry.attempts < RetryMax /\ ~retry.resuming
         /\ retry' = [GoTo("regenerate") EXCEPT !.attempts = @ + 1]
  <2>1. CASE retry.attempts < RetryMax /\ retry.resuming
    BY <2>1 DEF Decides
  <2>2. CASE retry.attempts = RetryMax
    BY <1>0, <2>2 DEF Decides
  <2>3. CASE retry.attempts < RetryMax /\ ~retry.resuming
    BY <1>0, <2>3 DEF Decides
  <2> QED BY <1>0, <2>1, <2>2, <2>3
<1>2. retry.attempts < RetryMax => retry.attempts + 1 \in 0..RetryMax /\ retry.attempts + 1 # 0
  BY <1>0
<1>3. /\ retry' \in RetryType /\ ~retry'.failed
      /\ \/ retry'.at = "resume" /\ retry'.attempts # 0
         \/ retry'.at = "refused"
         \/ retry'.at \in {"switch", "regenerate"} /\ ~Delivered
  BY <1>0, <1>1, <1>2 DEF GoTo, RetryType, RetryPlaces, Errors
<1>4. PlaceFits'
  BY <1>0, <1>3 DEF PlaceFits, LoopAt, Delivered
<1> QED BY <1>0, <1>3, <1>4, LoopGoes

LEMMA ResumesStep == ASSUME AnswerInv, Resumes PROVE AnswerInv'
<1>0. /\ retry.at = "resume" /\ retry \in RetryType /\ ~retry.failed /\ retry.attempts # 0
      /\ UNCHANGED <<asked, gen, client, blocks, record, left, broken>>
  BY AnswerNow, UntoldHere DEF Resumes, LoopAt, AnswerInv, PlaceFits
<1>1. /\ retry' \in RetryType /\ ~retry'.failed /\ retry'.attempts # 0
      /\ retry'.at \in {"head", "refused"}
  BY <1>0 DEF Resumes, GoTo, RetryType, RetryPlaces, Errors
<1>2. PlaceFits'
  BY <1>1 DEF PlaceFits, LoopAt
<1> QED BY <1>0, <1>1, <1>2, LoopGoes

(* A new generation starts with empty buffers.                             *)
LEMMA BeginsAnew ==
  ASSUME AnswerInv, retry.at \in {"regenerate", "switch"},
         UNCHANGED <<asked, client, blocks, record, left, broken>>,
         gen' = ResetForRegeneration,
         retry' \in RetryType, ~retry'.failed, retry'.at = "head"
  PROVE  AnswerInv'
<1>1. Untold
  BY UntoldHere
<1>2. gen.n + 1 \in Nat \ {0} /\ gen.n + 1 # 1
  BY AnswerNow
<1>3. StillThought \in BOOLEAN
  BY AnswerNow DEF StillThought, GenType
<1>4. /\ gen' \in GenType /\ gen'.n = gen.n + 1 /\ ~gen'.pending
      /\ gen'.raw = {} /\ gen'.markup = {} /\ gen'.sieve = {} /\ gen'.deferred = {}
      /\ gen'.lead = {}
  BY <1>2, <1>3, GenerationTyped DEF ResetForRegeneration
<1>5. client.text = {} /\ client.calls = {}
  BY DEF AnswerInv, PlaceFits, Delivered
<1>6. OfThisGeneration' /\ TextKept'
  BY <1>4, <1>5 DEF OfThisGeneration, TextKept
<1>7. PlaceFits'
  BY <1>2, <1>4 DEF PlaceFits, LoopAt
<1> QED BY <1>1, <1>4, <1>6, <1>7, AnswerNow, GoesOn

LEMMA RegeneratesStep == ASSUME AnswerInv, Regenerates PROVE AnswerInv'
<1>0. /\ retry.at = "regenerate" /\ retry \in RetryType /\ ~retry.failed /\ ~Delivered
      /\ UNCHANGED <<asked, client, blocks, record, left, broken>>
  BY AnswerNow, UntoldHere DEF Regenerates, LoopAt, AnswerInv, PlaceFits
<1>1. CASE gen' = ResetForRegeneration /\ retry' = GoTo("head")
  <2>1. retry' \in RetryType /\ ~retry'.failed /\ retry'.at = "head"
    BY <1>0, <1>1 DEF GoTo, RetryType, RetryPlaces
  <2> QED BY <1>0, <1>1, <2>1, BeginsAnew
<1>2. CASE /\ \E err \in {"account", "fatal"} : retry' = [GoTo("switch") EXCEPT !.err = err]
           /\ UNCHANGED gen
  <2>1. retry' \in RetryType /\ ~retry'.failed /\ retry'.at = "switch"
    BY <1>0, <1>2 DEF GoTo, RetryType, RetryPlaces, Errors, OutputErrors
  <2>2. PlaceFits'
    BY <1>0, <2>1 DEF PlaceFits, LoopAt, Delivered
  <2> QED BY <1>0, <1>2, <2>1, <2>2, LoopGoes
<1> QED BY <1>1, <1>2 DEF Regenerates

(* The change of account is paid for.                                      *)
LEMMA SwitchTyped ==
  ASSUME retry \in RetryType, NEW place \in RetryPlaces, NEW failed \in BOOLEAN,
         NEW alternates \in 0..Alternates,
         retry' = [retry EXCEPT !.at = place, !.alternates = alternates,
                                !.once = OnceSpent, !.failed = failed]
  PROVE  retry' \in RetryType /\ retry'.at = place /\ retry'.failed = failed
<1>1. OnceSpent \in BOOLEAN
  <2>1. \A x, y : x \in BOOLEAN => (x \/ (y /\ ~left /\ retry.err \in OnceErrors)) \in BOOLEAN
    BY Zenon
  <2> QED BY <2>1, Zenon DEF OnceSpent
<1> QED BY <1>1 DEF RetryType

LEMMA SwitchesAccountStep == ASSUME AnswerInv, SwitchesAccount PROVE AnswerInv'
<1>0. /\ retry.at = "switch" /\ retry \in RetryType /\ ~retry.failed
      /\ retry.failed \in BOOLEAN
  BY AnswerNow, UntoldHere DEF SwitchesAccount, LoopAt, RetryType
<1>1. retry.alternates - 1 \in 0..Alternates
  BY <1>0, AnswerAssumption DEF SwitchesAccount, RetryType
<1>2. retry' = [retry EXCEPT !.at = "head", !.alternates = retry.alternates - 1,
                             !.once = OnceSpent, !.failed = retry.failed]
  BY <1>0 DEF SwitchesAccount, GoTo, RetryType
<1>3. retry' \in RetryType /\ ~retry'.failed /\ retry'.at = "head"
  <2>1. "head" \in RetryPlaces
    BY DEF RetryPlaces
  <2> QED BY ONLY <1>0, <1>1, <1>2, <2>1, SwitchTyped
<1> QED BY <1>0, <1>3, BeginsAnew DEF SwitchesAccount

LEMMA NoOtherAccountStep == ASSUME AnswerInv, NoOtherAccount PROVE AnswerInv'
<1>0. /\ retry.at = "switch" /\ retry \in RetryType /\ ~retry.failed
      /\ retry.failed \in BOOLEAN /\ retry.alternates \in 0..Alternates
      /\ UNCHANGED <<asked, gen, client, blocks, record, left, broken>>
  BY AnswerNow, UntoldHere DEF NoOtherAccount, LoopAt, RetryType
<1>1. retry' = [retry EXCEPT !.at = "refused", !.alternates = retry.alternates,
                             !.once = OnceSpent, !.failed = retry.failed]
  BY <1>0 DEF NoOtherAccount, GoTo, RetryType
<1>2. retry' \in RetryType /\ ~retry'.failed /\ retry'.at = "refused"
  <2>1. "refused" \in RetryPlaces
    BY DEF RetryPlaces
  <2> QED BY ONLY <1>0, <1>1, <2>1, SwitchTyped
<1>3. PlaceFits'
  BY <1>2 DEF PlaceFits, LoopAt
<1> QED BY <1>0, <1>2, <1>3, LoopGoes

(* A failure that is reported.                                             *)
LEMMA FailFits ==
  ASSUME AnswerInv, Untold, Fail, UNCHANGED <<asked, left, broken>>
  PROVE  /\ client' \in ClientType /\ blocks' \in BlocksType
         /\ client'.text = client.text /\ client'.calls = client.calls
         /\ ToldOfFailure'
<1>1. CASE left
  BY <1>1, AnswerNow DEF Fail, Untold, ToldOfFailure
<1>2. CASE ~left
  <2>1. /\ client' = Terminated(client, "error")
        /\ blocks' = IF asked.on = "claude" THEN Closed(blocks) ELSE blocks
        /\ record' = IF asked.on = "gemini" THEN record ELSE "error"
    BY <1>2 DEF Fail
  <2>2. blocks' \in BlocksType /\ (asked.on = "claude" => BlocksClosed')
    BY <2>1, AnswerNow, ClosedBlocks DEF BlocksClosed
  <2>3. /\ client' \in ClientType /\ client'.text = client.text /\ client'.calls = client.calls
        /\ IF broken THEN client'.terminals = 0 /\ client'.ended = "no"
                     ELSE client'.terminals = 1 /\ client'.ended = "error"
    BY <2>1, AnswerNow, TerminatedFits DEF Untold
  <2> QED BY <2>1, <2>2, <2>3 DEF ToldOfFailure, Untold
<1> QED BY <1>1, <1>2

LEMMA AlternateFailsStep == ASSUME AnswerInv, AlternateFails PROVE AnswerInv'
<1>0. /\ retry.at = "switch" /\ retry \in RetryType /\ Untold /\ TRUE \in BOOLEAN
      /\ UNCHANGED <<asked, gen, left, broken>> /\ "refused" \in RetryPlaces
  <2>1. TRUE \in BOOLEAN
    BY Zenon
  <2> QED BY <2>1, AnswerNow, UntoldHere DEF AlternateFails, LoopAt, RetryPlaces
<1>1. retry.alternates - 1 \in 0..Alternates
  BY <1>0, AnswerAssumption DEF AlternateFails, RetryType
<1>2. retry' = [retry EXCEPT !.at = "refused", !.alternates = retry.alternates - 1,
                             !.once = OnceSpent, !.failed = TRUE]
  BY <1>0 DEF AlternateFails, GoTo, RetryType
<1>3. retry' \in RetryType /\ retry'.failed = TRUE /\ retry'.at = "refused"
  BY ONLY <1>0, <1>1, <1>2, SwitchTyped
<1>4. /\ client' \in ClientType /\ blocks' \in BlocksType
      /\ client'.text = client.text /\ client'.calls = client.calls /\ ToldOfFailure'
  BY <1>0, FailFits DEF AlternateFails
<1>5. AnswerShape'
  BY <1>0, <1>3, <1>4 DEF AnswerInv, AnswerShape, ToldOfFailure
<1>6. OfThisGeneration' /\ TextKept' /\ PlaceFits'
  BY <1>0, <1>3, <1>4 DEF AnswerInv, OfThisGeneration, TextKept, PlaceFits, LoopAt
<1>7. ToldFits'
  BY <1>3, <1>4 DEF ToldFits, LoopAt
<1> QED BY <1>5, <1>6, <1>7 DEF AnswerInv

LEMMA RefusedStep == ASSUME AnswerInv, Refused PROVE AnswerInv'
<1>0. /\ LoopAt("refused") /\ Returns /\ UNCHANGED <<asked, left, broken>>
      /\ IF retry.failed THEN ToldOfFailure ELSE Untold
  BY DEF Refused, AnswerInv, ToldFits
<1>1. /\ client' \in ClientType /\ blocks' \in BlocksType
      /\ client'.text = client.text /\ client'.calls = client.calls
      /\ ToldOfFailure'
  <2>1. CASE retry.failed
    <3>1. UNCHANGED <<client, blocks, record>>
      BY <2>1 DEF Refused, FailsOnce
    <3> QED BY <1>0, <2>1, <3>1, AnswerNow DEF ToldOfFailure, BlocksClosed
  <2>2. CASE ~retry.failed
    BY <1>0, <2>2, FailFits DEF Refused, FailsOnce
  <2> QED BY <2>1, <2>2
<1>2. ToldAtEnd' /\ record' \in {"streaming", "stopped", "success", "error"}
  BY <1>1 DEF ToldOfFailure, ToldAtEnd
<1> QED BY <1>0, <1>1, <1>2, AnswerNow, Ended

(* A client that leaves, or a socket that breaks, tells nobody anything.   *)
LEMMA ClientGoneStep == ASSUME AnswerInv, ClientLeaves \/ SocketBreaks PROVE AnswerInv'
<1>1. /\ UNCHANGED <<asked, retry, gen, client, blocks, record>>
      /\ left => left'
      /\ broken => broken'
  BY DEF ClientLeaves, SocketBreaks
<1> QED BY <1>1
        DEF AnswerInv, AnswerShape, OfThisGeneration, TextKept, PlaceFits, Delivered, LoopAt,
            ToldFits, Untold, ToldOfFailure, ToldAtEnd, BlocksClosed

LEMMA AnswerStep == AnswerInv /\ [AnswerNext]_answerVars => AnswerInv'
<1> SUFFICES ASSUME AnswerInv, [AnswerNext]_answerVars PROVE AnswerInv'
  OBVIOUS
<1>1. CASE UNCHANGED answerVars
  BY <1>1 DEF answerVars, AnswerInv, AnswerShape, OfThisGeneration, TextKept, PlaceFits,
              Delivered, LoopAt, ToldFits, Untold, ToldOfFailure, ToldAtEnd, BlocksClosed
<1> QED BY <1>1, PartStep, ConsumeEndsStep, FlushStep, JudgesStep, LeavesLoopStep,
           ConsumesStep, DecidesStep, ResumesStep, RegeneratesStep, SwitchesAccountStep,
           NoOtherAccountStep, AlternateFailsStep, RefusedStep, ClientGoneStep
        DEF AnswerNext, AnswerSteps

LEMMA OneAnswerSafe ==
  ASSUME AnswerInv PROVE OneAnswer
<1>1. Cardinality(client.text \cup client.calls) <= 1
  <2>1. IsFiniteSet({gen.n}) /\ Cardinality({gen.n}) = 1
    BY FS_Singleton
  <2>2. client.text \cup client.calls \subseteq {gen.n}
    BY AnswerNow
  <2> QED BY <2>1, <2>2, FS_Subset
<1>2. client.ended = "done" => client.text \cup client.calls = {gen.n}
  BY DEF AnswerInv, ToldFits, Untold, ToldOfFailure, ToldAtEnd, LoopAt
<1> QED BY <1>1, <1>2 DEF OneAnswer

(* However often an answer is resumed, regenerated or generated elsewhere, *)
(* on whatever protocol: the client sees text and calls of one generation, *)
(* and those of the last one if it is told that the answer is complete.    *)
THEOREM OneAnswerHolds == AnswerSpec => []OneAnswer
BY AnswerInitInv, AnswerStep, OneAnswerSafe, PTL DEF AnswerSpec

LEMMA OneTerminalSafe ==
  ASSUME AnswerInv PROVE OneTerminal
<1>1. DOMAIN blocks = {"thinking", "text"}
  BY AnswerNow DEF BlocksType
<1>2. record \in {"streaming", "stopped", "success", "error"}
  BY AnswerNow
<1>3. CASE retry.at \notin {"refused", "end"}
  BY <1>1, <1>3 DEF AnswerInv, ToldFits, Untold, LoopAt, OneTerminal
<1>4. CASE LoopAt("refused")
  BY <1>1, <1>4
     DEF AnswerInv, ToldFits, Untold, ToldOfFailure, BlocksClosed, LoopAt, OneTerminal
<1>5. CASE LoopAt("end")
  BY <1>1, <1>5 DEF AnswerInv, ToldFits, ToldAtEnd, BlocksClosed, LoopAt, OneTerminal
<1> QED BY <1>3, <1>4, <1>5 DEF LoopAt

(* Whatever fails, is tried again or breaks off: the client is told once   *)
(* how the answer ended, and the history says what the client was told.    *)
THEOREM OneTerminalHolds == AnswerSpec => []OneTerminal
BY AnswerInitInv, AnswerStep, OneTerminalSafe, PTL DEF AnswerSpec
=============================================================================
