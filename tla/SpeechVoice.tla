------------------------------ MODULE SpeechVoice ------------------------------
(***************************************************************************)
(* The voice of a speech (deepseek/client/client_tts, client_tts_settings).*)
(* A message is read aloud in the voice its account is set to upstream, so *)
(* that a caller who wants another voice sets it first, and holds a lock   *)
(* until its stream is ready, which fixes the voice.  The last voice this  *)
(* process has set is remembered and not set again.                        *)
(*                                                                         *)
(* One account.  Its voice may also be changed from outside, by the web    *)
(* client, or by a request to set it whose reply is lost.                  *)
(***************************************************************************)
EXTENDS Naturals

CONSTANTS
  Speakers,       \* concurrent calls of SynthesizeSpeech, one each
  Voices,
  AnyVoice,       \* a caller that does not mind
  MaxStrays       \* changes from outside (bound)

ASSUME VoiceAssumption ==
  AnyVoice \notin Voices /\ AnyVoice \notin Speakers /\ MaxStrays \in Nat

VARIABLES
  voice,        \* upstream's voice; astray if not as last set; changes so far
  known,        \* ttsVoiceKnown
  voiceLock,    \* ttsVoiceLocks
  speaker

voiceVars == <<voice, known, voiceLock, speaker>>

SpeechAttempts == 3
SpeakerPlaces == {"start", "known", "set", "remember", "open", "ready", "mismatch",
                  "read", "spoken", "failed"}

VoiceTypeOK ==
  /\ voice \in [up : Voices, astray : BOOLEAN, strays : 0..MaxStrays]
  /\ known \in Voices \cup {AnyVoice}
  /\ voiceLock \in Speakers \cup {AnyVoice}
  /\ speaker \in [Speakers -> [at : SpeakerPlaces, wants : Voices \cup {AnyVoice},
                               attempt : 1..SpeechAttempts, fixed : Voices,
                               reported : BOOLEAN, mismatches : 0..SpeechAttempts]]

(* Nothing is known (AnyVoice) and nobody has the lock at first.           *)
VoiceInit ==
  /\ \E v \in Voices :
       /\ voice = [up |-> v, astray |-> FALSE, strays |-> 0]
       /\ speaker \in [Speakers -> [at : {"start"}, wants : Voices \cup {AnyVoice},
                                    attempt : {1}, fixed : {v},
                                    reported : {FALSE}, mismatches : {0}]]
  /\ known = AnyVoice /\ voiceLock = AnyVoice

-----------------------------------------------------------------------------

SpeakerAt(s, place) == speaker[s].at = place
Demands(s) == speaker[s].wants # AnyVoice
SpeakerTo(s, place) == speaker' = [speaker EXCEPT ![s].at = place]

VoiceUnlocked(s) == IF voiceLock = s THEN AnyVoice ELSE voiceLock

(* Only who wants a certain voice locks.  The wait cannot be cancelled.    *)
TakesVoiceLock(s) ==
  /\ SpeakerAt(s, "start")
  /\ \/ Demands(s) /\ voiceLock = AnyVoice /\ voiceLock' = s /\ SpeakerTo(s, "known")
     \/ ~Demands(s) /\ SpeakerTo(s, "open") /\ UNCHANGED voiceLock
  /\ UNCHANGED <<voice, known>>

LooksUpVoice(s) ==
  /\ SpeakerAt(s, "known")
  /\ SpeakerTo(s, IF known = speaker[s].wants THEN "open" ELSE "set")
  /\ UNCHANGED <<voice, known, voiceLock>>

SetsVoice(s) ==
  /\ SpeakerAt(s, "set")
  /\ voice' = [voice EXCEPT !.up = speaker[s].wants, !.astray = FALSE]
  /\ SpeakerTo(s, "remember")
  /\ UNCHANGED <<known, voiceLock>>

SpeechFails(s) == SpeakerTo(s, "failed") /\ voiceLock' = VoiceUnlocked(s)

(* Setting the voice fails for good, applied or not.                       *)
SetFails(s) ==
  /\ SpeakerAt(s, "set")
  /\ SpeechFails(s)
  /\ \/ UNCHANGED voice
     \/ /\ voice.strays < MaxStrays
        /\ voice' = [up |-> speaker[s].wants, astray |-> TRUE, strays |-> voice.strays + 1]
  /\ UNCHANGED known

RemembersVoice(s) ==
  /\ SpeakerAt(s, "remember")
  /\ known' = speaker[s].wants
  /\ SpeakerTo(s, "open")
  /\ UNCHANGED <<voice, voiceLock>>

(* A ticket, and a connection.                                             *)
OpensStream(s) ==
  /\ SpeakerAt(s, "open")
  /\ \/ SpeakerTo(s, "ready") /\ UNCHANGED voiceLock
     \/ SpeechFails(s)
  /\ UNCHANGED <<voice, known>>

(* The stream is ready in the voice the account has now, which it may not  *)
(* report; the lock is given back.                                         *)
StreamReady(s) ==
  /\ SpeakerAt(s, "ready")
  /\ \E reported \in BOOLEAN :
       LET strange == reported /\ Demands(s) /\ voice.up # speaker[s].wants
       IN speaker' = [speaker EXCEPT ![s].at = IF strange THEN "mismatch" ELSE "read",
                                     ![s].fixed = voice.up, ![s].reported = reported,
                                     ![s].mismatches = @ + (IF strange THEN 1 ELSE 0)]
  /\ voiceLock' = VoiceUnlocked(s)
  /\ UNCHANGED <<voice, known>>

(* After a pause the speaker tries again, unless it has tried often enough *)
(* or its caller has gone.                                                 *)
SpeaksAgain(s) ==
  \/ /\ speaker[s].attempt < SpeechAttempts
     /\ speaker' = [speaker EXCEPT ![s].at = "start", ![s].attempt = @ + 1]
  \/ SpeakerTo(s, "failed")

(* The service's own errors are tried again, others are not.               *)
ReadyFails(s) ==
  /\ SpeakerAt(s, "ready")
  /\ SpeaksAgain(s) /\ voiceLock' = VoiceUnlocked(s)
  /\ UNCHANGED <<voice, known>>

\* Faulty variant: what was set once counts as set.
StillKnown == known

Forgotten == AnyVoice

(* The voice was changed behind the process's back.  (This is done without *)
(* the lock.)                                                              *)
ForgetsVoice(s) ==
  /\ SpeakerAt(s, "mismatch")
  /\ known' = Forgotten
  /\ SpeaksAgain(s)
  /\ UNCHANGED <<voice, voiceLock>>

ReadsSpeech(s) ==
  /\ SpeakerAt(s, "read")
  /\ SpeakerTo(s, "spoken") \/ SpeaksAgain(s)
  /\ UNCHANGED <<voice, known, voiceLock>>

(* External: the web client, or a request that is late.                    *)
VoiceStrays ==
  /\ voice.strays < MaxStrays
  /\ \E v \in Voices \ {voice.up} :
       voice' = [up |-> v, astray |-> TRUE, strays |-> voice.strays + 1]
  /\ UNCHANGED <<known, voiceLock, speaker>>

SpeakerSteps ==
  \E s \in Speakers :
    \/ TakesVoiceLock(s) \/ LooksUpVoice(s) \/ SetsVoice(s) \/ SetFails(s)
    \/ RemembersVoice(s) \/ OpensStream(s) \/ StreamReady(s) \/ ReadyFails(s)
    \/ ForgetsVoice(s) \/ ReadsSpeech(s)

VoiceNext == SpeakerSteps \/ VoiceStrays

VoiceSpec == VoiceInit /\ [][VoiceNext]_voiceVars /\ WF_voiceVars(SpeakerSteps)

-----------------------------------------------------------------------------

(* When a stream becomes ready its account has the voice its caller wants, *)
(* whatever other callers want, unless the voice was changed from outside  *)
(* since it was set; who is told so is not given the speech, and a change  *)
(* from outside costs no caller more than one attempt.                     *)
VoiceAsAsked ==
  \A s \in Speakers :
    /\ SpeakerAt(s, "ready") /\ Demands(s) => voice.up = speaker[s].wants \/ voice.astray
    /\ SpeakerAt(s, "spoken") /\ Demands(s) /\ speaker[s].reported =>
         speaker[s].fixed = speaker[s].wants
    /\ speaker[s].mismatches <= voice.strays

(* Nobody waits for the lock for ever.                                     *)
SpeechOver == \A s \in Speakers : speaker[s].at \in {"spoken", "failed"}
SpeechEnds == []<>SpeechOver
=============================================================================
