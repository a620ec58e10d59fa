----------------------------- MODULE MCRequestPath -----------------------------
(***************************************************************************)
(* A managed request and what it uses on its way, checked in one run: the  *)
(* account it works on, the helper process behind its proxy, its uploads,  *)
(* the segments of its prompt, the rounds of its answer, the loops that    *)
(* stream or collect the answer, and the voice that reads it aloud.  A     *)
(* behaviour belongs to one of them, its subject, and leaves the variables *)
(* of the others alone.  They share none: what one does to another is an   *)
(* input there that is left open (a helper may exit, a leader's identity   *)
(* change, an error be any error).                                         *)
(***************************************************************************)
EXTENDS MCManagedRequest, BridgeRegistry, UploadReuse, AnswerStream,
        AutoContinue, SegmentedPrompt, CollectedAnswer, SpeechVoice

CONSTANTS o1, o2, o3

(* Two tokens of one account, and another account.                         *)
TwoAccounts == (o1 :> "first") @@ (o2 :> "first") @@ (o3 :> "second")

VARIABLE subject

Subjects == {"request", "bridges", "uploads", "answer", "rounds", "segments", "collected",
             "speech"}
AroundVars == <<bridgeVars, uploadVars, voiceVars>>
AnswerVars == <<answerVars, continueVars, segmentVars, collectVars>>
pathVars == <<subject, vars, AroundVars, AnswerVars>>
SomeAnswer == [on |-> "chat", hold |-> FALSE, managed |-> FALSE]

(* The parts that are not the subject rest in one initial state.           *)
PathInit ==
  /\ subject \in Subjects
  /\ Init /\ BridgeInit /\ UploadInit /\ ContinueInit /\ SegmentInit
  /\ AnswerInit /\ (subject # "answer" => asked = SomeAnswer)
  /\ CollectInit /\ (subject # "collected" => ~loop.managed)
  /\ VoiceInit
  /\ subject # "speech" =>
       voice.up = (CHOOSE v \in Voices : TRUE) /\ ~\E s \in Speakers : Demands(s)

Rest(part, variables) == IF subject = part THEN TRUE ELSE UNCHANGED variables

Alone(part) ==
  /\ subject = part /\ UNCHANGED subject
  /\ Rest("request", vars) /\ Rest("bridges", bridgeVars) /\ Rest("uploads", uploadVars)
  /\ Rest("answer", answerVars) /\ Rest("rounds", continueVars)
  /\ Rest("segments", segmentVars) /\ Rest("collected", collectVars)
  /\ Rest("speech", voiceVars)

PathNext ==
  \/ Alone("request") /\ Next
  \/ Alone("bridges") /\ BridgeNext
  \/ Alone("uploads") /\ UploadNext
  \/ Alone("answer") /\ AnswerNext
  \/ Alone("rounds") /\ ContinueNext
  \/ Alone("segments") /\ SegmentNext
  \/ Alone("collected") /\ CollectNext
  \/ Alone("speech") /\ VoiceNext

(* The fairness of each part, as its own specification states it.  (A      *)
(* behaviour keeps its subject, so that one condition states what is       *)
(* assumed of several parts.)                                              *)
PathMoves ==
  \/ Alone("bridges") /\ CloserSteps
  \/ Alone("answer") /\ (ConsumeEnds \/ AnswerSteps)
  \/ Alone("rounds") /\ PumpWorks
  \/ Alone("segments") /\ SegmentWaits
  \/ Alone("collected") /\ CollectNext
  \/ Alone("speech") /\ SpeakerSteps

PathClears ==
  \/ Alone("bridges") /\ ReapedStops
  \/ Alone("segments") /\ DrainEnds

PathSpec ==
  /\ PathInit /\ [][PathNext]_pathVars
  /\ \A r \in Requests : WF_vars(subject = "request" /\ Step(r))
  /\ \A d \in Dialers : WF_bridgeVars(subject = "bridges" /\ DialerEnds(d))
  /\ \A u \in Uploaders : WF_uploadVars(subject = "uploads" /\ UploadSteps(u))
  /\ WF_pathVars(PathMoves) /\ WF_pathVars(PathClears)

PathTypesOK ==
  CASE subject = "request" -> TypeOK
    [] subject = "bridges" -> BridgeTypeOK
    [] subject = "uploads" -> UploadTypeOK
    [] subject = "answer" -> AnswerTypeOK
    [] subject = "rounds" -> ContinueTypeOK
    [] subject = "segments" -> SegmentTypeOK
    [] subject = "collected" -> CollectTypeOK
    [] subject = "speech" -> VoiceTypeOK

(* Nothing that is begun is left unfinished: a request that recovers from  *)
(* a failure comes back to its work or gives up, CloseAll returns, whoever *)
(* uploads is told a result, an answer comes to its end, streamed or       *)
(* collected, what reads a response ends with whom it reads for, and who   *)
(* is to speak speaks or fails.  (A behaviour keeps its subject, so that   *)
(* one []<> serves several parts.)                                         *)
Rests ==
  CASE subject = "request" -> \A r \in Requests : at[r].pc \in {"out", "serve"}
    [] subject = "bridges" -> closing.at # "stopping"
    [] subject = "answer" -> AnswerOver
    [] subject = "rounds" -> PumpFollows
    [] subject = "segments" -> DrainRests
    [] subject = "collected" -> CollectOver
    [] subject = "speech" -> SpeechOver
    [] OTHER -> TRUE
PathEnds == []<>Rests /\ UploadsEnd
=============================================================================
