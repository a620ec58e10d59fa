---------------------------- MODULE SegmentedPrompt ----------------------------
(***************************************************************************)
(* A prompt that is sent in segments (completionruntime/segments.go,       *)
(* deepseek/client/client_stop_stream.go, client_stop_stream_scan.go).     *)
(* Each segment but the last is a completion of its own, which is stopped  *)
(* as soon as the service has begun to answer it; the next one names the   *)
(* message of that answer as its parent.                                   *)
(*                                                                         *)
(* Two goroutines per segment: the request reads the head of the stream up *)
(* to the message's identifier, waits for content, stops the message and   *)
(* waits for the end of the stream; the drain reads what follows the head. *)
(* The identifier of a message is the number of its segment, and the       *)
(* stream of a segment is that of the last one sent.                       *)
(***************************************************************************)
EXTENDS Naturals

CONSTANT Segments     \* segments of the prompt (bound)

ASSUME SegmentAssumption == Segments \in Nat \ {0, 1}

VARIABLES
  segment,    \* the request: which segment it is at, and where
  parent,     \* parentMessageID
  stream,     \* this segment's answer, as the service gives it
  drain       \* the drain's goroutine, contentCh and drainDone

segmentVars == <<segment, parent, stream, drain>>

Waits == {"content", "stop", "close"}

SegmentTypeOK ==
  /\ segment \in [n : 1..Segments, content : BOOLEAN,
                  at : Waits \cup {"send", "head", "answered", "failed"}]
  /\ parent \in 0..Segments
  /\ stream \in [content : BOOLEAN, stopped : BOOLEAN, open : BOOLEAN, body : BOOLEAN]
  /\ drain \in [content : BOOLEAN, on : BOOLEAN, done : BOOLEAN]

NoStream == [content |-> FALSE, stopped |-> FALSE, open |-> FALSE, body |-> FALSE]
NoDrain == [content |-> FALSE, on |-> FALSE, done |-> FALSE]

SegmentInit ==
  /\ segment = [n |-> 1, content |-> FALSE, at |-> "send"] /\ parent = 0
  /\ stream = NoStream /\ drain = NoDrain

-----------------------------------------------------------------------------

SegmentAt(place) == segment.at = place

(* FireCompletionAndStop returns, and closes the body of its response.     *)
SegmentFails ==
  /\ segment' = [segment EXCEPT !.at = "failed"]
  /\ stream' = [stream EXCEPT !.body = FALSE]

(* The proof of work and the completion may fail; the last segment's       *)
(* completion is the answer.                                               *)
SendSegment ==
  /\ SegmentAt("send")
  /\ \/ SegmentFails /\ UNCHANGED drain
     \/ /\ segment.n < Segments
        /\ segment' = [segment EXCEPT !.at = "head", !.content = FALSE]
        /\ stream' = [NoStream EXCEPT !.open = TRUE, !.body = TRUE]
        /\ drain' = NoDrain
     \/ /\ segment.n = Segments
        /\ segment' = [segment EXCEPT !.at = "answered"]
        /\ UNCHANGED <<stream, drain>>
  /\ UNCHANGED parent

(* scanSegmentHead: content may come before the identifier.                *)
HeadContent ==
  /\ SegmentAt("head")
  /\ segment' = [segment EXCEPT !.content = TRUE]
  /\ stream' = [stream EXCEPT !.content = TRUE]
  /\ UNCHANGED <<parent, drain>>

(* From here on the drain reads.                                           *)
HeadIdentifier ==
  /\ SegmentAt("head")
  /\ segment' = [segment EXCEPT !.at = IF segment.content THEN "stop" ELSE "content"]
  /\ drain' = [NoDrain EXCEPT !.on = TRUE]
  /\ UNCHANGED <<parent, stream>>

(* The service reports an error or filters the segment; or the stream ends *)
(* or breaks before the identifier has come.                               *)
HeadFails ==
  /\ SegmentAt("head")
  /\ SegmentFails
  /\ UNCHANGED <<parent, drain>>

-----------------------------------------------------------------------------
(* The drain.                                                              *)

DrainContent ==
  /\ drain.on /\ stream.open /\ stream.body
  /\ drain' = [drain EXCEPT !.content = TRUE]
  /\ stream' = [stream EXCEPT !.content = TRUE]
  /\ UNCHANGED <<segment, parent>>

(* The service closes the stream.  Errors it reports here are noted only.  *)
StreamCloses ==
  /\ drain.on /\ stream.open /\ stream.body
  /\ stream' = [stream EXCEPT !.open = FALSE]
  /\ UNCHANGED <<segment, parent, drain>>

(* The end of the stream is read.  (A stream that breaks counts as ended.) *)
DrainEnds ==
  /\ drain.on /\ ~(stream.open /\ stream.body)
  /\ drain' = [drain EXCEPT !.on = FALSE, !.done = TRUE]
  /\ UNCHANGED <<segment, parent, stream>>

-----------------------------------------------------------------------------
(* The request.  A select takes any of its cases that is ready.            *)

ContentCame ==
  /\ SegmentAt("content") /\ drain.content
  /\ segment' = [segment EXCEPT !.at = "stop", !.content = TRUE]
  /\ drain' = [drain EXCEPT !.content = FALSE]
  /\ UNCHANGED <<parent, stream>>

(* The stream is over, so that the message is not to be trusted (even if   *)
(* content is there to be received as well), the wait has lasted too long, *)
(* or the request's context has ended.                                     *)
ContentMissed ==
  /\ SegmentAt("content")
  /\ SegmentFails
  /\ UNCHANGED <<parent, drain>>

StopStream ==
  /\ SegmentAt("stop")
  /\ segment' = [segment EXCEPT !.at = "close"]
  /\ stream' = [stream EXCEPT !.stopped = TRUE]
  /\ UNCHANGED <<parent, drain>>

StopRefused ==
  /\ SegmentAt("stop")
  /\ SegmentFails
  /\ UNCHANGED <<parent, drain>>

\* Faulty variant: the next segment is sent as soon as the stop is acknowledged.
StopAcknowledged == SegmentAt("close")
StreamDrained == SegmentAt("close") /\ drain.done

(* The message is the next segment's parent.                               *)
NextSegment ==
  /\ StreamDrained
  /\ segment' = [segment EXCEPT !.n = @ + 1, !.at = "send", !.content = FALSE]
  /\ parent' = segment.n
  /\ stream' = [stream EXCEPT !.body = FALSE]
  /\ UNCHANGED drain

StaysOpen ==
  /\ SegmentAt("close")
  /\ SegmentFails
  /\ UNCHANGED <<parent, drain>>

(* The waits have a time limit, and so has the stop.  Nothing but its      *)
(* connection limits the reading of the head.                              *)
SegmentWaits ==
  \/ ContentCame \/ ContentMissed \/ StopStream \/ StopRefused
  \/ NextSegment \/ StaysOpen

SegmentNext ==
  \/ SendSegment \/ HeadContent \/ HeadIdentifier \/ HeadFails
  \/ DrainContent \/ StreamCloses \/ DrainEnds \/ SegmentWaits

SegmentSpec ==
  /\ SegmentInit /\ [][SegmentNext]_segmentVars
  /\ WF_segmentVars(SegmentWaits) /\ WF_segmentVars(DrainEnds)

-----------------------------------------------------------------------------

(* A segment goes on from the message of the one before it, and that       *)
(* message has had content, was stopped, and its stream is over: the       *)
(* service knows it, and is not still at work on it.                       *)
ParentSettled ==
  SegmentAt("send") /\ segment.n > 1 =>
    /\ parent = segment.n - 1
    /\ stream.content /\ stream.stopped /\ ~stream.open
    /\ ~drain.on

(* Every drain comes to its end, however its segment has ended.            *)
DrainRests == ~drain.on
DrainsEnd == []<>DrainRests
=============================================================================
