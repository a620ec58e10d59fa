------------------------------ MODULE StreamPump ------------------------------
(***************************************************************************)
(* One upstream stream on its way to a handler (sse/stream.go,             *)
(* sse/cancel_body.go, stream/engine.go).  Three goroutines: the scanner   *)
(* reads lines from the body; the pump collects their content, thinking    *)
(* and text apart, and sends it on in batches; ConsumeSSE hands each batch *)
(* to the handler's hooks and decides how the stream has ended.  Channels  *)
(* join them and one context ends them.                                    *)
(*                                                                         *)
(* A line is known by its number; its content is delivered as a whole.     *)
(* (The few characters of a delimiter that ThinkingBoundary holds back     *)
(* until the next line count as part of their line.)  When a batch is long *)
(* enough, or begins a line, is left open.  Lines without content and the  *)
(* hooks' own retries on a new body are left out.                          *)
(***************************************************************************)
EXTENDS Naturals, Sequences, SequencesExt

CONSTANTS
  MaxLines,   \* lines upstream sends (bound)
  ChanCap     \* parsedLineBufferSize

ASSUME PumpAssumption == MaxLines \in Nat /\ ChanCap \in Nat \ {0}

VARIABLES
  read,       \* the kinds of the lines that were read
  scan,       \* the scanner: "reading", "sending" or "closed" (scanCh)
  scanErr,    \* what it puts in scanDone
  scanCh,     \* lines on their way to the pump
  thinking, text,   \* the pump's buffers
  emit,       \* what the pump is sending: batches and the end
  out,        \* results on their way to the consumer
  pump,       \* the pump: "loop", "done" (the label), "closing" or "over"
  pumpErr,    \* why the pump ends
  terminalSeen,
  report,     \* what the pump puts in done
  body,       \* "open" or "closed"
  callback,   \* closeStreamBodyOnCancel's AfterFunc: "armed" or "stopped"
  gone,       \* the caller's context has ended
  outcome,    \* how ConsumeSSE has ended, or "none"
  delivered   \* the lines whose content the hooks were given, in order

streamVars == <<read, scan, scanErr, scanCh, thinking, text, emit, out, pump, pumpErr,
                terminalSeen, report, body, callback, gone, outcome, delivered>>
scanVars == <<read, scan, scanErr>>
pumpVars == <<thinking, text, emit, pump, pumpErr, terminalSeen, report>>
consumerVars == <<gone, outcome, delivered>>
bodyVars == <<body, callback>>

(* "snapshot": content that replaces what was sent; "stopThink": a line    *)
(* that ends the answer and brings thinking with it.                       *)
Kinds == {"text", "think", "snapshot", "stop", "stopThink"}
Stops == {"stop", "stopThink"}
LineNumbers == SeqOf(1..MaxLines, MaxLines)
Batches == [lines : LineNumbers, stop : BOOLEAN]
Outcomes == {"none", "stopped", "completed", "interrupted", "limit", "cut", "cancelled"}

PumpTypeOK ==
  /\ read \in SeqOf(Kinds, MaxLines) /\ scanCh \in LineNumbers
  /\ scan \in {"reading", "sending", "closed"}
  /\ scanErr \in {"none", "eof", "failed", "limit"}
  /\ thinking \in LineNumbers /\ text \in LineNumbers /\ delivered \in LineNumbers
  /\ Len(scanCh) <= ChanCap /\ Len(out) <= ChanCap
  /\ ToSet(emit) \cup ToSet(out) \subseteq Batches
  /\ pump \in {"loop", "done", "closing", "over"}
  /\ pumpErr \in {"none", "failed", "limit"}
  /\ report \in {"none", "ok", "failed", "limit", "unexpected EOF"}
  /\ body \in {"open", "closed"} /\ callback \in {"armed", "stopped"}
  /\ terminalSeen \in BOOLEAN /\ gone \in BOOLEAN /\ outcome \in Outcomes

PumpInit ==
  /\ read = <<>> /\ scan = "reading" /\ scanErr = "none" /\ scanCh = <<>>
  /\ thinking = <<>> /\ text = <<>> /\ emit = <<>> /\ out = <<>>
  /\ pump = "loop" /\ pumpErr = "none" /\ terminalSeen = FALSE /\ report = "none"
  /\ body = "open" /\ callback = "armed"
  /\ gone = FALSE /\ outcome = "none" /\ delivered = <<>>

(* pumpCtx: the caller's context, and finalize and the return cancel it.   *)
Cancelled == gone \/ outcome # "none"

-----------------------------------------------------------------------------
(***************************************************************************)
(* The scanner.  What bufio has read is still there when the body closes.  *)
(***************************************************************************)

ReadLine(kind) ==
  /\ scan = "reading" /\ Len(read) < MaxLines
  /\ read' = Append(read, kind) /\ scan' = "sending"
  /\ UNCHANGED <<scanErr, scanCh, pumpVars, out, bodyVars, consumerVars>>

SendLine ==
  /\ scan = "sending" /\ Len(scanCh) < ChanCap
  /\ scanCh' = Append(scanCh, Len(read)) /\ scan' = "reading"
  /\ UNCHANGED <<read, scanErr, pumpVars, out, bodyVars, consumerVars>>

ScannerCancelled ==
  /\ scan = "sending" /\ Cancelled
  /\ scan' = "closed" /\ scanErr' = "failed"
  /\ UNCHANGED <<read, scanCh, pumpVars, out, bodyVars, consumerVars>>

(* Upstream ends or breaks off, or the output is over the limit.           *)
BodyEnds ==
  /\ scan = "reading" /\ body = "open"
  /\ scan' = "closed" /\ scanErr' \in {"eof", "failed", "limit"}
  /\ UNCHANGED <<read, scanCh, pumpVars, out, bodyVars, consumerVars>>
ReadFails ==
  /\ scan = "reading" /\ body = "closed"
  /\ scan' = "closed" /\ scanErr' = "failed"
  /\ UNCHANGED <<read, scanCh, pumpVars, out, bodyVars, consumerVars>>

-----------------------------------------------------------------------------
(***************************************************************************)
(* The pump.                                                               *)
(***************************************************************************)

(* flushBuffer(true): one batch, thinking first; none if nothing waits.    *)
Flushed(t, x) == IF t \o x = <<>> THEN <<>> ELSE <<[lines |-> t \o x, stop |-> FALSE]>>
TheEnd == <<[lines |-> <<>>, stop |-> TRUE]>>
Buffers(t, x) == thinking' = t /\ text' = x
FlushesAll == Flushed(thinking, text)

\* Faulty variant: thinking joins the batch whatever waits there.
ThinkingJoins(line) == Buffers(Append(thinking, line), text) /\ emit' = <<>>

(* Thinking that follows text must not overtake it.                        *)
AddThinking(line) ==
  IF text = <<>> THEN Buffers(Append(thinking, line), <<>>) /\ emit' = <<>>
  ELSE Buffers(<<line>>, <<>>) /\ emit' = FlushesAll

AddText(line) ==
  \/ Buffers(thinking, Append(text, line)) /\ emit' = <<>>
  \/ Buffers(<<>>, <<>>) /\ emit' = Flushed(thinking, Append(text, line))

(* forwardSnapshot                                                         *)
AddSnapshot(line) ==
  /\ Buffers(<<>>, <<>>)
  /\ emit' = FlushesAll \o <<[lines |-> <<line>>, stop |-> FALSE]>>

(* The end of the answer: what waits, and what the line brings, go first.  *)
Stop(line, kind) ==
  /\ Buffers(<<>>, <<>>)
  /\ emit' = Flushed(IF kind = "stopThink" THEN Append(thinking, line) ELSE thinking, text)
               \o TheEnd

(* processLine                                                             *)
ProcessLine ==
  /\ pump = "loop" /\ emit = <<>> /\ scanCh # <<>>
  /\ scanCh' = Tail(scanCh)
  /\ LET line == Head(scanCh)
         kind == read[line]
     IN /\ terminalSeen' = (terminalSeen \/ kind \in Stops)
        /\ \/ kind = "think" /\ AddThinking(line)
           \/ kind = "text" /\ AddText(line)
           \/ kind = "snapshot" /\ AddSnapshot(line)
           \/ kind \in Stops /\ Stop(line, kind)
  /\ UNCHANGED <<scanVars, out, pump, pumpErr, report, bodyVars, consumerVars>>

(* The timer: nothing waits longer than MaxWait.                           *)
MaxWaitFlush ==
  /\ pump = "loop" /\ emit = <<>> /\ FlushesAll # <<>>
  /\ Buffers(<<>>, <<>>) /\ emit' = FlushesAll
  /\ UNCHANGED <<scanVars, scanCh, out, pump, pumpErr, terminalSeen, report, bodyVars,
                 consumerVars>>

SendBatch ==
  /\ emit # <<>> /\ Len(out) < ChanCap
  /\ out' = Append(out, Head(emit)) /\ emit' = Tail(emit)
  /\ UNCHANGED <<scanVars, scanCh, thinking, text, pump, pumpErr, terminalSeen, report,
                 bodyVars, consumerVars>>
DropBatch ==
  /\ emit # <<>> /\ Cancelled
  /\ emit' = Tail(emit) /\ pumpErr' = "failed"
  /\ pump' = IF Head(emit).stop THEN "done" ELSE pump
  /\ UNCHANGED <<scanVars, scanCh, out, thinking, text, terminalSeen, report, bodyVars,
                 consumerVars>>

(* The scanner has closed its channel, or the context has ended.  (An      *)
(* error of a batch before is kept here; a snapshot may overwrite it in    *)
(* the code.)                                                              *)
LinesEnd ==
  /\ pump = "loop" /\ emit = <<>> /\ scan = "closed" /\ scanCh = <<>>
  /\ pump' = "done"
  /\ pumpErr' = IF scanErr = "eof" THEN pumpErr ELSE scanErr
  /\ UNCHANGED <<scanVars, scanCh, out, thinking, text, emit, terminalSeen, report,
                 bodyVars, consumerVars>>
PumpCancelled ==
  /\ pump = "loop" /\ emit = <<>> /\ Cancelled
  /\ pump' = "done" /\ pumpErr' = "failed"
  /\ UNCHANGED <<scanVars, scanCh, out, thinking, text, emit, terminalSeen, report,
                 bodyVars, consumerVars>>

LastFlush ==
  /\ pump = "done" /\ pump' = "closing"
  /\ Buffers(<<>>, <<>>) /\ emit' = FlushesAll
  /\ UNCHANGED <<scanVars, scanCh, out, pumpErr, terminalSeen, report, bodyVars,
                 consumerVars>>

\* Faulty variant: the callback is stopped, and the body left to the caller.
CallbackStopped == callback' = "stopped" /\ UNCHANGED body

(* The cleanup: the callback may lose its race with the pump's return.     *)
BodyCleanedUp ==
  callback' = "stopped" /\ body' = IF Cancelled THEN "closed" ELSE body

PumpReturns ==
  /\ pump = "closing" /\ emit = <<>>
  /\ pump' = "over"
  /\ report' = IF pumpErr # "none" THEN pumpErr
               ELSE IF terminalSeen THEN "ok" ELSE "unexpected EOF"
  /\ BodyCleanedUp
  /\ UNCHANGED <<scanVars, scanCh, out, thinking, text, emit, pumpErr, terminalSeen,
                 consumerVars>>

Callback ==
  /\ callback = "armed" /\ Cancelled
  /\ body' = "closed" /\ callback' = "stopped"
  /\ UNCHANGED <<scanVars, scanCh, pumpVars, out, consumerVars>>

-----------------------------------------------------------------------------
(***************************************************************************)
(* ConsumeSSE.                                                             *)
(***************************************************************************)

Finalize(how) == outcome' = how /\ UNCHANGED gone

(* A batch; the hooks may end the stream, and always do at its end.        *)
OnParsed ==
  /\ outcome = "none" /\ ~gone /\ out # <<>>
  /\ out' = Tail(out)
  /\ delivered' = delivered \o Head(out).lines
  /\ IF Head(out).stop THEN Finalize("stopped")
     ELSE Finalize("cut") \/ UNCHANGED <<gone, outcome>>
  /\ UNCHANGED <<scanVars, scanCh, pumpVars, bodyVars>>

StreamEnds ==
  /\ outcome = "none" /\ ~gone /\ out = <<>> /\ pump = "over"
  /\ Finalize(CASE report = "ok" -> "completed"
                [] report = "limit" -> "limit"
                [] OTHER -> "interrupted")
  /\ UNCHANGED <<scanVars, scanCh, pumpVars, out, bodyVars, delivered>>

(* No content for too long, or the client cannot be written to.            *)
KeepAliveTick ==
  /\ outcome = "none" /\ ~gone
  /\ Finalize("interrupted") \/ Finalize("cut")
  /\ UNCHANGED <<scanVars, scanCh, pumpVars, out, bodyVars, delivered>>

CallerLeaves ==
  /\ outcome = "none" /\ ~gone /\ gone' = TRUE
  /\ UNCHANGED <<scanVars, scanCh, pumpVars, out, bodyVars, outcome, delivered>>
ContextDone ==
  /\ outcome = "none" /\ gone /\ outcome' = "cancelled"
  /\ UNCHANGED <<scanVars, scanCh, pumpVars, out, bodyVars, gone, delivered>>

ScannerSteps == SendLine \/ ScannerCancelled \/ ReadFails
PumpSteps ==
  \/ ProcessLine \/ SendBatch \/ DropBatch
  \/ LinesEnd \/ PumpCancelled \/ LastFlush \/ PumpReturns
StreamNext ==
  \/ (\E kind \in Kinds : ReadLine(kind)) \/ BodyEnds \/ ScannerSteps
  \/ PumpSteps \/ MaxWaitFlush \/ Callback
  \/ OnParsed \/ StreamEnds \/ KeepAliveTick \/ CallerLeaves \/ ContextDone

StreamSpec == PumpInit /\ [][StreamNext]_streamVars

(* Goroutines run.  Upstream may send nothing and never close.             *)
FairStreamSpec ==
  /\ StreamSpec
  /\ WF_streamVars(ScannerSteps)
  /\ WF_streamVars(PumpSteps)
  /\ WF_streamVars(Callback)
  /\ WF_streamVars(OnParsed \/ ContextDone)

-----------------------------------------------------------------------------
(***************************************************************************)
(* Properties.                                                             *)
(***************************************************************************)

Content == {k \in DOMAIN read : read[k] # "stop"}
Terminals == {k \in DOMAIN read : read[k] \in Stops}

(* The hooks get the content in the order upstream sent it, nothing twice  *)
(* and nothing missing in between, though thinking and text are collected  *)
(* apart; only thinking that comes with the end itself may precede text    *)
(* that is waiting.  And a stream that counts as ended has its whole       *)
(* answer delivered, up to the line that ends it: an answer cut off by     *)
(* upstream, a read error or a limit does not pass for a complete one.     *)
StreamFaithful ==
  /\ IsInjective(delivered) /\ ToSet(delivered) \subseteq Content
  /\ \A i \in DOMAIN delivered :
       read[delivered[i]] # "stopThink" =>
         \A k \in Content : k < delivered[i] => k \in ToSet(SubSeq(delivered, 1, i))
  /\ outcome \in {"stopped", "completed"} =>
       \E end \in Terminals : \A k \in Content : k <= end => k \in ToSet(delivered)

(* However a stream ends for its consumer, with upstream silent and every  *)
(* channel full, the scanner and the pump end as well.                     *)
PumpsEnd == []<>(Cancelled => scan = "closed" /\ pump = "over")
=============================================================================
