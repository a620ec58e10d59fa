----------------------------- MODULE AnswerStream -----------------------------
(***************************************************************************)
(* One streamed answer: the retry loop of completionruntime around the     *)
(* four adapters that turn what upstream generates into the frames of a    *)
(* protocol (chat completions, Claude messages, Gemini, responses).        *)
(*                                                                         *)
(* An answer may take several generations.  A stream that breaks is        *)
(* resumed: the same generation goes on.  An output that cannot be used is *)
(* regenerated, or generated anew on another account, as long as nothing   *)
(* of it was delivered.  Text reaches the client through several buffers:  *)
(* the content policy and the tool sieve hold what may become markup,      *)
(* malformed markup is deferred to the verdict, leading whitespace waits   *)
(* for an answer.  A text is abstracted to the generation it comes from, a *)
(* buffer to the generations it holds text of.                             *)
(*                                                                         *)
(* The verdict on a turn is left open where it depends on words.  An error *)
(* is abstracted to what the loop does with it.  The Finalize hook is left *)
(* out: an attempt is deferred only for an error that may be retried, and  *)
(* then the loop never comes to it.                                        *)
(***************************************************************************)
EXTENDS Naturals, FiniteSets

CONSTANTS
  RetryMax,       \* EmptyOutputRetryMaxAttempts
  Alternates      \* changes of account the request has left (bound)

ASSUME AnswerAssumption == RetryMax \in Nat /\ Alternates \in Nat

VARIABLES
  asked,      \* the request: its protocol, whether its text is held, its account
  retry,      \* the loop
  gen,        \* the adapter's state for the current generation
  client,     \* what the client has received
  blocks,     \* of Claude and responses: the thinking and the text block
  record,     \* the entry in the history
  left,       \* the client's context has ended
  broken      \* a write to the client has failed

answerVars == <<asked, retry, gen, client, blocks, record, left, broken>>

Surfaces == {"chat", "claude", "gemini", "responses"}
Gens == 1..(1 + RetryMax + Alternates)
AccountErrors == {"account", "unavailable"}     \* another account may do better
OnceErrors == {"empty", "tool"}                 \* as above, but only one is tried
OutputErrors == {"empty", "tool", "unavailable", "account", "echo"}
Errors == OutputErrors \cup {"fatal"}
RetryPlaces ==
  {"head", "consume", "flush", "verdict", "decide", "resume", "regenerate", "switch",
   "refused", "end"}
BlockStates == {"none", "open", "closed"}

AnswerTypeOK ==
  /\ asked \in [on : Surfaces, hold : BOOLEAN, managed : BOOLEAN]
  /\ retry \in [at : RetryPlaces, attempts : 0..RetryMax, alternates : 0..Alternates,
                once : BOOLEAN, failed : BOOLEAN, resuming : BOOLEAN,
                err : Errors \cup {"none"}]
  /\ gen \in [n : Gens, partial : BOOLEAN, thought : BOOLEAN, id : BOOLEAN,
              pending : BOOLEAN, raw : SUBSET Gens, markup : SUBSET Gens,
              sieve : SUBSET Gens, deferred : SUBSET Gens, lead : SUBSET Gens,
              stop : {"none", "stop", "error"}]
  /\ client \in [text : SUBSET Gens, calls : SUBSET Gens, terminals : 0..2,
                 ended : {"no", "done", "error"}]
  /\ blocks \in [{"thinking", "text"} -> BlockStates]
  /\ record \in {"streaming", "stopped", "success", "error"}
  /\ left \in BOOLEAN /\ broken \in BOOLEAN

(* A generation; once the answer has ended, the adapter keeps nothing.     *)
Generation(n, thought) ==
  [n |-> n, partial |-> FALSE, thought |-> thought, id |-> FALSE, pending |-> FALSE,
   raw |-> {}, markup |-> {}, sieve |-> {}, deferred |-> {}, lead |-> {}, stop |-> "none"]

AnswerInit ==
  /\ asked \in [on : Surfaces, hold : BOOLEAN, managed : BOOLEAN]
  /\ retry = [at |-> "head", attempts |-> 0, alternates |-> Alternates, once |-> FALSE,
              failed |-> FALSE, resuming |-> FALSE, err |-> "none"]
  /\ gen = Generation(1, FALSE)
  /\ client = [text |-> {}, calls |-> {}, terminals |-> 0, ended |-> "no"]
  /\ blocks = [b \in {"thinking", "text"} |-> "none"]
  /\ record = "streaming" /\ left = FALSE /\ broken = FALSE

-----------------------------------------------------------------------------
(***************************************************************************)
(* Delivery.                                                               *)
(***************************************************************************)

LoopAt(place) == retry.at = place
GoTo(place) == [retry EXCEPT !.at = place]
Returns == retry' = GoTo("end") /\ gen' = Generation(gen.n, FALSE)
Delivered == client.text # {} \/ client.calls # {}

(* Whitespace that waits for an answer goes out with its first text.       *)
WithText(c, texts) ==
  IF texts = {} \/ broken THEN c ELSE [c EXCEPT !.text = @ \cup texts \cup gen.lead]

Terminated(c, how) ==
  IF broken THEN c ELSE [c EXCEPT !.terminals = @ + 1, !.ended = how]

(* Claude opens a block anew after the other one; responses has one item   *)
(* of each kind, and the reasoning item is not opened again.               *)
Opened(b, kind) ==
  LET other == IF kind = "text" THEN "thinking" ELSE "text" IN
  CASE asked.on = "claude" ->
         [b EXCEPT ![kind] = "open", ![other] = IF @ = "open" THEN "closed" ELSE @]
    [] asked.on = "responses" /\ kind = "text" ->
         [b EXCEPT !.text = "open", !.thinking = IF @ = "open" THEN "closed" ELSE @]
    [] asked.on = "responses" /\ kind = "thinking" ->
         [b EXCEPT !.thinking = IF @ = "none" THEN "open" ELSE @]
    [] OTHER -> b
Closed(b) == [k \in DOMAIN b |-> IF b[k] = "open" THEN "closed" ELSE b[k]]

(* Claude's flush opens the text block beside an open thinking block.      *)
FlushedInto(b) ==
  IF asked.on = "claude" THEN [b EXCEPT !.text = "open"] ELSE Opened(b, "text")

-----------------------------------------------------------------------------
(***************************************************************************)
(* The parts of a stream (onParsed).  A broken socket stops the reading.   *)
(* Parts that are read after the client has left are as good as read       *)
(* before.                                                                 *)
(***************************************************************************)

Reading == LoopAt("consume") /\ ~broken /\ ~left
Prose == [gen EXCEPT !.partial = TRUE, !.raw = @ \cup {gen.n}]

(* Reasoning may be hidden: then it is only kept.                          *)
Thinks ==
  /\ Reading
  /\ \/ /\ gen' = [gen EXCEPT !.partial = TRUE, !.thought = TRUE]
        /\ blocks' = Opened(blocks, "thinking")
     \/ gen' = [gen EXCEPT !.partial = TRUE] /\ UNCHANGED blocks
  /\ UNCHANGED <<asked, retry, client, record, left, broken>>

WritesBlank ==
  /\ Reading
  /\ gen' = [gen EXCEPT !.partial = TRUE,
               !.lead = IF asked.hold \/ gen.pending \/ gen.n \in client.text THEN @
                        ELSE @ \cup {gen.n}]
  /\ UNCHANGED <<asked, retry, client, blocks, record, left, broken>>

(* Prose after a call is not passed on.                                    *)
WritesText ==
  /\ Reading
  /\ IF asked.hold \/ gen.pending
     THEN gen' = Prose /\ UNCHANGED <<client, blocks>>
     ELSE /\ gen' = [Prose EXCEPT !.lead = {}]
          /\ client' = WithText(client, {gen.n})
          /\ blocks' = Opened(blocks, "text")
  /\ UNCHANGED <<asked, retry, record, left, broken>>

(* Text that may become markup stays in the policy or the sieve.  If it is *)
(* malformed it is deferred, which shows only when the stream has ended.   *)
WritesDoubtful ==
  /\ Reading
  /\ gen' = IF asked.hold THEN Prose ELSE [Prose EXCEPT !.sieve = @ \cup {gen.n}]
  /\ UNCHANGED <<asked, retry, client, blocks, record, left, broken>>

CallsTool ==
  /\ Reading
  /\ gen' = [gen EXCEPT !.partial = TRUE, !.markup = @ \cup {gen.n},
                         !.pending = ~asked.hold]
  /\ UNCHANGED <<asked, retry, client, blocks, record, left, broken>>

-----------------------------------------------------------------------------
(***************************************************************************)
(* The end of a stream.                                                    *)
(***************************************************************************)

(* OnContextDone, or Claude's look at the context.                         *)
EndsHeard ==
  /\ LoopAt("consume") /\ left
  /\ record' = "stopped" /\ Returns
  /\ UNCHANGED <<asked, client, blocks, left, broken>>

(* A stream that ends while the context does may be taken for either;      *)
(* Claude looks again, and so does Gemini, which then records nothing.     *)
EndsUnheard ==
  /\ LoopAt("consume") /\ left /\ asked.on = "gemini"
  /\ Returns
  /\ UNCHANGED <<asked, client, blocks, record, left, broken>>

NotNoticed == ~left \/ asked.on \in {"chat", "responses"}

(* An error upstream, or its content filter, stops it as well.             *)
StreamStops ==
  /\ LoopAt("consume") /\ NotNoticed
  /\ \E reason \in {"stop", "error"} : gen' = [gen EXCEPT !.stop = reason]
  /\ retry' = GoTo("flush")
  /\ UNCHANGED <<asked, client, blocks, record, left, broken>>

(* A read error, or silence for too long.  The id of the message comes     *)
(* with one of its parts: whether it has is left open until it is needed.  *)
StreamBreaks ==
  /\ LoopAt("consume") /\ ~broken /\ NotNoticed
  /\ \E known \in {gen.id, TRUE} : CASE gen.partial /\ known ->
            /\ retry' = [GoTo("decide") EXCEPT !.resuming = TRUE]
            /\ gen' = [gen EXCEPT !.id = TRUE]
            /\ UNCHANGED <<client, blocks, record>>
       [] gen.partial /\ ~known ->
            /\ client' = Terminated(client, "error") /\ record' = "error"
            /\ blocks' = IF asked.on = "claude" THEN Closed(blocks) ELSE blocks
            /\ Returns
       [] OTHER ->
            /\ gen' = [gen EXCEPT !.stop = "stop"] /\ retry' = GoTo("flush")
            /\ UNCHANGED <<client, blocks, record>>
  /\ UNCHANGED <<asked, left, broken>>

(* finalize, its first half.  A failed write ends the attempt, and only    *)
(* chat records that.                                                      *)
EndsUnwritten ==
  /\ LoopAt("flush") /\ broken /\ Returns
  /\ record' = IF asked.on = "chat" THEN "error" ELSE record
  /\ UNCHANGED <<asked, client, blocks, left, broken>>

(* Chat and Gemini flush the policy now and the sieve after the verdict,   *)
(* the other two flush both now.                                           *)
Flushes ==
  /\ LoopAt("flush") /\ ~broken
  /\ \E shown, deferred, kept \in {{}, gen.sieve}, call \in BOOLEAN :
       /\ asked.on \in {"claude", "responses"} => kept = {}
       /\ gen.sieve = {} => ~call
       /\ shown \cup deferred \cup kept = gen.sieve \/ call
       /\ LET goesOut == shown # {} /\ ~gen.pending IN
          /\ gen' = [gen EXCEPT !.sieve = kept, !.deferred = @ \cup deferred,
                       !.pending = @ \/ call,
                       !.markup = IF call THEN @ \cup gen.sieve ELSE @,
                       !.lead = IF goesOut THEN {} ELSE @]
          /\ client' = IF goesOut THEN WithText(client, shown) ELSE client
          /\ LET opened == IF goesOut THEN FlushedInto(blocks) ELSE blocks IN
             blocks' = IF asked.on = "claude" /\ opened.text = "open"
                       THEN [opened EXCEPT !.text = "closed"] ELSE opened
  /\ retry' = GoTo("verdict")
  /\ UNCHANGED <<asked, record, left, broken>>

-----------------------------------------------------------------------------
(***************************************************************************)
(* The verdict (BuildTurnFromStreamSnapshot, FinalizeTurn).                *)
(***************************************************************************)

(* Calls may be found in hidden reasoning, or repaired.  Markup that does  *)
(* not become a call is an error, and so is text that is held where a call *)
(* is required.  Reasoning without text counts as the account's limit, and *)
(* reasoning of an earlier generation is still there (Gemini forgets it).  *)
Verdicts ==
  CASE gen.stop = "error" -> {"fatal", "account"}
    [] gen.stop = "stop" ->
         (IF gen.partial THEN {"echo", "fatal", "calls"} ELSE {})
         \cup CASE gen.markup # {} -> {"tool", "calls"}
                [] gen.markup = {} /\ gen.raw # {} ->
                     {"text"} \cup IF asked.hold THEN {"tool"} ELSE {}
                [] OTHER -> IF gen.thought THEN {"empty", "fatal"} ELSE {"unavailable"}

\* Faulty variants: what was delivered does not count.
CanDeferWhatever(err, allowed) == allowed /\ err \in OutputErrors
CanDefer(err, allowed) == allowed /\ ~Delivered /\ err \in OutputErrors
AllowDefer == retry.attempts < RetryMax \/ asked.managed

(* The text a verdict releases.                                            *)
Released(verdict) ==
  CASE asked.hold /\ verdict = "text" -> {gen.raw}
    [] asked.hold /\ verdict = "calls" -> {gen.raw, {}}
    [] ~asked.hold /\ verdict = "text" -> {gen.deferred \cup gen.sieve}
    [] OTHER -> {{}}

(* The frames are the text, the calls and the terminal; the socket may     *)
(* break before any of them.                                               *)
Succeeds ==
  \E verdict \in Verdicts \cap {"text", "calls"} :
  \E texts \in Released(verdict), frames \in IF broken THEN {0} ELSE 0..3 :
    LET calls == IF verdict = "calls" THEN gen.raw \cup gen.markup \cup {gen.n} ELSE {}
        shown == IF frames >= 1 THEN WithText(client, texts) ELSE client
        called == IF frames >= 2 THEN [shown EXCEPT !.calls = @ \cup calls] ELSE shown
    IN /\ client' = IF frames = 3 THEN Terminated(called, "done") ELSE called
       /\ broken' = (frames < 3)
       /\ record' = IF frames = 3 THEN "success" ELSE "error"
       /\ blocks' = Closed(IF texts # {} THEN Opened(blocks, "text") ELSE blocks)
       /\ Returns

(* The response could not be stored: responses says so instead of done.    *)
StoreRefuses ==
  /\ asked.on = "responses" /\ Verdicts \cap {"text", "calls"} # {}
  /\ \E verdict \in Verdicts \cap {"text", "calls"} : \E texts \in Released(verdict) :
       /\ client' = Terminated(WithText(client, texts), "error")
       /\ blocks' = Closed(IF texts # {} THEN Opened(blocks, "text") ELSE blocks)
  /\ record' = "error" /\ Returns
  /\ UNCHANGED broken

Defers ==
  /\ \E err \in Verdicts \cap Errors :
       /\ CanDefer(err, AllowDefer)
       /\ retry' = [GoTo("decide") EXCEPT !.err = err]
  /\ UNCHANGED <<gen, client, blocks, record, broken>>

ReportsError ==
  /\ \E err \in Verdicts \cap Errors : ~CanDefer(err, AllowDefer)
  /\ client' = Terminated(client, "error") /\ record' = "error"
  /\ blocks' = Closed(blocks) /\ Returns
  /\ UNCHANGED broken

Judges ==
  /\ LoopAt("verdict")
  /\ Succeeds \/ StoreRefuses \/ Defers \/ ReportsError
  /\ UNCHANGED <<asked, left>>

-----------------------------------------------------------------------------
(***************************************************************************)
(* The loop (ExecuteStreamWithRetry).                                      *)
(***************************************************************************)

LeavesLoop ==
  /\ retry.at \in {"head", "decide"} /\ left
  /\ Returns
  /\ UNCHANGED <<asked, client, blocks, record, left, broken>>

(* Only the first response is not looked at before it gets here.           *)
Consumes ==
  /\ LoopAt("head") /\ ~left
  /\ \/ retry' = [GoTo("consume") EXCEPT !.resuming = FALSE, !.err = "none"]
     \/ /\ gen = Generation(1, FALSE) /\ retry.attempts = 0
        /\ \E err \in {"account", "fatal"} : retry' = [GoTo("switch") EXCEPT !.err = err]
  /\ UNCHANGED <<asked, gen, client, blocks, record, left, broken>>

Decides ==
  /\ LoopAt("decide") /\ ~left
  /\ CASE retry.attempts < RetryMax /\ retry.resuming ->
            retry' = [GoTo("resume") EXCEPT !.attempts = @ + 1]
       [] retry.attempts = RetryMax /\ retry.resuming ->
            retry' = [GoTo("refused") EXCEPT !.err = "fatal"]
       [] retry.attempts = RetryMax /\ ~retry.resuming -> retry' = GoTo("switch")
       [] OTHER ->
            \/ retry' = [GoTo("regenerate") EXCEPT !.attempts = @ + 1]
            \/ /\ retry.err = "unavailable" /\ asked.managed      \* the account cools down
               /\ retry' = GoTo("switch")
  /\ UNCHANGED <<asked, gen, client, blocks, record, left, broken>>

(* A continuation that fails is not started anew: the client has part of   *)
(* the answer.                                                             *)
Resumes ==
  /\ LoopAt("resume")
  /\ \/ retry' = GoTo("head")
     \/ retry' = [GoTo("refused") EXCEPT !.err = "fatal"]
  /\ UNCHANGED <<asked, gen, client, blocks, record, left, broken>>

(* resetForRegeneration: what was not delivered is discarded.              *)
\* Faulty variant: deferred text survives.
StillThought == asked.on # "gemini" /\ gen.thought
KeepingDeferred == [Generation(gen.n + 1, StillThought) EXCEPT !.deferred = gen.deferred]
ResetForRegeneration == Generation(gen.n + 1, StillThought)

Regenerates ==
  /\ LoopAt("regenerate")
  /\ \/ gen' = ResetForRegeneration /\ retry' = GoTo("head")
     \/ /\ \E err \in {"account", "fatal"} : retry' = [GoTo("switch") EXCEPT !.err = err]
        /\ UNCHANGED gen
  /\ UNCHANGED <<asked, client, blocks, record, left, broken>>

(* canRetryOnAlternateAccount: that one try is spent even if it fails.     *)
CanRetryOnAlternate ==
  /\ asked.managed /\ ~left
  /\ retry.err \in AccountErrors \/ (retry.err \in OnceErrors /\ ~retry.once)
OnceSpent == retry.once \/ (asked.managed /\ ~left /\ retry.err \in OnceErrors)

SwitchesAccount ==
  /\ LoopAt("switch") /\ CanRetryOnAlternate /\ retry.alternates > 0
  /\ gen' = ResetForRegeneration
  /\ retry' = [GoTo("head") EXCEPT !.alternates = @ - 1, !.once = OnceSpent]
  /\ UNCHANGED <<asked, client, blocks, record, left, broken>>

NoOtherAccount ==
  /\ LoopAt("switch")
  /\ retry' = [GoTo("refused") EXCEPT !.once = OnceSpent]
  /\ UNCHANGED <<asked, gen, client, blocks, record, left, broken>>

(* fail.  A client that has left is told nothing, and neither is the       *)
(* history; Gemini's hook tells the client only.                           *)
Fail ==
  IF left THEN UNCHANGED <<client, blocks, record>>
  ELSE /\ client' = Terminated(client, "error")
       /\ blocks' = IF asked.on = "claude" THEN Closed(blocks) ELSE blocks
       /\ record' = IF asked.on = "gemini" THEN record ELSE "error"

\* Faulty variant: a failure is reported again.
FailsAgain == retry.failed \/ ~retry.failed
FailsOnce == ~retry.failed

(* The start on the other account fails: that is reported, and the caller  *)
(* gives up as well.                                                       *)
AlternateFails ==
  /\ LoopAt("switch") /\ CanRetryOnAlternate /\ retry.alternates > 0
  /\ Fail
  /\ retry' = [GoTo("refused") EXCEPT !.alternates = @ - 1, !.once = OnceSpent,
                                       !.failed = TRUE]
  /\ UNCHANGED <<asked, gen, left, broken>>

Refused ==
  /\ LoopAt("refused")
  /\ IF FailsOnce THEN Fail ELSE UNCHANGED <<client, blocks, record>>
  /\ Returns
  /\ UNCHANGED <<asked, left, broken>>

-----------------------------------------------------------------------------

(* That it has is seen at these places only, and that the socket is        *)
(* broken, where something is written.                                     *)
ClientLeaves ==
  /\ ~left /\ left' = TRUE
  /\ retry.at \in {"head", "consume", "flush", "decide", "switch", "refused"}
  /\ UNCHANGED <<asked, retry, gen, client, blocks, record, broken>>

SocketBreaks ==
  /\ ~broken /\ broken' = TRUE
  /\ retry.at \in {"consume", "flush", "switch", "refused"}
  /\ UNCHANGED <<asked, retry, gen, client, blocks, record, left>>

Parts ==
  Thinks \/ WritesBlank \/ WritesText \/ WritesDoubtful \/ CallsTool
ConsumeEnds == EndsHeard \/ EndsUnheard \/ StreamStops \/ StreamBreaks
AnswerSteps ==
  \/ EndsUnwritten \/ Flushes \/ Judges
  \/ LeavesLoop \/ Consumes \/ Decides \/ Resumes \/ Regenerates
  \/ SwitchesAccount \/ NoOtherAccount \/ AlternateFails \/ Refused

AnswerNext == Parts \/ ConsumeEnds \/ AnswerSteps \/ ClientLeaves \/ SocketBreaks

(* A stream ends: by itself, by its watchdogs or by its limits.            *)
AnswerSpec ==
  /\ AnswerInit /\ [][AnswerNext]_answerVars
  /\ WF_answerVars(ConsumeEnds \/ AnswerSteps)

-----------------------------------------------------------------------------

(* Whatever is resumed, regenerated or generated elsewhere, the client     *)
(* sees the text and the calls of one generation, and when it is told that *)
(* the answer is complete it has received that generation's.               *)
OneAnswer ==
  /\ Cardinality(client.text \cup client.calls) <= 1
  /\ client.ended = "done" => client.text \cup client.calls = {gen.n}

(* The client is told once how the answer ended, unless it cannot be; the  *)
(* history says success of what the client was told is complete, and stays *)
(* open only where nobody could be told, or Gemini's retry failed; Claude  *)
(* closes its blocks, and responses those of a complete answer.            *)
OneTerminal ==
  /\ client.terminals <= 1
  /\ LoopAt("end") => client.terminals = 1 \/ left \/ broken
  /\ record = "success" <=> client.ended = "done"
  /\ LoopAt("end") /\ record = "streaming" => left \/ broken \/ asked.on = "gemini"
  /\ (asked.on = "claude" /\ client.terminals = 1) \/ client.ended = "done" =>
       \A b \in DOMAIN blocks : blocks[b] # "open"

(* Every answer comes to an end.                                           *)
AnswerOver == LoopAt("end")
AnswerEnds == []<>AnswerOver
=============================================================================
