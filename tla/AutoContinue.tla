----------------------------- MODULE AutoContinue -----------------------------
(***************************************************************************)
(* An answer the service gives in rounds (deepseek/client/client_continue, *)
(* auto_continue_body).  A goroutine, the pump, copies the stream of an    *)
(* answer line by line into a pipe.  When a round ends and the service has *)
(* said that there is more, the pump asks for the next round on the same   *)
(* message and goes on writing, so that the reader sees one stream.        *)
(*                                                                         *)
(* The service's side is external: it gives the message's identifier       *)
(* first, then the pieces of the answer, then whether this was all of it,  *)
(* then [DONE]; a connection may close or break at any line.  An answer is *)
(* Pieces pieces long, and no round gives a piece that an earlier one gave.*)
(***************************************************************************)
EXTENDS Naturals, Sequences

CONSTANTS
  Pieces,       \* pieces of the answer (bound)
  MaxRounds     \* continuations asked for: auto_continue_max_rounds

ASSUME ContinueAssumption == Pieces \in Nat /\ MaxRounds \in Nat \ {0}

VARIABLES
  served,     \* the service: pieces given; in this round: all it said
  pump,       \* the pump: where it is, continueState, the line it carries
  bodies,     \* rounds whose response body is open
  pipe,       \* how the pump closed its end of the pipe
  reader      \* what the reader has read, and whether it still reads

continueVars == <<served, pump, bodies, pipe, reader>>

Says == {"nothing", "more", "whole", "filtered"}
PumpPlaces == {"next", "read", "write", "decide", "last", "over"}

ContinueTypeOK ==
  /\ served \in [pieces : 0..Pieces, id : BOOLEAN, said : Says]
  /\ pump \in [at : PumpPlaces, id : BOOLEAN, status : Says, finished : BOOLEAN,
               done : BOOLEAN, rounds : 0..MaxRounds,
               line : 0..Pieces, cut : BOOLEAN]
  /\ bodies \subseteq 0..MaxRounds
  /\ pipe \in {"open", "end", "error"}
  /\ reader \in [got : UNION {[1..n -> 1..Pieces] : n \in 0..Pieces},
                 done : BOOLEAN, on : BOOLEAN]

ContinueInit ==
  /\ served = [pieces |-> 0, id |-> FALSE, said |-> "nothing"]
  /\ pump = [at |-> "next", id |-> FALSE, status |-> "nothing", finished |-> FALSE,
             done |-> FALSE, rounds |-> 0, line |-> 0, cut |-> FALSE]
  /\ bodies = {0} /\ pipe = "open"
  /\ reader = [got |-> <<>>, done |-> FALSE, on |-> TRUE]

-----------------------------------------------------------------------------

PumpAt(place) == pump.at = place

(* The end of the context is noticed between two lines.                    *)
ReadsOn ==
  /\ PumpAt("next") /\ ~pump.cut
  /\ pump' = [pump EXCEPT !.at = "read"]
  /\ UNCHANGED <<served, bodies, pipe, reader>>

(* A line that is a signal is passed on like any other: line 0.            *)
Carries(n) == [pump EXCEPT !.at = "write", !.line = n]

ReadsIdentifier ==
  /\ PumpAt("read") /\ ~served.id
  /\ served' = [served EXCEPT !.id = TRUE]
  /\ pump' = [Carries(0) EXCEPT !.id = TRUE]
  /\ UNCHANGED <<bodies, pipe, reader>>

ReadsPiece ==
  /\ PumpAt("read") /\ served.id /\ served.said = "nothing" /\ served.pieces < Pieces
  /\ served' = [served EXCEPT !.pieces = @ + 1]
  /\ pump' = Carries(served.pieces + 1)
  /\ UNCHANGED <<bodies, pipe, reader>>

(* INCOMPLETE and AUTO_CONTINUE say that there is more; FINISHED, and      *)
(* CONTENT_FILTER for an answer the service withholds, that there is not.  *)
ReadsStatus ==
  /\ PumpAt("read") /\ served.id /\ served.said = "nothing"
  /\ \E said \in Says \ {"nothing"} :
       /\ said # "filtered" => (said = "whole" <=> served.pieces = Pieces)
       /\ served' = [served EXCEPT !.said = said]
       /\ pump' = [Carries(0) EXCEPT !.status = said, !.finished = @ \/ said # "more"]
  /\ UNCHANGED <<bodies, pipe, reader>>

(* A round's [DONE] is kept back, and its body closed.                     *)
ReadsDone ==
  /\ PumpAt("read") /\ served.said # "nothing"
  /\ pump' = [pump EXCEPT !.at = "decide", !.done = TRUE]
  /\ bodies' = bodies \ {pump.rounds}
  /\ UNCHANGED <<served, pipe, reader>>

(* The connection closes where it is: a round without [DONE].              *)
ReadsEnd ==
  /\ PumpAt("read")
  /\ pump' = [pump EXCEPT !.at = "decide", !.done = FALSE]
  /\ bodies' = bodies \ {pump.rounds}
  /\ UNCHANGED <<served, pipe, reader>>

(* pumpAutoContinue returns: defer closes what is open, and what waits on  *)
(* the pump's own context with it.                                         *)
PumpEnds(how) ==
  /\ pump' = [pump EXCEPT !.at = "over", !.cut = TRUE]
  /\ bodies' = bodies \ {pump.rounds}
  /\ pipe' = how

(* The connection breaks, or its body was closed under a blocked read, or  *)
(* the context has ended.  (What bufio has read survives the body.)        *)
ReadFails ==
  /\ PumpAt("read") \/ (PumpAt("next") /\ pump.cut)
  /\ PumpEnds("error")
  /\ UNCHANGED <<served, reader>>

WriteFails ==
  /\ pump.at \in {"write", "last"} /\ ~reader.on
  /\ PumpEnds("error")
  /\ UNCHANGED <<served, reader>>

-----------------------------------------------------------------------------

ShouldContinue == ~pump.finished /\ pump.id /\ pump.status = "more"

AsksForMore == ShouldContinue /\ pump.rounds < MaxRounds

(* The next round begins with a state of its own: prepareForNextRound.  A  *)
(* context that ended meanwhile closes the new body at once.               *)
Continues ==
  /\ PumpAt("decide") /\ AsksForMore
  /\ served' = [served EXCEPT !.said = "nothing"]
  /\ pump' = [pump EXCEPT !.at = "next", !.rounds = @ + 1,
                          !.status = "nothing", !.finished = FALSE, !.done = FALSE]
  /\ bodies' = IF pump.cut THEN bodies ELSE bodies \cup {pump.rounds + 1}
  /\ UNCHANGED <<pipe, reader>>

ContinueRefused ==
  /\ PumpAt("decide") /\ AsksForMore
  /\ PumpEnds("error")
  /\ UNCHANGED <<served, reader>>

\* Faulty variant: an answer the rounds did not suffice for passes for a whole one.
NoMoreRounds == ~AsksForMore
NothingToCome == ~ShouldContinue

RoundsSpent ==
  /\ PumpAt("decide") /\ ~NothingToCome /\ pump.rounds = MaxRounds
  /\ PumpEnds("error")
  /\ UNCHANGED <<served, reader>>

(* The last round's [DONE], if there was one, is written now.              *)
Finishes ==
  /\ PumpAt("decide") /\ NothingToCome
  /\ \/ /\ pump.done
        /\ pump' = [pump EXCEPT !.at = "last"]
        /\ UNCHANGED <<bodies, pipe>>
     \/ ~pump.done /\ PumpEnds("end")
  /\ UNCHANGED <<served, reader>>

-----------------------------------------------------------------------------
(* The reader's side.                                                      *)

ReaderReads ==
  /\ reader.on /\ PumpAt("write")
  /\ reader' = IF pump.line = 0 THEN reader
               ELSE [reader EXCEPT !.got = Append(@, pump.line)]
  /\ pump' = [pump EXCEPT !.at = "next", !.line = 0]
  /\ UNCHANGED <<served, bodies, pipe>>

ReaderReadsDone ==
  /\ reader.on /\ PumpAt("last")
  /\ reader' = [reader EXCEPT !.done = TRUE]
  /\ PumpEnds("end")
  /\ UNCHANGED served

(* autoContinueBody.Close: the pump's context ends first, and a read it is *)
(* blocked in with it.                                                     *)
ReaderCloses ==
  /\ reader.on
  /\ reader' = [reader EXCEPT !.on = FALSE]
  /\ pump' = [pump EXCEPT !.cut = TRUE]
  /\ bodies' = {}
  /\ UNCHANGED <<served, pipe>>

RequestEnds ==
  /\ ~pump.cut
  /\ pump' = [pump EXCEPT !.cut = TRUE]
  /\ bodies' = {}
  /\ UNCHANGED <<served, pipe, reader>>

(* What the pump does without waiting for the service or the reader: a     *)
(* closed body ends a blocked read, a closed pipe a blocked write.         *)
PumpWorks ==
  \/ ReadsOn \/ (pump.cut /\ ReadFails) \/ WriteFails
  \/ Continues \/ ContinueRefused \/ RoundsSpent \/ Finishes

ContinueNext ==
  \/ PumpWorks \/ ReadFails
  \/ ReadsIdentifier \/ ReadsPiece \/ ReadsStatus \/ ReadsDone \/ ReadsEnd
  \/ ReaderReads \/ ReaderReadsDone \/ ReaderCloses \/ RequestEnds

ContinueSpec == ContinueInit /\ [][ContinueNext]_continueVars /\ WF_continueVars(PumpWorks)

-----------------------------------------------------------------------------

(* The reader gets the pieces of all rounds in order and none twice.  It   *)
(* reads a [DONE] only when it has the whole answer, or what there is of   *)
(* one that was withheld; and the stream never ends as if nothing had      *)
(* happened where the service had said that there is more to come.  Only   *)
(* the round that is read has an open body, and none when the pump is over.*)
AnswerContinued ==
  /\ reader.got = [n \in 1..Len(reader.got) |-> n]
  /\ reader.done => pipe = "end" /\ (Len(reader.got) = Pieces \/ served.said = "filtered")
  /\ pipe = "end" => served.said # "more"
  /\ bodies \subseteq (IF PumpAt("over") THEN {} ELSE {pump.rounds})

(* A reader that closes ends the pump, wherever it waits.  (It does not    *)
(* read again, and the pump does not start again.)                         *)
PumpFollows == ~reader.on => PumpAt("over")
ClosedPumpEnds == []<>PumpFollows
=============================================================================
