---------------------------- MODULE CollectedAnswer ----------------------------
(***************************************************************************)
(* An answer that is collected before it is sent: the retry loop of        *)
(* completionruntime/nonstream.go.  Each attempt reads a whole response.   *)
(* An output that cannot be used is generated again in the same session,   *)
(* or, on another account, in a session of its own; the thinking of the    *)
(* attempts in one session is put together, and the answer of the last     *)
(* attempt is returned with it.  Malformed tool calls are repaired by the  *)
(* request's own model, in a call that may change the request's account.   *)
(*                                                                         *)
(* Attempts and sessions are numbered, and so are accounts, in the order   *)
(* the request comes to them.  A thought or an answer is abstracted to the *)
(* attempt it comes from; an error to what the loop does with it.  Retries *)
(* are enabled; how an account is changed is the subject of ManagedRequest.*)
(***************************************************************************)
EXTENDS Naturals, Sequences

CONSTANTS
  CollectRetries,     \* EmptyOutputRetryMaxAttempts
  Restarts            \* sessions begun after the first one (bound)

ASSUME CollectAssumption == CollectRetries \in Nat /\ Restarts \in Nat

VARIABLES
  loop,       \* the loop: where it is, its counters, the error it looks at;
              \* history: a repair has moved it since its session began (strayed)
  thoughts,   \* the accumulated thinking: the attempts it comes from
  sessionOf,  \* the session each attempt was made in
  ownerOfSession,   \* the account each session was created on
  unusable,   \* attempts whose tool call or echo was refused
  unread,     \* attempts whose response has not been closed
  returned    \* what the returned turn is made of, and its error

collectVars == <<loop, thoughts, sessionOf, ownerOfSession, unusable, unread, returned>>

MaxAttempt == 1 + CollectRetries + Restarts
MaxSession == 1 + Restarts
CollectAccounts == 1..MaxSession   \* bound
\* "once": another account is tried a single time; "account": until none is left.
CollectErrors == {"once", "account", "unavailable", "tool", "echo", "fatal"}

CollectTypeOK ==
  /\ loop \in [at : {"collect", "decide", "switch", "over"}, attempt : 1..MaxAttempt,
               attempts : 0..CollectRetries, session : 1..MaxSession,
               account : CollectAccounts, strayed : BOOLEAN,
               once : BOOLEAN, managed : BOOLEAN,
               err : CollectErrors \cup {"none"}]
  /\ thoughts \subseteq 1..MaxAttempt
  /\ \E n \in 1..MaxAttempt : sessionOf \in [1..n -> 1..MaxSession]
  /\ \E n \in 1..MaxSession : ownerOfSession \in [1..n -> CollectAccounts]
  /\ unusable \subseteq 1..MaxAttempt /\ unread \subseteq 1..MaxAttempt
  /\ returned \in [answer : 0..MaxAttempt, thoughts : SUBSET (1..MaxAttempt),
                   err : CollectErrors \cup {"none"}]

NothingReturned == [answer |-> 0, thoughts |-> {}, err |-> "none"]

CollectInit ==
  /\ \E managed \in BOOLEAN :
       loop = [at |-> "collect", attempt |-> 1, attempts |-> 0, session |-> 1,
               account |-> 1, strayed |-> FALSE, once |-> FALSE, managed |-> managed, err |-> "none"]
  /\ thoughts = {} /\ sessionOf = <<1>> /\ ownerOfSession = <<1>>
  /\ unusable = {} /\ unread = {1} /\ returned = NothingReturned

-----------------------------------------------------------------------------

CollectAt(place) == loop.at = place
CollectTo(place, err) == loop' = [loop EXCEPT !.at = place, !.err = err]

(* collectAttempt closes what it reads.  There is no response, its status  *)
(* is an error's, or the stream breaks.                                    *)
AttemptFails ==
  /\ CollectAt("collect")
  /\ \E err \in {"once", "account", "fatal"} : CollectTo("switch", err)
  /\ unread' = unread \ {loop.attempt}
  /\ UNCHANGED <<thoughts, sessionOf, ownerOfSession, unusable, returned>>

(* What is empty beside the thinking is judged together with the thinking  *)
(* of earlier attempts.                                                    *)
TurnErrors(thinking) ==
  {"none", "account", "tool", "echo", "fatal"}
    \cup {IF thinking = {} THEN "unavailable" ELSE "once"}

(* The accounts a managed request may come to from where it is.            *)
NextAccounts == IF loop.managed THEN loop.account..MaxSession ELSE {loop.account}

(* BuildTurnFromCollected may repair the tool calls: callOriginalRepair    *)
(* works with the request's RequestAuth, which it does not pin, so that a  *)
(* failing account is left for another one; the session stays what it was. *)
AttemptRead ==
  /\ CollectAt("collect")
  /\ unread' = unread \ {loop.attempt}
  /\ \E more \in SUBSET {loop.attempt} :
       /\ thoughts' = thoughts \cup more
       /\ \E err \in TurnErrors(thoughts'), a \in NextAccounts :
            /\ loop' = [loop EXCEPT !.at = "decide", !.err = err, !.account = a,
                                   !.strayed = @ \/ a # loop.account]
            /\ unusable' = IF err \in {"tool", "echo"} THEN unusable \cup {loop.attempt}
                           ELSE unusable
  /\ UNCHANGED <<sessionOf, ownerOfSession, returned>>

MayRegenerate ==
  /\ loop.err \in {"once", "unavailable", "tool", "echo"}
  /\ loop.attempts < CollectRetries

(* An account whose answer is empty is given a rest, if that can be noted, *)
(* and another one is asked.                                               *)
AsksAnother ==
  /\ CollectAt("decide") /\ loop.err # "none"
  /\ ~MayRegenerate \/ (loop.managed /\ loop.err = "unavailable")
  /\ CollectTo("switch", loop.err)
  /\ UNCHANGED <<thoughts, sessionOf, ownerOfSession, unusable, unread, returned>>

ReturnsTurn ==
  /\ CollectAt("decide") /\ loop.err = "none"
  /\ returned' = [answer |-> loop.attempt, thoughts |-> thoughts, err |-> "none"]
  /\ CollectTo("over", "none")
  /\ UNCHANGED <<thoughts, sessionOf, ownerOfSession, unusable, unread>>

NextAttempt(session) ==
  /\ sessionOf' = Append(sessionOf, session)
  /\ unread' = unread \cup {loop.attempt + 1}

(* A refused output leaves nothing behind but the request to do better.    *)
StillUsable == IF loop.err \in {"tool", "echo"} THEN {} ELSE thoughts

(* The request may have another error instead of a response.               *)
RegeneratesCollected ==
  /\ CollectAt("decide") /\ MayRegenerate
  /\ \/ /\ loop' = [loop EXCEPT !.at = "collect", !.attempt = @ + 1, !.attempts = @ + 1,
                                !.err = "none"]
        /\ NextAttempt(loop.session)
        /\ thoughts' = StillUsable
     \/ /\ \E err \in {"once", "account", "fatal"} :
             loop' = [loop EXCEPT !.at = "switch", !.attempts = @ + 1, !.err = err]
        /\ UNCHANGED <<thoughts, sessionOf, unread>>
  /\ UNCHANGED <<ownerOfSession, unusable, returned>>

TriesOnce == loop.err \in {"once", "tool"}
AlternateAllowed ==
  /\ loop.managed
  /\ loop.err \in {"account", "unavailable"} \/ (TriesOnce /\ ~loop.once)

\* Faulty variant: a session goes on where another one has begun.
ForgetsNothing == thoughts
NewSessionThoughts == {}

(* startStandardCompletionOnAlternateAccount: a session on the account the *)
(* request is on now (the same one when only its token was refreshed), and *)
(* everything that belonged to the old one is reset.                       *)
StartsOnAnother ==
  /\ CollectAt("switch") /\ AlternateAllowed /\ loop.session < MaxSession
  /\ \E a \in NextAccounts :
       /\ loop' = [loop EXCEPT !.at = "collect", !.attempt = @ + 1, !.session = @ + 1,
                               !.account = a, !.strayed = FALSE,
                               !.once = @ \/ TriesOnce, !.err = "none"]
       /\ ownerOfSession' = Append(ownerOfSession, a)
  /\ NextAttempt(loop.session + 1)
  /\ thoughts' = NewSessionThoughts
  /\ UNCHANGED <<unusable, returned>>

ReturnsError(err) ==
  /\ returned' = [answer |-> 0, thoughts |-> {}, err |-> err]
  /\ UNCHANGED <<thoughts, sessionOf, ownerOfSession, unusable, unread>>

(* The start on the other account fails too: its error is returned.        *)
StartFailsOnAnother ==
  /\ CollectAt("switch") /\ AlternateAllowed
  /\ \E err \in {"account", "once", "fatal"} : ReturnsError(err)
  /\ \E a \in NextAccounts :
       loop' = [loop EXCEPT !.at = "over", !.account = a, !.once = @ \/ TriesOnce]

(* No account is left, or the caller has gone.                             *)
GivesUpCollecting ==
  /\ CollectAt("switch")
  /\ ReturnsError(loop.err)
  /\ loop' = [loop EXCEPT !.at = "over"]

CollectNext ==
  \/ AttemptFails \/ AttemptRead \/ AsksAnother \/ ReturnsTurn
  \/ RegeneratesCollected \/ StartsOnAnother \/ StartFailsOnAnother \/ GivesUpCollecting

CollectSpec == CollectInit /\ [][CollectNext]_collectVars /\ WF_collectVars(CollectNext)

-----------------------------------------------------------------------------

(* A turn that is returned is of one session, answer and thinking, and     *)
(* contains nothing of an output that was refused; an attempt is made in   *)
(* the session the loop believes in, which is of the account the request   *)
(* is on unless a repair has moved the request since the session began;    *)
(* and no response is left open.                                           *)
TurnOfOneSession ==
  /\ returned.answer # 0 =>
       /\ \A t \in returned.thoughts : sessionOf[t] = sessionOf[returned.answer]
       /\ unusable \cap (returned.thoughts \cup {returned.answer}) = {}
  /\ CollectAt("collect") =>
       /\ sessionOf[loop.attempt] = loop.session
       /\ ownerOfSession[loop.session] = loop.account \/ loop.strayed
  /\ unread = IF CollectAt("collect") THEN {loop.attempt} ELSE {}

(* The retries and the restarts come to an end.                            *)
CollectOver == CollectAt("over")
CollectEnds == []<>CollectOver
=============================================================================
