--------------------------- MODULE LoginCoordinator ---------------------------
(***************************************************************************)
(* Coalesced logins of one managed account (auth/login_coordinator.go).    *)
(* Requests that need a token join the login in flight, take a token that  *)
(* another request has stored meanwhile, or lead a login themselves.       *)
(* Flights are kept per account and share nothing, so one account is all   *)
(* there is to see.                                                        *)
(*                                                                         *)
(* r.mu is held for each of Enter and Publish.  Waiting, the login itself, *)
(* writes of the store and PostLogin run outside it.                       *)
(***************************************************************************)
EXTENDS Naturals

CONSTANTS
  Callers,       \* requests that use the account
  None,          \* no leader
  MaxToken,      \* tokens are numbered in the order upstream mints them (bound)
  SavesMayFail   \* whether saving the configuration may fail

ASSUME LoginAssumption ==
  /\ None \notin Callers
  /\ MaxToken \in Nat
  /\ SavesMayFail \in BOOLEAN

VARIABLES
  stored,    \* the account's token in the store; 0: empty
  minted,    \* the last token upstream has minted
  leader,    \* the caller whose flight is in loginFlights, or None
  pc,        \* where each caller is, see Places
  force,     \* force[c]: the call is a refresh, not a first login
  token,     \* token[c]: a.Account.Token of the caller
  brought,   \* brought[c]: its value when the call began
  over,      \* over[c]: the caller's context has ended
  result,    \* result[c]: how the call, or the flight it joined, ended
  admin,     \* the token an admin handler is about to store, or 0
  bypassed   \* history: an admin has logged in past the coordinator

vars == <<stored, minted, leader, pc, force, token, brought, over, result, admin,
          bypassed>>

Places == {"out", "enter", "waiting", "woken",
           "clear", "login", "save", "post", "publish"}
Leading == {"clear", "login", "save", "post", "publish"}
Tokens == 0..MaxToken
(* "aborted": a cancellation or a deadline, the caller's or the login's.   *)
Results == {"none", "ok", "failed", "aborted"}

TypeOK ==
  /\ stored \in Tokens /\ minted \in Tokens /\ admin \in Tokens
  /\ leader \in Callers \cup {None} /\ bypassed \in BOOLEAN
  /\ pc \in [Callers -> Places]
  /\ force \in [Callers -> BOOLEAN] /\ over \in [Callers -> BOOLEAN]
  /\ token \in [Callers -> Tokens] /\ brought \in [Callers -> Tokens]
  /\ result \in [Callers -> Results]

Init ==
  /\ stored = 0 /\ minted = 0 /\ admin = 0
  /\ leader = None /\ bypassed = FALSE
  /\ pc = [c \in Callers |-> "out"]
  /\ force = [c \in Callers |-> FALSE]
  /\ over = [c \in Callers |-> FALSE]
  /\ token = [c \in Callers |-> 0]
  /\ brought = [c \in Callers |-> 0]
  /\ result = [c \in Callers |-> "none"]

-----------------------------------------------------------------------------

Go(c, place) == pc' = [pc EXCEPT ![c] = place]
Return(c, r) == Go(c, "out") /\ result' = [result EXCEPT ![c] = r]

(* A request calls loginCoalesced with the token of the lease it has just  *)
(* taken, or with the one it has been using.                               *)
Call(c, f) ==
  /\ pc[c] = "out"
  /\ Go(c, "enter")
  /\ force' = [force EXCEPT ![c] = f]
  /\ \E t \in {token[c], stored} :
        /\ token' = [token EXCEPT ![c] = t]
        /\ brought' = [brought EXCEPT ![c] = t]
  /\ result' = [result EXCEPT ![c] = "none"]
  /\ over' = [over EXCEPT ![c] = FALSE]
  /\ UNCHANGED <<stored, minted, leader, admin, bypassed>>

ContextEnds(c) ==
  /\ pc[c] # "out" /\ ~over[c]
  /\ over' = [over EXCEPT ![c] = TRUE]
  /\ UNCHANGED <<stored, minted, leader, pc, force, token, brought, result, admin, bypassed>>

\* Faulty variant: a forced refresh does not look for a flight.
JoinsUnlessForced(c) == leader # None /\ ~force[c]

(* There is a flight to wait for.                                          *)
Joins(c) == leader # None

\* Faulty variant: an emptied token passes for one that another has stored.
ReusesEmpty(c) == ~Joins(c) /\ stored # token[c]

(* Another request has stored a token this one does not have.              *)
Reuses(c) == ~Joins(c) /\ stored # 0 /\ stored # token[c]

(* One turn of loginCoalesced's loop.                                      *)
Enter(c) ==
  /\ pc[c] = "enter"
  /\ UNCHANGED <<stored, minted, force, brought, over, admin, bypassed>>
  /\ \/ over[c] /\ Return(c, "aborted") /\ UNCHANGED <<leader, token>>
     \/ /\ ~over[c] /\ Joins(c)
        /\ Go(c, "waiting")
        /\ UNCHANGED <<leader, token, result>>
     \/ /\ ~over[c] /\ Reuses(c)
        /\ token' = [token EXCEPT ![c] = stored]
        /\ Return(c, "ok")
        /\ UNCHANGED leader
     \/ /\ ~over[c] /\ ~Joins(c) /\ ~Reuses(c)
        /\ leader' = c
        /\ Go(c, IF force[c] THEN "clear" ELSE "login")
        /\ UNCHANGED <<token, result>>

(* A waiter need not wait longer than its own context.                     *)
GiveUp(c) ==
  /\ pc[c] \in {"waiting", "woken"} /\ over[c]
  /\ Return(c, "aborted")
  /\ UNCHANGED <<stored, minted, leader, force, token, brought, over, admin, bypassed>>

\* Faulty variant: a waiter takes over whatever the leader's flight ended with.
NeverRetries(c) == FALSE

(* The flight was aborted, which is no news about the account.             *)
Retries(c) == result[c] = "aborted"

(* The flight is done: its result is the waiter's, unless it was aborted.  *)
Woken(c) ==
  /\ pc[c] = "woken"
  /\ IF Retries(c)
     THEN Go(c, "enter") /\ result' = [result EXCEPT ![c] = "none"]
     ELSE Go(c, "out") /\ UNCHANGED result
  /\ UNCHANGED <<stored, minted, leader, force, token, brought, over, admin, bypassed>>

-----------------------------------------------------------------------------
(***************************************************************************)
(* The leader's flight.                                                    *)
(***************************************************************************)

(* The flight ends: result[c] is what it will publish.                     *)
Ends(c, r) == Go(c, "publish") /\ result' = [result EXCEPT ![c] = r]

(* A refresh empties the stored token first.  The memory of the store is   *)
(* changed even when saving it fails.                                      *)
ClearStored(c) ==
  /\ pc[c] = "clear"
  /\ stored' = 0
  /\ \/ Go(c, "login") /\ token' = [token EXCEPT ![c] = 0] /\ UNCHANGED result
     \/ SavesMayFail /\ Ends(c, "failed") /\ UNCHANGED token
  /\ UNCHANGED <<minted, leader, force, brought, over, admin, bypassed>>

(* The login: a new token; a rejection, another error or a panic; or the   *)
(* end of the context or of the login's own time limit.                    *)
Login(c) ==
  /\ pc[c] = "login"
  /\ \/ /\ minted < MaxToken
        /\ minted' = minted + 1
        /\ token' = [token EXCEPT ![c] = minted']
        /\ Go(c, "save")
        /\ UNCHANGED result
     \/ (\E r \in {"failed", "aborted"} : Ends(c, r)) /\ UNCHANGED <<minted, token>>
  /\ UNCHANGED <<stored, leader, force, brought, over, admin, bypassed>>

Save(c) ==
  /\ pc[c] = "save"
  /\ stored' = token[c]
  /\ \/ Go(c, "post") /\ UNCHANGED result
     \/ SavesMayFail /\ Ends(c, "failed")
  /\ UNCHANGED <<minted, leader, force, token, brought, over, admin, bypassed>>

(* PostLogin returns, or panics.                                           *)
PostLogin(c) ==
  /\ pc[c] = "post"
  /\ \E r \in {"ok", "failed"} : Ends(c, r)
  /\ UNCHANGED <<stored, minted, leader, force, token, brought, over, admin, bypassed>>

\* Faulty variant: an aborted flight tells nobody.
ToldIfConclusive(c) ==
  {w \in Callers : pc[w] = "waiting" /\ result[c] # "aborted"}

(* Those who wait for the flight: closing done wakes all of them.          *)
Told(c) == {w \in Callers : pc[w] = "waiting"}

(* The token in the copy of the credentials that waiters read.             *)
SharedToken(c) == token[c]

(* The deferred end of performLoginFlight, run after a panic as well.      *)
Publish(c) ==
  /\ pc[c] = "publish"
  /\ leader' = None
  /\ pc' = [w \in Callers |-> IF w = c THEN "out"
                              ELSE IF w \in Told(c) THEN "woken" ELSE pc[w]]
  /\ result' = [w \in Callers |-> IF w \in Told(c) THEN result[c] ELSE result[w]]
  /\ token' = [w \in Callers |-> IF w \in Told(c) /\ result[c] = "ok"
                                 THEN SharedToken(c) ELSE token[w]]
  /\ UNCHANGED <<stored, minted, force, brought, over, admin, bypassed>>

-----------------------------------------------------------------------------

(* The admin's account test logs in directly and stores what it gets.      *)
AdminLogin ==
  /\ admin = 0 /\ minted < MaxToken
  /\ minted' = minted + 1 /\ admin' = minted' /\ bypassed' = TRUE
  /\ UNCHANGED <<stored, leader, pc, force, token, brought, over, result>>
AdminStores ==
  /\ admin # 0
  /\ stored' = admin /\ admin' = 0
  /\ UNCHANGED <<minted, leader, pc, force, token, brought, over, result, bypassed>>

Fly(c) == ClearStored(c) \/ Login(c) \/ Save(c) \/ PostLogin(c) \/ Publish(c)
Proceed(c) == Enter(c) \/ GiveUp(c) \/ Woken(c) \/ Fly(c)

Next ==
  \/ \E c \in Callers :
       (\E f \in BOOLEAN : Call(c, f)) \/ ContextEnds(c) \/ Proceed(c)
  \/ AdminLogin \/ AdminStores

Spec == Init /\ [][Next]_vars

(* Goroutines run, and logins return (the client has its own time limits). *)
FairSpec == Spec /\ \A c \in Callers : WF_vars(Proceed(c))

-----------------------------------------------------------------------------
(***************************************************************************)
(* Properties.                                                             *)
(***************************************************************************)

(* One upstream login at a time: whoever is between registering a flight   *)
(* and publishing it is the registered leader.  Two logins at once would   *)
(* invalidate each other's tokens and look like an attack.                 *)
OneLoginAtATime == \A c \in Callers : pc[c] \in Leading <=> leader = c

(* "A waiting caller can cancel independently; if the leader is cancelled, *)
(* live waiters elect a fresh leader": who leaves the line while its own   *)
(* context lives has an answer about the account, never an abortion.       *)
NoInheritedCancellation ==
  [][\A c \in Callers :
       pc[c] \in {"waiting", "woken"} /\ pc'[c] = "out" /\ ~over[c]
         => result'[c] \in {"ok", "failed"}]_vars

(* A successful call leaves with a token that is not older than the one it *)
(* came with: a flight's token is the one it minted, and the store never   *)
(* goes back, whoever joins, leads, fails and is cancelled in between.     *)
(* An admin's login overwrites the store in any order; after one, a call   *)
(* still leaves with a token.                                              *)
NeverOlder ==
  \A c \in Callers :
    pc[c] = "out" /\ result[c] = "ok"
      => token[c] # 0 /\ (bypassed \/ token[c] >= brought[c])

(* Every call returns: no waiter is left behind by a leader that fails,    *)
(* panics or is cancelled.  (Provided aborted flights come to an end: each *)
(* may be followed by a new leader that is aborted in turn.)               *)
AbortedFlight == \E c \in Callers : pc[c] = "publish" /\ result[c] = "aborted"
EveryCallReturns ==
  <>[]~AbortedFlight => \A c \in Callers : []<>(pc[c] = "out")
=============================================================================
