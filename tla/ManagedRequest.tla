---------------------------- MODULE ManagedRequest ----------------------------
(***************************************************************************)
(* A request served by managed accounts (internal/auth): it takes a slot   *)
(* of an account, makes sure of a token, works on a session of the account *)
(* and, when the account fails, refreshes the token or moves to another    *)
(* account, until it hands its slot back.  Requests share the slots, the   *)
(* counts of authentication failures and the accounts' AuthFailed marks.   *)
(*                                                                         *)
(* The pool appears as SlotLedger describes it, with one limit per account *)
(* and no limit over all; waiting for a slot may end without one at any    *)
(* time (a full queue, the context, the 30 seconds of a switch).  A login  *)
(* is what LoginCoordinator makes of it: it succeeds, is rejected by the   *)
(* upstream, or fails for another reason.                                  *)
(***************************************************************************)
EXTENDS Naturals, FiniteSets

CONSTANTS
  Accounts, Requests, None,
  PerAccount,    \* the limit per account
  MaxSwitches,   \* MaxAccountSwitches
  Threshold,     \* authFailureThreshold
  Targets,       \* the accounts requests may ask for; None: any account
  Repairs        \* whether tool calls are repaired by the request's own model

ASSUME RequestAssumption ==
  /\ None \notin Accounts
  /\ PerAccount \in Nat \ {0} /\ MaxSwitches \in Nat /\ Threshold \in Nat \ {0}
  /\ Targets \subseteq Accounts \cup {None}
  /\ Repairs \in BOOLEAN

VARIABLES
  inUse,      \* inUse[a]: slots of a the pool counts
  failures,   \* authFailures
  flagged,    \* flagged[a]: AuthFailed, which keeps a from being scheduled
  at,         \* at[r]: where request r is
  auth,       \* auth[r]: its RequestAuth
  session,    \* session[r]: the account whose session r works on, or None
  counted     \* history: accounts r has reported as failed, by the way it met them

vars == <<inUse, failures, flagged, at, auth, session, counted>>

(* pc: "pick" and "ensure" take an account, "lift" and "note", "persist"   *)
(* tell of a login or of a failure, "reject" and "relogin" answer a        *)
(* rejected token, "leave" is the entry of SwitchAccount, "serve" works,   *)
(* "end" is the handler's end.                                             *)
(* phase: what a new token is for.  layer: who is working.  "upload" (of   *)
(* context files), "open" and "turn" (of a session) stay on the account;   *)
(* "file" and "outer" are the boundaries that may upload again, or rebuild *)
(* everything, on another one.  cause: what ended an upload.               *)
Place == [pc : {"out", "pick", "ensure", "lift", "note", "persist",
                "reject", "relogin", "leave", "serve", "end"},
          phase : {"begin", "switch", "refresh"},
          layer : {"upload", "file", "open", "turn", "outer", "repair"},
          cause : {"token", "account"}]

Auth == [acct : Accounts \cup {None}, target : Accounts \cup {None},
         tried : SUBSET Accounts, released : SUBSET Accounts,
         used : SUBSET Accounts, failed : SUBSET Accounts,
         refreshed : SUBSET Accounts, refused : SUBSET Accounts,
         switches : 0..MaxSwitches, cleanup : Accounts \cup {None}]

(* What a request has reported: when it took an account (at its beginning  *)
(* or by a switch), and when it refreshed the token of the one it had.     *)
Reported == [take : SUBSET Accounts, refresh : SUBSET Accounts]

TypeOK ==
  /\ inUse \in [Accounts -> Nat]
  /\ failures \in [Accounts -> 0..Threshold]
  /\ flagged \in [Accounts -> BOOLEAN]
  /\ at \in [Requests -> Place] /\ auth \in [Requests -> Auth]
  /\ session \in [Requests -> Accounts \cup {None}]
  /\ counted \in [Requests -> Reported]

(* A fresh RequestAuth: refreshed and refused are authRefreshState.        *)
NewAuth(a, target, tried) ==
  [acct |-> a, target |-> target, tried |-> tried, released |-> {},
   used |-> {}, failed |-> {}, refreshed |-> {}, refused |-> {},
   switches |-> 0, cleanup |-> None]

NothingReported == [take |-> {}, refresh |-> {}]

Start == [pc |-> "out", phase |-> "begin", layer |-> "outer", cause |-> "token"]

Init ==
  /\ inUse = [a \in Accounts |-> 0]
  /\ failures = [a \in Accounts |-> 0]
  /\ flagged = [a \in Accounts |-> FALSE]
  /\ at = [r \in Requests |-> Start]
  /\ auth = [r \in Requests |-> NewAuth(None, None, {})]
  /\ session = [r \in Requests |-> None]
  /\ counted = [r \in Requests |-> NothingReported]

-----------------------------------------------------------------------------

Acct(r) == auth[r].acct
Goto(r, pc) == at' = [at EXCEPT ![r].pc = pc]
Serve(r, layer) == at' = [at EXCEPT ![r] = [Start EXCEPT !.pc = "serve", !.layer = layer]]
Leave(r) == at' = [at EXCEPT ![r] = Start]
Here(r, pc) == at[r].pc = pc
Working(r, layer) == Here(r, "serve") /\ at[r].layer = layer

(* The request holds a slot of Acct(r).                                    *)
Leasing(r) == Acct(r) # None /\ Acct(r) \notin auth[r].released

Schedulable == {a \in Accounts : ~flagged[a]}

(* PinAccount: an upload or an operation on a session keeps its account.   *)
Fixed(r) == at[r].layer \in {"upload", "open", "turn"}

(* AccountPinned: so does a request that named its account.                *)
Pinned(r) == auth[r].target # None \/ Fixed(r)

(* Pool.Release.                                                           *)
Returned(a) == [inUse EXCEPT ![a] = IF @ = 0 THEN 0 ELSE @ - 1]

\* Faulty variant: the slot is returned however often it is asked for.
ReturnedAgain(r) == Returned(Acct(r))

(* releaseAccountSlot: at most once per account and request.               *)
SlotReturned(r) == IF Leasing(r) THEN Returned(Acct(r)) ELSE inUse

(* Back from RecoverAuthFailure or SwitchAccount with a token.  A boundary *)
(* uploads the context files again; a repair has one attempt, which a new  *)
(* account uses up; a pinned operation is repeated.                        *)
Recovered(r, moved) ==
  Serve(r, CASE at[r].layer \in {"file", "outer"} -> "upload"
             [] at[r].layer = "repair" /\ moved -> "outer"
             [] OTHER -> at[r].layer)

(* Back without one.  A pinned operation has more attempts, or reports the *)
(* rejected token to the boundary around it; the boundary of an upload     *)
(* passes the same error on to the outer one, which gives up; a failed     *)
(* repair leaves the turn as it was.                                       *)
Unrecovered(r) ==
  \/ Fixed(r) /\ Serve(r, at[r].layer)
  \/ /\ Fixed(r)
     /\ at' = [at EXCEPT ![r].pc = "reject",
                         ![r].layer = IF @ = "upload" THEN "file" ELSE "outer"]
  \/ /\ at[r].layer = "file"
     /\ at' = [at EXCEPT ![r].layer = "outer",
                         ![r].pc = IF at[r].cause = "token" THEN "reject" ELSE "leave"]
  \/ at[r].layer \in {"file", "outer"} /\ Goto(r, "end")
  \/ at[r].layer = "repair" /\ Serve(r, "outer")

-----------------------------------------------------------------------------
(***************************************************************************)
(* Taking an account: acquireManagedRequestAuthCore and SwitchAccount.     *)
(***************************************************************************)

Beginning(r) == at[r].phase = "begin"

Begin(r) ==
  /\ Here(r, "out")
  /\ Goto(r, "pick")
  /\ \E t \in Targets : auth' = [auth EXCEPT ![r] = NewAuth(None, t, {})]
  /\ UNCHANGED <<inUse, failures, flagged, session, counted>>

(* The loop's own test: as many accounts were tried as can be scheduled.   *)
Exhausted(r) ==
  /\ Beginning(r) /\ auth[r].target = None
  /\ Cardinality(auth[r].tried) >= Cardinality(Schedulable)

\* Faulty variant: the budget is only looked at when a switch begins.
SpentAtEntry(r) == Beginning(r) /\ Exhausted(r)

(* What keeps the loop from another turn.                                  *)
Spent(r) == IF Beginning(r) THEN Exhausted(r) ELSE auth[r].switches >= MaxSwitches

\* Faulty variant: one request too many is let in.
FreeForOneMore(a) == inUse[a] <= PerAccount

Free(a) == inUse[a] < PerAccount

Pick(r) ==
  /\ Here(r, "pick") /\ ~Spent(r)
  /\ \E a \in Schedulable \ auth[r].tried :
       /\ Free(a) /\ auth[r].target \in {None, a}
       /\ inUse' = [inUse EXCEPT ![a] = @ + 1]
       /\ auth' = [auth EXCEPT ![r] =
            IF Beginning(r) THEN NewAuth(a, auth[r].target, auth[r].tried)
            ELSE [auth[r] EXCEPT !.acct = a, !.switches = @ + 1]]
  /\ Goto(r, "ensure")
  /\ UNCHANGED <<failures, flagged, session, counted>>

(* The loop ends, or the wait ends without an account.                     *)
NoAccount(r) ==
  /\ Here(r, "pick")
  /\ IF Beginning(r) THEN Goto(r, "end") ELSE Unrecovered(r)
  /\ UNCHANGED <<inUse, failures, flagged, auth, session, counted>>

(* SwitchAccount returns at once: the account is pinned, the budget spent, *)
(* or the context or the time for waiting has ended.                       *)
Refuse(r) ==
  /\ Here(r, "leave")
  /\ Unrecovered(r)
  /\ UNCHANGED <<inUse, failures, flagged, auth, session, counted>>

\* Faulty variant: the session's clean-up is left to the end of the request.
KeepsCleanup(r) == auth[r].cleanup

(* CleanupAccountResources: the callback is taken out and run.             *)
Retired(r) == None

(* SwitchAccount lets the account go before it looks for another one.      *)
StartSwitch(r) ==
  /\ Here(r, "leave") /\ ~Pinned(r) /\ auth[r].switches < MaxSwitches
  /\ auth' = [auth EXCEPT ![r].cleanup = Retired(r),
                          ![r].tried = @ \cup {Acct(r)},
                          ![r].released = @ \cup {Acct(r)}]
  /\ inUse' = SlotReturned(r)
  /\ at' = [at EXCEPT ![r].pc = "pick", ![r].phase = "switch"]
  /\ UNCHANGED <<failures, flagged, session, counted>>

-----------------------------------------------------------------------------
(***************************************************************************)
(* Tokens and failures: ensureManagedToken, RecoverAuthFailure,            *)
(* RefreshTokenOnce, MarkAuthFailure, NoteLoginSuccess.                    *)
(***************************************************************************)

(* The request has a token of Acct(r).                                     *)
TokenReady(r) ==
  /\ auth' = IF at[r].phase = "refresh"
             THEN [auth EXCEPT ![r].refreshed = @ \cup {Acct(r)}]
             ELSE [auth EXCEPT ![r].used = @ \cup {Acct(r)}]
  /\ Recovered(r, at[r].phase = "switch")

WantsToken(r) == Here(r, "ensure") \/ Here(r, "relogin")

(* A stored token will do, or another request has logged in.               *)
HasToken(r) ==
  /\ WantsToken(r)
  /\ TokenReady(r)
  /\ UNCHANGED <<inUse, failures, flagged, session, counted>>

(* What follows when the account has failed, by what the token was for.    *)
AfterFailure(r) ==
  CASE at[r].phase = "refresh" -> Goto(r, "leave")
    [] Beginning(r) /\ auth[r].target # None -> Goto(r, "end")
    [] OTHER -> Goto(r, "pick")

\* Faulty variant: the loop may come back to an account that has failed.
TriedBefore(r) == auth[r].tried

(* The accounts not to be taken again.                                     *)
TriedNow(r) == auth[r].tried \cup {Acct(r)}

(* Without a token, outside a refresh, the account is let go.              *)
NoToken(r) ==
  IF at[r].phase = "refresh"
  THEN /\ auth' = [auth EXCEPT ![r].refused = @ \cup {Acct(r)}]
       /\ UNCHANGED inUse
  ELSE /\ auth' = [auth EXCEPT ![r].tried = TriedNow(r),
                               ![r].released = @ \cup {Acct(r)}]
       /\ inUse' = SlotReturned(r)

(* NoteLoginSuccess forgets the failures and then, under another lock,     *)
(* lifts the mark.  Saving the new token may fail.                         *)
LoginSucceeds(r) ==
  /\ WantsToken(r)
  /\ failures' = [failures EXCEPT ![Acct(r)] = 0]
  /\ Goto(r, "lift")
  /\ UNCHANGED <<inUse, flagged, auth, session, counted>>
Lift(r) ==
  /\ Here(r, "lift")
  /\ flagged' = [flagged EXCEPT ![Acct(r)] = FALSE]
  /\ \/ TokenReady(r) /\ UNCHANGED inUse
     \/ NoToken(r) /\ AfterFailure(r)
  /\ UNCHANGED <<failures, session, counted>>

(* A rejection is reported; an empty pool of device identifiers ends the   *)
(* request at once.                                                        *)
LoginFails(r) ==
  /\ WantsToken(r)
  /\ NoToken(r)
  /\ \/ Goto(r, "note")
     \/ AfterFailure(r)
     \/ Beginning(r) /\ Goto(r, "end")
  /\ UNCHANGED <<failures, flagged, session, counted>>

(* A count of failures is only compared with Threshold, and stays there.   *)
OneMore(n) == IF n < Threshold THEN n + 1 ELSE n

(* MarkAuthFailure counts, and from Threshold on removes the account.      *)
Note(r) ==
  /\ Here(r, "note")
  /\ auth' = [auth EXCEPT ![r].failed = @ \cup {Acct(r)}]
  /\ counted' = IF at[r].phase = "refresh"
                THEN [counted EXCEPT ![r].refresh = @ \cup {Acct(r)}]
                ELSE [counted EXCEPT ![r].take = @ \cup {Acct(r)}]
  /\ failures' = [failures EXCEPT ![Acct(r)] = OneMore(@)]
  /\ IF failures'[Acct(r)] < Threshold THEN AfterFailure(r) ELSE Goto(r, "persist")
  /\ UNCHANGED <<inUse, flagged, session>>
Persist(r) ==
  /\ Here(r, "persist")
  /\ flagged' = [flagged EXCEPT ![Acct(r)] = TRUE]
  /\ AfterFailure(r)
  /\ UNCHANGED <<inUse, failures, auth, session, counted>>

\* Faulty variant: both layers report the same rejected refresh.
ReportsTwice(r) == Acct(r) \in auth[r].refreshed

(* The refreshed token was rejected, and that is not reported yet.         *)
Reports(r) == Acct(r) \in auth[r].refreshed \ auth[r].failed

(* RecoverAuthFailure.                                                     *)
Recover(r) ==
  /\ Here(r, "reject")
  /\ at' = [at EXCEPT ![r].phase = "refresh", ![r].pc =
       CASE Reports(r) -> "note"
         [] Acct(r) \in auth[r].refreshed \cup auth[r].refused -> "leave"
         [] OTHER -> "relogin"]
  /\ UNCHANGED <<inUse, failures, flagged, auth, session, counted>>

-----------------------------------------------------------------------------
(***************************************************************************)
(* Working: the calls of completionruntime, as far as they change accounts.*)
(***************************************************************************)

(* The upstream rejects the token; or the account fails the request for    *)
(* another reason and a boundary may move it, or gives up.                 *)
Rejected(r) == Goto(r, "reject")
AccountFails(r, layer) ==
  at' \in {[at EXCEPT ![r].pc = pc, ![r].layer = layer, ![r].cause = "account"] :
              pc \in {"leave", "end"}}

(* retryContextFileAccount: an upload on one account, pinned.              *)
Upload(r) ==
  /\ Working(r, "upload")
  /\ \/ Serve(r, "open")
     \/ Rejected(r)
     \/ AccountFails(r, "file")
     \/ AccountFails(r, "outer")
  /\ UNCHANGED <<inUse, failures, flagged, auth, session, counted>>

(* createCompletionSession, pinned: the session before it is retired.      *)
Open(r) ==
  /\ Working(r, "open")
  /\ \/ /\ Serve(r, "outer")
        /\ session' = [session EXCEPT ![r] = Acct(r)]
        /\ auth' = [auth EXCEPT ![r].cleanup = Acct(r)]
     \/ /\ (Rejected(r) \/ AccountFails(r, "outer"))
        /\ auth' = [auth EXCEPT ![r].cleanup = Retired(r)]
        /\ UNCHANGED session
  /\ UNCHANGED <<inUse, failures, flagged, counted>>

(* Another turn on the session, with a new proof of work, pinned.          *)
Turn(r) ==
  /\ Working(r, "turn")
  /\ (Serve(r, "outer") \/ Rejected(r) \/ AccountFails(r, "outer"))
  /\ UNCHANGED <<inUse, failures, flagged, auth, session, counted>>

(* A turn has been read: another one, a repair of its tool calls, a failed *)
(* account, or the end.                                                    *)
Read(r) ==
  /\ Working(r, "outer")
  /\ \/ Serve(r, "turn")
     \/ Repairs /\ Serve(r, "repair")
     \/ Rejected(r)
     \/ AccountFails(r, "outer")
  /\ UNCHANGED <<inUse, failures, flagged, auth, session, counted>>

(* callOriginalRepair works with the request's own RequestAuth, and does   *)
(* not pin it.  Whatever comes of it, the turn goes on.                    *)
Repair(r) ==
  /\ Working(r, "repair")
  /\ (Serve(r, "outer") \/ Rejected(r) \/ Goto(r, "leave"))
  /\ UNCHANGED <<inUse, failures, flagged, auth, session, counted>>

(* Resolver.Release: the session is retired, the accounts that worked are  *)
(* sound again, the slot goes back.  (A request that never got an account  *)
(* has nothing of all that.)                                               *)
Sound(r) == auth[r].used \ auth[r].failed
End(r) ==
  /\ Here(r, "end")
  /\ failures' = [a \in Accounts |-> IF a \in Sound(r) THEN 0 ELSE failures[a]]
  /\ inUse' = SlotReturned(r)
  /\ Leave(r)
  /\ auth' = [auth EXCEPT ![r] = NewAuth(None, None, {})]
  /\ session' = [session EXCEPT ![r] = None]
  /\ counted' = [counted EXCEPT ![r] = NothingReported]
  /\ UNCHANGED flagged

(* An admin enables an account again, which lifts the mark.                *)
AdminEnables(a) ==
  /\ flagged[a]
  /\ flagged' = [flagged EXCEPT ![a] = FALSE]
  /\ UNCHANGED <<inUse, failures, at, auth, session, counted>>

Step(r) ==
  \/ Pick(r) \/ NoAccount(r) \/ Refuse(r) \/ StartSwitch(r)
  \/ HasToken(r) \/ LoginSucceeds(r) \/ Lift(r) \/ LoginFails(r)
  \/ Note(r) \/ Persist(r) \/ Recover(r) \/ End(r)

Work(r) == Upload(r) \/ Open(r) \/ Turn(r) \/ Read(r) \/ Repair(r)

Next ==
  \/ \E r \in Requests : Begin(r) \/ Step(r) \/ Work(r)
  \/ \E a \in Accounts : AdminEnables(a)

Spec == Init /\ [][Next]_vars

(* Waits for a slot are bounded and logins return.                         *)
FairSpec == Spec /\ \A r \in Requests : WF_vars(Step(r))

-----------------------------------------------------------------------------
(***************************************************************************)
(* Properties.                                                             *)
(***************************************************************************)

Holders(a) == {r \in Requests : Leasing(r) /\ Acct(r) = a}

(* The pool's count of an account is the number of requests that hold it,  *)
(* through every failed switch, refused login and double release.          *)
SlotsMatchLeases == \A a \in Accounts : inUse[a] = Cardinality(Holders(a))

(* Requests take and return slots as the ledger allows: a request that     *)
(* moves has given its slot back before, and never holds two.              *)
Ledger == INSTANCE SlotLedger WITH
  Callers <- Requests,
  lease <- [r \in Requests |-> IF Leasing(r) THEN Acct(r) ELSE None],
  perAccount <- PerAccount, total <- 0, shut <- FALSE
ImplementsLedger == Ledger!Spec

(* "A rejected refresh is not counted twice": whatever layers the rejection *)
(* of an account passes, a request reports one failed refresh of it, and a *)
(* failed login on taking it only if it was not reported before.  So an    *)
(* account is charged at most twice by a request: by the switch that took  *)
(* it, and by the refresh of a layer outside that found it still there.    *)
CountedOncePerWay ==
  \A r \in Requests : Here(r, "note") =>
    Acct(r) \notin counted[r].refresh
                   \cup IF at[r].phase = "refresh" THEN {} ELSE counted[r].take

(* "Cleanup runs before changing credentials/owner": a session registered  *)
(* for clean-up belongs to the account the request works with, so the      *)
(* clean-up is run with the credentials the session was created with.      *)
CleanupByOwner ==
  \A r \in Requests : auth[r].cleanup \in {None, Acct(r)}

(* A request that looks for an account or recovers comes to an end of it.  *)
RecoveryEnds ==
  \A r \in Requests : []<>(at[r].pc \in {"out", "serve"})

(* "When an account fails the next one takes over and the request goes on":*)
(* the loop gives up only when every account it could schedule was tried.  *)
GivesUpAfterAll ==
  \A r \in Requests :
    Here(r, "pick") /\ Exhausted(r) => Schedulable \subseteq auth[r].tried

(* "Retrying an existing session cannot silently move its PoW to another   *)
(* owner": a turn is taken with the account the session belongs to.        *)
TurnsOnOwner ==
  \A r \in Requests : Working(r, "turn") => session[r] = Acct(r)

(* A request works on an account only while it holds a slot of it, or the  *)
(* next request is admitted on top of it.                                  *)
WorksOnItsSlot ==
  \A r \in Requests : Working(r, "upload") \/ Working(r, "open") => Leasing(r)
=============================================================================
