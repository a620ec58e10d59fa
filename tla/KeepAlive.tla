------------------------------ MODULE KeepAlive ------------------------------
(***************************************************************************)
(* Keep-alive pings (keepalive/manager.go).  An account that serves a      *)
(* request gets a timer; when it fires, the manager takes a slot of the    *)
(* pool, sends a prompt of its own and puts the slot back.  Requests while *)
(* the timer runs or the ping is under way change nothing.                 *)
(*                                                                         *)
(* m.mu is held for each of OnAccountRequest, Start, Retry and Reset.  The *)
(* timer's function runs in a goroutine of its own, here a job; whether an *)
(* account has a free slot is the pool's matter (see AccountPool).         *)
(***************************************************************************)
EXTENDS Naturals, FiniteSets

CONSTANTS
  PingAccounts,   \* accounts
  Jobs,           \* timers and their goroutines (bound on those at a time)
  NoJob           \* no timer

ASSUME NoJobAssumption == NoJob \notin Jobs /\ PingAccounts # {}

VARIABLES
  timers,     \* the entry of each account, see NoEntry
  jobs,       \* where each job is, and of which account it is
  pingsOn,    \* KeepAliveEnabled
  standing,   \* of each account in the store
  shutdown    \* "open", "closing" (Close waits) or "closed" (it has returned)

keepAliveVars == <<timers, jobs, pingsOn, standing, shutdown>>

NoEntry == [known |-> FALSE, active |-> FALSE, job |-> NoJob, retries |-> 0]
Idle == [NoEntry EXCEPT !.known = TRUE]
MaxRetries == 2

(* "due": the timer has fired; "sent": the ping holds a slot; "reset": the *)
(* account may have a new timer, the slot is still held.                   *)
Counted == {"counted", "enabled", "found", "sent", "reset"}
Windows == {"armed", "due", "counted", "enabled", "found", "sent"}

KeepAliveTypeOK ==
  /\ timers \in [PingAccounts -> [known : BOOLEAN, active : BOOLEAN,
                                  job : Jobs \cup {NoJob}, retries : 0..MaxRetries]]
  /\ jobs \in [Jobs -> [at : {"free"} \cup Windows \cup Counted, of : PingAccounts]]
  /\ pingsOn \in BOOLEAN
  /\ standing \in [PingAccounts -> {"schedulable", "off", "missing"}]
  /\ shutdown \in {"open", "closing", "closed"}

KeepAliveInit ==
  /\ timers = [a \in PingAccounts |-> NoEntry]
  /\ jobs = [j \in Jobs |-> [at |-> "free", of |-> CHOOSE a \in PingAccounts : TRUE]]
  /\ pingsOn = TRUE
  /\ standing = [a \in PingAccounts |-> "schedulable"]
  /\ shutdown = "open"

-----------------------------------------------------------------------------

At(j, place) == jobs[j].at = place
Moved(js, j, place) == [js EXCEPT ![j].at = place]

(* Timer.Stop: a timer that has fired already is not held back.            *)
Halted(js, halt) ==
  [j \in Jobs |-> IF j \in halt /\ js[j].at = "armed" THEN [js[j] EXCEPT !.at = "free"]
                  ELSE js[j]]

MayArm(a) == ~timers[a].active

OnAccountRequest(a) ==
  /\ pingsOn /\ shutdown = "open" /\ MayArm(a)
  /\ \E j \in Jobs :
       /\ At(j, "free")
       /\ timers' = [timers EXCEPT ![a] = [Idle EXCEPT !.active = TRUE, !.job = j]]
       /\ jobs' = [jobs EXCEPT ![j] = [at |-> "armed", of |-> a]]
  /\ UNCHANGED <<pingsOn, standing, shutdown>>

Fire(j) ==
  /\ At(j, "armed")
  /\ jobs' = Moved(jobs, j, "due")
  /\ UNCHANGED <<timers, pingsOn, standing, shutdown>>

\* Faulty variant: the goroutine is counted without a look at stopped.
StartsAnyway == TRUE

Starts == shutdown = "open"

Start(j) ==
  /\ At(j, "due")
  /\ jobs' = Moved(jobs, j, IF Starts THEN "counted" ELSE "free")
  /\ UNCHANGED <<timers, pingsOn, standing, shutdown>>

(* resetAccountTimer, and where the job is then.                           *)
ResetTo(j, place) ==
  LET a == jobs[j].of
  IN /\ timers' = [timers EXCEPT ![a] = IF timers[a].known THEN Idle ELSE NoEntry]
     /\ jobs' = Moved(Halted(jobs, {timers[a].job}), j, place)
ForgetAccount(j) ==
  LET a == jobs[j].of
  IN /\ timers' = [timers EXCEPT ![a] = NoEntry]
     /\ jobs' = Moved(Halted(jobs, {timers[a].job}), j, "free")
MovesTo(j, place) == jobs' = Moved(jobs, j, place) /\ UNCHANGED timers

CheckEnabled(j) ==
  /\ At(j, "counted")
  /\ IF pingsOn THEN MovesTo(j, "enabled") ELSE ResetTo(j, "free")
  /\ UNCHANGED <<pingsOn, standing, shutdown>>

\* Faulty variant: a job of an account that is not schedulable just ends.
SkippedQuietly(j) == MovesTo(j, "free")

Skipped(j) == ResetTo(j, "free")

FindAccount(j) ==
  /\ At(j, "enabled")
  /\ CASE standing[jobs[j].of] = "missing" -> ForgetAccount(j)
       [] standing[jobs[j].of] = "off" -> Skipped(j)
       [] OTHER -> MovesTo(j, "found")
  /\ UNCHANGED <<pingsOn, standing, shutdown>>

AcquireKeepAlive(j) ==
  /\ At(j, "found") /\ standing[jobs[j].of] = "schedulable"
  /\ MovesTo(j, "sent")
  /\ UNCHANGED <<pingsOn, standing, shutdown>>

RetriesLeft(entry) == entry.active /\ entry.retries < MaxRetries /\ shutdown = "open"

(* The pool has no slot, or refuses one: try again in a minute.            *)
Busy(j) ==
  LET a == jobs[j].of
  IN /\ At(j, "found")
     /\ IF RetriesLeft(timers[a])
        THEN /\ timers' = [timers EXCEPT ![a].job = j,
                                         ![a].retries = IF @ < MaxRetries THEN @ + 1 ELSE @]
             /\ jobs' = Moved(jobs, j, "armed")
        ELSE ResetTo(j, "free")
     /\ UNCHANGED <<pingsOn, standing, shutdown>>

(* executeKeepAlive returns, whatever came of it; then the deferred calls. *)
PingEnds(j) ==
  /\ At(j, "sent")
  /\ ResetTo(j, "reset")
  /\ UNCHANGED <<pingsOn, standing, shutdown>>
ReleaseSlot(j) ==
  /\ At(j, "reset")
  /\ MovesTo(j, "free")
  /\ UNCHANGED <<pingsOn, standing, shutdown>>

CloseBegins ==
  /\ shutdown = "open"
  /\ jobs' = Halted(jobs, {timers[a].job : a \in PingAccounts})
  /\ timers' = [a \in PingAccounts |-> NoEntry]
  /\ shutdown' = "closing"
  /\ UNCHANGED <<pingsOn, standing>>
CloseReturns ==
  /\ shutdown = "closing" /\ \A j \in Jobs : jobs[j].at \notin Counted
  /\ shutdown' = "closed"
  /\ UNCHANGED <<timers, jobs, pingsOn, standing>>

(* An administrator switches keep-alive, or removes, disables, adds an     *)
(* account.  Nobody tells the manager.                                     *)
Administers ==
  /\ \/ pingsOn' = ~pingsOn /\ UNCHANGED standing
     \/ /\ \E a \in PingAccounts, s \in {"schedulable", "off", "missing"} :
             standing' = [standing EXCEPT ![a] = s]
        /\ UNCHANGED pingsOn
  /\ UNCHANGED <<timers, jobs, shutdown>>

JobSteps(j) ==
  \/ Fire(j) \/ Start(j) \/ CheckEnabled(j) \/ FindAccount(j)
  \/ AcquireKeepAlive(j) \/ Busy(j) \/ PingEnds(j) \/ ReleaseSlot(j)
KeepAliveNext ==
  \/ \E a \in PingAccounts : OnAccountRequest(a)
  \/ \E j \in Jobs : JobSteps(j)
  \/ CloseBegins \/ CloseReturns \/ Administers

KeepAliveSpec == KeepAliveInit /\ [][KeepAliveNext]_keepAliveVars

(* Timers fire, goroutines run and a ping ends within its 120 s.           *)
FairKeepAliveSpec ==
  /\ KeepAliveSpec
  /\ \A j \in Jobs : WF_keepAliveVars(JobSteps(j))
  /\ WF_keepAliveVars(CloseReturns)

-----------------------------------------------------------------------------
(***************************************************************************)
(* Properties.                                                             *)
(***************************************************************************)

(* While the manager is open, an account is marked active exactly as long  *)
(* as one job, the one its entry names, has its window: no path out of the *)
(* job leaves the account marked for ever, none lets a second job in.      *)
(* When Close has returned no ping is under way and none will start: the   *)
(* transport and the pool that are closed next have no user left here.     *)
OneWindowPerAccount ==
  /\ \A a \in PingAccounts :
       LET window == {j \in Jobs : jobs[j].of = a /\ jobs[j].at \in Windows}
       IN shutdown = "open" => window = IF timers[a].active THEN {timers[a].job} ELSE {}
  /\ shutdown = "closed" => \A j \in Jobs : jobs[j].at \notin Counted

(* Every window comes to an end, so that a later request starts a new one; *)
(* and Close returns.                                                      *)
WindowsEnd ==
  \A a \in PingAccounts : []<>(~timers[a].active /\ shutdown # "closing")
=============================================================================
