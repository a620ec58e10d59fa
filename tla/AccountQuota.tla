---------------------------- MODULE AccountQuota ----------------------------
(***************************************************************************)
(* The two request quotas the account pool keeps per account.              *)
(*                                                                         *)
(*  - The minute window (pool_rate_limit.go): a window opens with the      *)
(*    first request, an account whose count reaches the limit is blocked,  *)
(*    and the window ends either by its timer callback or lazily, when     *)
(*    somebody looks at the entry after the window has elapsed.            *)
(*                                                                         *)
(*  - The daily quota (pool_daily_limit.go): whether an account is spent   *)
(*    is computed from today's count.  Counts are written to a file, at    *)
(*    most once per persist interval with a trailing flush, and at once    *)
(*    when a count reaches the limit.                                      *)
(*                                                                         *)
(* Everything here runs under the pool's mutex.  The operators are the     *)
(* fragments of the pool's actions that touch this state; AccountPool      *)
(* composes them.  Time is abstract: a window or an interval "elapses" at  *)
(* any moment after it has opened.                                         *)
(***************************************************************************)
EXTENDS Naturals, FiniteSets

CONSTANTS
  Accounts,       \* identifiers of accounts
  Settings,       \* values the runtime section of the configuration may take
  MaxDay,         \* the last day the model looks at (bound)
  WritesMayFail   \* whether a write of the daily file may fail

ASSUME QuotaAssumption ==
  /\ IsFiniteSet(Accounts)
  /\ MaxDay \in Nat \ {0}
  /\ WritesMayFail \in BOOLEAN
  /\ Settings \subseteq [per : Nat \ {0}, queue : Nat, total : Nat,
                         rate : Nat, daily : Nat]

VARIABLES
  conf,      \* the runtime section in the store; rate, daily = 0: limiter off
  rate,      \* rate[a]: the minute window of account a
  daily,     \* dailyDate and dailyCounts; date 0 is the empty date
  disk,      \* the state file: the last [date, counts] written, or NoFile
  stale,     \* the last write of the file failed
  flush,     \* dailyFlushTimer: "off", "armed" or "due" (its delay is over)
  recent,    \* dailyLastPersist is younger than the persist interval
  today      \* the GMT+8 day the clock shows

quotaVars == <<rate, daily, disk, stale, flush, recent>>

-----------------------------------------------------------------------------

Window == [win : {"none", "open", "elapsed"}, count : Nat, blocked : BOOLEAN]
NoWindow == [win |-> "none", count |-> 0, blocked |-> FALSE]

NoCounts == [a \in Accounts |-> 0]
Ledger == [date : 0..MaxDay, counts : [Accounts -> Nat]]
NoFile == [date |-> 0, counts |-> NoCounts]

(* The minute limit is enforced on a: an elapsed window no longer counts.  *)
RateLimited(a) == conf.rate > 0 /\ rate[a].win # "elapsed" /\ rate[a].blocked

(* What a look at the entries does: every elapsed window that is looked    *)
(* at is zeroed on the spot and its timer callback becomes a no-op.  Which *)
(* accounts a scan looks at depends on where it stops, so any subset of    *)
(* the elapsed windows may be zeroed by a pass.                            *)
ElapsedWindows == {a \in Accounts : conf.rate > 0 /\ rate[a].win = "elapsed"}
Glanced ==
  {[a \in Accounts |-> IF a \in S THEN NoWindow ELSE rate[a]] :
     S \in SUBSET ElapsedWindows}

(* One more request in window w: the first one opens a window.             *)
Counted(w) ==
  LET n == IF w.win = "open" THEN w.count + 1 ELSE 1
  IN  [win |-> "open", count |-> n,
       blocked |-> n >= conf.rate \/ (w.win = "open" /\ w.blocked)]

RecordRate(a) ==
  IF conf.rate > 0
  THEN \E f \in Glanced : rate' = [f EXCEPT ![a] = Counted(f[a])]
  ELSE UNCHANGED rate

-----------------------------------------------------------------------------

DailyOn == conf.daily > 0

(* Today's counts: a ledger of another day counts for nothing.             *)
TodayCounts == IF daily.date = today THEN daily.counts ELSE NoCounts
DailyLimited(a) == DailyOn /\ TodayCounts[a] >= conf.daily

(* The atomic replacement of the state file: all of it or none of it.  A   *)
(* failed write is only logged.                                            *)
Persist(ledger) ==
  \/ disk' = ledger /\ stale' = FALSE
  \/ WritesMayFail /\ UNCHANGED disk /\ stale' = TRUE

EmptyDay == [date |-> today, counts |-> NoCounts]

(* The change of day, noticed by whoever looks at the counts next.         *)
RollDay ==
  IF DailyOn /\ daily.date # today
  THEN daily' = EmptyDay /\ Persist(daily')
  ELSE UNCHANGED <<daily, disk, stale>>

\* Faulty variant: a full count waits for its turn.
OnlyThrottled(full) == ~recent

(* A count that is full is written at once, others at most once per        *)
(* persist interval.                                                       *)
WrittenNow(full) == full \/ ~recent

(* One more request of a today.  A count that reaches the limit is written *)
(* at once; others open the persist interval or wait for the flush.  On a  *)
(* new day the empty ledger is written first, and that write may be the    *)
(* only one that succeeds.                                                 *)
RecordDaily(a) ==
  LET ledger == [date |-> today, counts |-> [TodayCounts EXCEPT ![a] = @ + 1]]
      full == ledger.counts[a] >= conf.daily
  IN  IF ~DailyOn THEN UNCHANGED <<daily, disk, stale, flush, recent>>
      ELSE /\ daily' = ledger
           /\ \/ /\ WrittenNow(full)
                 /\ \/ Persist(ledger)
                    \/ /\ WritesMayFail /\ daily.date # today
                       /\ disk' = EmptyDay /\ stale' = TRUE
                 /\ recent' = (recent \/ ~full)
                 /\ UNCHANGED flush
              \/ /\ ~WrittenNow(full)
                 /\ IF daily.date # today
                    THEN Persist(EmptyDay)
                    ELSE UNCHANGED <<disk, stale>>
                 /\ flush' = IF flush = "off" THEN "armed" ELSE flush
                 /\ UNCHANGED recent

(* A granted request is counted against both quotas.                       *)
RecordRequest(a) == RecordRate(a) /\ RecordDaily(a)

(* A pass that grants nothing may zero elapsed windows and notice the day. *)
Glance ==
  /\ rate' \in Glanced
  /\ RollDay \/ UNCHANGED <<daily, disk, stale>>
  /\ UNCHANGED <<flush, recent>>

-----------------------------------------------------------------------------

\* Faulty variant: turning the limiter off forgets the window, not the block.
ResyncedRateKeepsBlock ==
  [a \in Accounts |->
     IF conf.rate = 0 THEN [rate[a] EXCEPT !.win = "none"]
     ELSE [rate[a] EXCEPT !.blocked = rate[a].count >= conf.rate]]

(* SyncRateLimits: the new limit is applied to the counts so far.          *)
ResyncedRate ==
  [a \in Accounts |->
     IF conf.rate = 0 \/ rate[a].win = "elapsed" THEN NoWindow
     ELSE [rate[a] EXCEPT !.blocked = rate[a].count >= conf.rate]]
RateRecovers == \E a \in Accounts : rate[a].blocked /\ ~ResyncedRate[a].blocked

(* SyncDailyLimits: turning the quota off forgets the counts.              *)
ForgetsCounts == ~DailyOn /\ daily.counts # NoCounts
ResyncDaily ==
  IF ForgetsCounts
  THEN daily' = EmptyDay /\ Persist(daily')
  ELSE RollDay

(* Reset drops the entries of accounts that left the configuration.  The   *)
(* file is not written.                                                    *)
PruneQuota(known) ==
  /\ rate' = [a \in Accounts |-> IF a \in known THEN rate[a] ELSE NoWindow]
  /\ daily' = [daily EXCEPT !.counts =
                 [a \in Accounts |-> IF a \in known THEN @[a] ELSE 0]]
  /\ UNCHANGED <<disk, stale, flush, recent>>

(* Close stops the timers; a pending flush is written now.                 *)
CloseQuota ==
  /\ rate' = [a \in Accounts |-> NoWindow]
  /\ flush' = "off"
  /\ IF flush # "off" THEN Persist(daily) ELSE UNCHANGED <<disk, stale>>
  /\ UNCHANGED <<daily, recent>>

(* startupDailyLimitCheck: a file of today is resumed, one of another day  *)
(* is replaced by an empty one, and without a file nothing is written.     *)
StartQuota ==
  /\ rate' = [a \in Accounts |-> NoWindow]
  /\ flush' = "off"
  /\ recent' = (disk.date # 0)
  /\ IF disk.date \in {0, today}
     THEN daily' = disk /\ UNCHANGED disk /\ stale' = FALSE
     ELSE daily' = EmptyDay /\ Persist(daily')

-----------------------------------------------------------------------------

QuotaInit ==
  /\ conf \in Settings
  /\ rate = [a \in Accounts |-> NoWindow]
  /\ daily = NoFile
  /\ disk = NoFile
  /\ stale = FALSE
  /\ flush = "off"
  /\ recent = FALSE
  /\ today = 1

QuotaTypeOK ==
  /\ conf \in Settings
  /\ rate \in [Accounts -> Window]
  /\ daily \in Ledger
  /\ disk \in Ledger
  /\ stale \in BOOLEAN
  /\ flush \in {"off", "armed", "due"}
  /\ recent \in BOOLEAN
  /\ today \in 1..MaxDay

(* The passage of time.                                                    *)
RateWindowElapses(a) ==
  /\ rate[a].win = "open"
  /\ rate' = [rate EXCEPT ![a].win = "elapsed"]
  /\ UNCHANGED <<conf, daily, disk, stale, flush, recent, today>>

PersistIntervalElapses ==
  /\ recent
  /\ recent' = FALSE
  /\ flush' = IF flush = "armed" THEN "due" ELSE flush
  /\ UNCHANGED <<conf, rate, daily, disk, stale, today>>

NextDay ==
  /\ today < MaxDay
  /\ today' = today + 1
  /\ UNCHANGED <<conf, rate, daily, disk, stale, flush, recent>>
=============================================================================
