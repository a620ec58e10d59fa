---------------------------- MODULE AccountRoster ----------------------------
(***************************************************************************)
(* Which accounts may serve requests (account/elastic.go and every handler *)
(* that changes an account's standing).  With the elastic pool on, a       *)
(* reconciliation keeps the first "count" fit accounts awake, in the order *)
(* of their priority, and puts the others to sleep; an account that is     *)
(* generating is not put to sleep.  With the pool off nobody sleeps.       *)
(*                                                                         *)
(* A handler reads which accounts are generating before its transaction on *)
(* the configuration, so what it has read may be old by then.  Each of the *)
(* three pool types is reconciled by itself; this is one of them.  What    *)
(* the account pool does with the result is AccountPool's matter.          *)
(***************************************************************************)
EXTENDS Naturals, FiniteSets, Sequences, SequencesExt

CONSTANTS
  Members,       \* accounts
  MaxCount,      \* counts an administrator may set: 0..MaxCount
  MaxStandings   \* changes of the roster or of a standing (bound)

ASSUME RosterAssumption ==
  IsFiniteSet(Members) /\ MaxCount \in Nat /\ MaxStandings \in Nat

VARIABLES
  list,       \* the accounts, in the order of priority
  marks,      \* why an account is unfit: ManualDisabled, Banned, AuthFailed,
              \* and "resting" (MutedUntil or CooldownUntil is ahead)
  disabled,   \* Disabled
  elastic,    \* ElasticPool: Enabled and the count
  generating, \* accounts with a slot in use
  seen,       \* what one slow handler has read of it
  due,        \* a rest has ended and the expiry timer has not run
  loose,      \* accounts that were imported, or given a token, and have not
              \* been through a transaction that sets Disabled
  guarded,    \* history: what the last reconciliation took for generating
  standings   \* how many of MaxStandings have happened

rosterVars == <<list, marks, disabled, elastic, generating, seen, due, loose, guarded,
                standings>>

Lasting == {"manual", "banned", "failed"}
Marks == Lasting \cup {"resting"}
Present == ToSet(list)
Rosters == {l \in SeqOf(Members, Cardinality(Members)) : IsInjective(l)}

RosterTypeOK ==
  /\ list \in Rosters
  /\ marks \in [Members -> SUBSET Marks]
  /\ disabled \subseteq Present /\ generating \subseteq Members /\ seen \subseteq Members
  /\ loose \subseteq Present /\ guarded \subseteq Members
  /\ elastic \in [on : BOOLEAN, count : 0..MaxCount] /\ due \in BOOLEAN
  /\ standings \in 0..MaxStandings

-----------------------------------------------------------------------------

Fit(ms, a) == ms[a] = {}

\* Faulty variant: an unfit account takes a place as well.
AwakeCountingAll(ms, a, taken, count, busy) == Fit(ms, a) /\ taken < count

(* applyElasticState                                                       *)
Awake(ms, a, taken, count, busy) == Fit(ms, a) /\ (a \in busy \/ taken < count)

(* reconcileGroupFiltered: who is disabled then.                           *)
Sleepers(l, ms, count, busy) ==
  LET taken[i \in 0..Len(l)] ==
        IF i = 0 THEN 0
        ELSE taken[i - 1] + (IF Awake(ms, l[i], taken[i - 1], count, busy) THEN 1 ELSE 0)
  IN {l[i] : i \in {j \in 1..Len(l) : ~Awake(ms, l[j], taken[j - 1], count, busy)}}

(* Accounts nobody complains of, in some order, with the elastic pool off, *)
(* or on when NewPool has reconciled.                                      *)
RosterInit ==
  /\ list = CHOOSE l \in Rosters : ToSet(l) = Members
  /\ marks = [a \in Members |-> {}]
  /\ elastic \in [on : BOOLEAN, count : 0..MaxCount]
  /\ disabled = IF elastic.on THEN Sleepers(list, marks, elastic.count, {}) ELSE {}
  /\ generating = {} /\ seen = {} /\ due = FALSE
  /\ loose = {} /\ guarded = {} /\ standings = 0

Regroups(l, ms, count, busy) ==
  /\ disabled' = Sleepers(l, ms, count, busy)
  /\ guarded' = busy /\ due' = FALSE /\ loose' = {}

Standing == standings < MaxStandings /\ standings' = standings + 1

(* The end of a transaction: the roster l with the marks ms; the disabled  *)
(* accounts d and the loose ones, unless the elastic pool has its say.     *)
Settles(l, ms, d, free) ==
  /\ list' = l /\ marks' = ms
  /\ \E busy \in {generating, seen} :
       IF elastic.on THEN Regroups(l, ms, elastic.count, busy)
       ELSE disabled' = d /\ loose' = free /\ UNCHANGED <<guarded, due>>
Transaction(l, ms, d, free) ==
  /\ Settles(l, ms, d, free) /\ Standing
  /\ UNCHANGED <<elastic, generating, seen>>

-----------------------------------------------------------------------------

(* A mute, or a cooldown after a captcha or a rate limit.                  *)
Rest(a) ==
  /\ a \in Present
  /\ Transaction(list, [marks EXCEPT ![a] = @ \cup {"resting"}], disabled, loose)

(* SetAccountBanned, persistBannedAccount and persistAuthFailed.           *)
Condemn(a, mark) ==
  /\ a \in Present
  /\ Transaction(list, [marks EXCEPT ![a] = @ \cup {mark}], disabled \cup {a}, loose)

(* A login has worked (clearBannedAccount, NoteLoginSuccess).              *)
Cleared(a, mark) ==
  Transaction(list, [marks EXCEPT ![a] = @ \ {mark}],
              IF "manual" \in marks[a] THEN disabled \cup {a} ELSE disabled \ {a},
              loose \ {a})
LoginSucceeds(a, mark) == a \in Present /\ mark \in marks[a] /\ Cleared(a, mark)

(* The switch of one account, or of all.                                   *)
ToggleEnabled(chosen, enabled) ==
  Transaction(list,
    [a \in Members |-> IF a \notin chosen THEN marks[a]
                       ELSE IF enabled THEN marks[a] \ {"manual", "failed"}
                       ELSE marks[a] \cup {"manual"}],
    IF enabled THEN disabled \ chosen ELSE disabled \cup chosen, loose \ chosen)

(* updateElasticPool; switched off, it leaves only manual switches.        *)
SetElastic(on, count) ==
  /\ elastic' = [on |-> on, count |-> count]
  /\ IF on THEN \E busy \in {generating, seen} : Regroups(list, marks, count, busy)
     ELSE /\ disabled' = {a \in Present : "manual" \in marks[a]}
          /\ loose' = {} /\ due' = FALSE /\ UNCHANGED guarded
  /\ Standing
  /\ UNCHANGED <<list, marks, generating, seen>>

(* Without the account, or with it at a place its priority gives it.       *)
Without(gone) ==
  LET kept[i \in 0..Len(list)] ==
        IF i = 0 THEN << >>
        ELSE IF list[i] \in gone THEN kept[i - 1] ELSE Append(kept[i - 1], list[i])
  IN kept[Len(list)]
Placed(a, l, i) == InsertAt(l, i, a)
Unmarked(chosen) == [a \in Members |-> IF a \in chosen THEN {} ELSE marks[a]]

AddAccount(a, i) ==
  /\ a \notin Present /\ i \in 1..Len(list) + 1
  /\ Transaction(Placed(a, list, i), Unmarked({a}), disabled, loose)

(* updateAccount: another priority, or a token that the user has pasted,   *)
(* which ends the failure but, with the elastic pool off, not the sleep.   *)
MoveAccount(a, i) ==
  /\ a \in Present /\ i \in 1..Len(list)
  /\ Transaction(Placed(a, Without({a}), i), marks, disabled, loose)
PasteToken(a) ==
  /\ a \in Present
  /\ Transaction(list, [marks EXCEPT ![a] = @ \ {"failed"}], disabled, loose \cup {a})

(* One account, or all that are banned.                                    *)
DeleteMembers(gone) ==
  Transaction(Without(gone), Unmarked(gone), disabled \ gone, loose \ gone)

(* The configuration page writes the whole list anew.                      *)
RewriteAccounts(l) ==
  Transaction(l, [a \in Members |-> {}], {}, {})

(* importAccounts: an account as it was when it was exported.  The elastic *)
(* pool is not asked.                                                      *)
ImportAccount(a, ms, asleep) ==
  /\ list' = IF a \in Present THEN list ELSE Append(list, a)
  /\ marks' = [marks EXCEPT ![a] = ms]
  /\ disabled' = IF asleep THEN disabled \cup {a} ELSE disabled \ {a}
  /\ loose' = loose \cup {a}
  /\ Standing
  /\ UNCHANGED <<elastic, generating, seen, due, guarded>>

-----------------------------------------------------------------------------

RestEnds(a) ==
  /\ "resting" \in marks[a]
  /\ marks' = [marks EXCEPT ![a] = @ \ {"resting"}]
  /\ due' = elastic.on
  /\ UNCHANGED <<list, disabled, elastic, generating, seen, loose, guarded, standings>>

(* recoverExpiredAccounts                                                  *)
RecoverExpired ==
  /\ due /\ elastic.on
  /\ \E busy \in {generating, seen} : Regroups(list, marks, elastic.count, busy)
  /\ UNCHANGED <<list, marks, elastic, generating, seen, standings>>

(* NewPool reconciles with nobody generating.                              *)
Restart ==
  /\ Standing
  /\ generating' = {} /\ seen' = {}
  /\ IF elastic.on THEN Regroups(list, marks, elastic.count, {})
     ELSE UNCHANGED <<disabled, guarded, due, loose>>
  /\ UNCHANGED <<list, marks, elastic>>

(* Requests; the pool may be a little behind the configuration.            *)
Generates(a) ==
  /\ a \notin generating /\ generating' = generating \cup {a}
  /\ UNCHANGED <<list, marks, disabled, elastic, seen, due, loose, guarded, standings>>
Finishes(a) ==
  /\ a \in generating /\ generating' = generating \ {a}
  /\ UNCHANGED <<list, marks, disabled, elastic, seen, due, loose, guarded, standings>>
ReadsInUse ==
  /\ seen' = generating
  /\ UNCHANGED <<list, marks, disabled, elastic, generating, due, loose, guarded, standings>>

RosterNext ==
  \/ \E a \in Members :
       \/ Rest(a) \/ RestEnds(a) \/ PasteToken(a) \/ Generates(a) \/ Finishes(a)
       \/ \E mark \in {"banned", "failed"} : Condemn(a, mark) \/ LoginSucceeds(a, mark)
       \/ \E i \in 1..Cardinality(Members) : AddAccount(a, i) \/ MoveAccount(a, i)
       \/ \E ms \in {{}, {"failed"}}, asleep \in BOOLEAN : ImportAccount(a, ms, asleep)
  \/ \E chosen \in {{a} : a \in Present} \cup {Present}, enabled \in BOOLEAN :
       ToggleEnabled(chosen, enabled)
  \/ \E gone \in {{a} : a \in Present} \cup {{a \in Present : "banned" \in marks[a]}} :
       DeleteMembers(gone)
  \/ \E on \in BOOLEAN, count \in 0..MaxCount : SetElastic(on, count)
  \/ \E l \in Rosters : RewriteAccounts(l)
  \/ RecoverExpired \/ Restart \/ ReadsInUse

RosterSpec == RosterInit /\ [][RosterNext]_rosterVars

-----------------------------------------------------------------------------
(***************************************************************************)
(* Properties.                                                             *)
(***************************************************************************)

(* With the elastic pool on no unfit account is awake; a fit one is awake  *)
(* exactly if it was generating or fewer than "count" of those ahead of it *)
(* are, whatever was muted, banned, cleared, moved, added or removed, by   *)
(* handlers that have read the generating accounts early or late.  With it *)
(* off, only a switch, a ban or a failure keeps an account out: none has   *)
(* been left asleep.                                                       *)
AheadOf(a) == {b \in Present \ disabled : \E i, j \in DOMAIN list :
                                            i < j /\ list[i] = b /\ list[j] = a}
RosterInOrder ==
  /\ elastic.on /\ ~due /\ loose = {} =>
       \A a \in Present :
         a \notin disabled <=>
           Fit(marks, a) /\ (a \in guarded \/ Cardinality(AheadOf(a)) < elastic.count)
  /\ ~elastic.on =>
       \A a \in disabled \ loose : marks[a] \cap Lasting # {}
=============================================================================
