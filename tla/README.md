# A verification of DS2API

TLA+ models of the core of DS2API, model-checked with TLC and, for what matters
most, proved with TLAPS. DS2API offers the OpenAI, Claude and Gemini APIs on top
of DeepSeek web accounts: a request leases an account from a pool, logs the
account in if need be, runs the completion upstream (retrying, resuming or
moving to another account when that fails) and gives the account back.

## 1. The system

| Component (`src/internal/...`) | State | Operations | Talks to |
|---|---|---|---|
| `account`: pool | rotation queue, slots per account and their sum, limits, parked waiters, pauses, expiry timer | `Acquire`, `AcquireWait`, `AcquireKeepAlive`, `Release`, `Reset`, `ApplyRuntimeLimits`, `Sync*Limits`, `PauseForProxyUpdate`, `Close`, queries | reads the store under its own lock; called by everybody |
| `account`: quotas | minute windows with timers; today's counts, their file and a flush timer | recording, lazy expiry, timer callbacks, change of day, startup | called by the pool under its lock |
| `account`: elastic pool | none (a function of the configuration) | `ReconcileElasticPoolWithBusy` | inside `Store.Update` |
| `auth`: requests | per request: leased account, tried and released accounts, switch budget, cleanup callback | `Determine`, `SwitchAccount`, `RecoverAuthFailure`, `Release` | pool, store, logins |
| `auth`: logins, failures | one login flight per account; consecutive failures per account | `loginCoalesced`, `MarkAuthFailure`, `NoteLoginSuccess`, `settleAuthFailures` | store, upstream |
| `config`: store | accounts, runtime settings, device bindings, dirty bits | `Update`, accessors, saving | everybody |
| `completionruntime` | attempt, current account and session, delivered output | start, retry, resume, account restart, repair | auth, client |
| `httpapi/openai/chat`: Vercel leases | map of leases with expiry | prepare, PoW, switch, release, sweep | auth |
| `keepalive` | a timer per account, a wait group | schedule, ping, retry, forget, close | pool, client |
| `stream`, `streamwriter`, `sse` | one goroutine per stream | select over input, timers, cancellation | completion runtime |
| `chathistory`, `usagestats`, `responsehistory`, `sessionstate` | records behind locks, files | append, update, prune, persist, reload | HTTP handlers |
| `mihomo`, `proxybridge` | kernel process, proxy assignment, health | reconcile (drain first), assign, watch | pool (pauses), store |
| `deepseek/client`, `transport`, `devid` | connections, PoW cache, device identities | upstream calls | store and pool on bans, mutes, throttling |
| `httpapi` surfaces, `admin`, `toolcall`, `promptcompat`, `webui`, ... | mostly none | translation, validation, rendering | all of the above |

What is hard about it: the pool's lock is released between a waiter's wake-up and
its next attempt, and between reading the store and installing what was read;
wake-ups go to one waiter at a time; slots of deleted accounts are written off
while their leases go on; quotas end by timer or by whoever looks first; counts
reach the disk late and the process may die before; the proxy kernel may only be
restarted between leases; logins are shared by requests that can be cancelled
independently; three nested loops recover from the same rejected token; a failed
switch of accounts leaves a request naming an account whose slot it has already
returned.

What makes it correct, per component: **pool**: slots in use are the leases held,
limits are respected, nobody waits beside a free account, changes of the
configuration arrive; **quotas**: a spent account stays spent until the day ends,
across restarts, and a throttled one comes back; **requests**: a slot is returned
exactly once, the switch budget bounds retries; **logins**: one upstream login at
a time per account, and nobody inherits another caller's cancellation;
**failures**: an account is removed only after two failures that were counted, and
a request counts each failure of an account once each way;
**completions**: output is never produced twice; **leases**: an expired lease
gives its account back, whatever else is going on; **persistence**: what is on
disk is a state the memory was in.

How the modules fit together:

```
AccountQuota <- AccountPool <- AccountPoolProps <- MCAccountPool <- AccountPoolHistory
                     |  implements
                SlotLedger                         (what the pool promises)
                     |  implemented by, and used as the pool's description by
              ManagedRequest <- MCManagedRequest <- MCRequestPath
                                                     |  and, on a request's way,
                              BridgeRegistry, UploadReuse, SegmentedPrompt,
                              AutoContinue, AnswerStream, CollectedAnswer, SpeechVoice

LoginCoordinator, ProxyBinding, UsageLedger, StreamLease, KeepAlive, ChatHistory,
ConfigStore, AccountRoster, StreamPump  <- MCServices   (services around the pool)
```

`*Proofs` modules extend the module they are about. `MCServices` and
`MCRequestPath` are sums: a behaviour has a `subject`, chosen once, whose
variables its steps change while the others rest. The summed modules share no
variables, so a sum explores each of them completely and by itself, at the price
of adding their states rather than multiplying them. What one component does to
another is an input that is left open where it arrives: a slot is granted or not
(`KeepAlive`), a helper exits at any time (`BridgeRegistry`), the identity of an
uploading request changes (`UploadReuse`), a generation ends in any error
(`AnswerStream`). Each component that needs fairness has it while it is the subject;
because a behaviour keeps its subject, one condition may state the fairness of several
components (`PathMoves`), and one `[]<>` what several of them come back to (`Rests`).

## 2. The account pool

`AccountPool` models `internal/account` together with the part of its
environment that drives it. `AccountQuota` holds the quotas' state and the
fragments of the pool's actions that touch it; `AccountPoolProps` the properties;
`SlotLedger` the abstract specification; `MCAccountPool` the instances for TLC.

### State and actions

Every exported method of `Pool` runs under `p.mu` and is one action. What is not
under `p.mu` is a separate step: a waiter between the closing of its `ready`
channel and its next attempt (`woken`), and `Reset` between reading the store and
installing (`job`, `seen`).

| Code | Model |
|---|---|
| `queue`, `queueHead` | `queue`, in logical order |
| `inUse`, `inUseTotal` | the same names |
| `maxInflightPerAccount`, `maxQueueSize`, `globalMaxInflight` | `limits` |
| `waiters`; a closed `ready` not yet received | `waiters`; `woken` |
| `proxyPauses`, `proxyIdle`, callers of `PauseForProxyUpdate` | the same names, `drain` |
| `expiryTimer` | `expiry`, the deadlines it was armed with |
| `rateLimits`; `dailyDate`, `dailyCounts`; the file; `dailyFlushTimer`, `dailyLastPersist` | `rate`; `daily`; `disk`, `stale`; `flush`, `recent` |
| the store's accounts and `runtime` section | `status`, `conf` |
| handlers and verdicts that change the store, then call `Reset` or `applyRuntimeSettings` | maintainers, `job` |
| a goroutine's lease | `held` |

An account's status is what the pool can tell of it: `ready` (schedulable),
`resting` (muted or cooling down, with a deadline), `off` (disabled, banned or in
authentication failure) or `absent`. Time is abstract: a window, an interval, a
deadline or a day may end at any moment after it began. A filter and an exclude
set are one set of accepted accounts per caller (`Accepts`). Which accounts hold a
token only decides the order of the rebuilt rotation, so any order is allowed.

`held` also is the ledger the properties compare the pool's counters with: it
changes only when a caller is granted a lease or gives it back. `AccountPoolHistory` adds
which accounts have `arrived` in the pool since they were added, and which leases are
`lasting`: taken on an account that had arrived and has not been deleted since.

### Runs

| Run | Instance | Question |
|---|---|---|
| `pool_ledger` | 2 accounts going on and off, 2 requests, 1 keep-alive, 2 drains, 2 settings, Close and Restart | Are slots exactly the leases? Does the proxy update run alone? Does the pool implement `SlotLedger`? |
| `pool_changes` | 2 accounts, one of them deleted and re-added, cooldowns, 3 requests with different targets, 1 drain, 2 settings | Do the counters survive deletion (`InUseMirror`, `NoSlotLeak`)? Does every change reach the rotation and the expiry timer (`PoolCurrent`)? Does wake-one notification strand a request beside a free account (`NoStrandedWaiter`)? |
| `pool_wakeups` | 2 accounts going on and off, 3 requests with different targets, 1 drain, 2 settings, fairness | Is every parked request woken, does every drain get its turn (`WaitsEnd`, which is `WaiterWoken` and `DrainCompletes`)? |
| `pool_quota` | 1 account, both quotas, settings switched at runtime, 2 days, failing writes, Close and Restart | Does the file follow the counts, a spent quota survive a crash (`QuotaKept`, which is `QuotaDurable` and `SpentQuotaSurvives`), a minute block end? |
| `pool_stale_reset` | 2 maintainers, 1 request, an account deleted and re-added | Violated: a `Reset` that read the store before another one installs after it, and the slot of a running lease is forgotten (`KeepsAccounting`; see Findings) |
| `pool_spent_quota` | 3 requests, 1 account with 2 requests a day | Violated: a parked request outlives the quota it waits for (see Findings) |

Bounds. Two accounts are needed for a rotation, a target and an account that
disappears; two requests for a waiter beside a holder, a third one for a second
waiter with another target, which is what wake-one notification could strand.
Two drains overlap, three would only repeat this. Two maintainers are what it
takes to install snapshots out of order; the runs that state what holds of the
rotation and the timers have one and say so. Two days contain the only change of
day there is to see.

`NoStrandedWaiter` and `WaiterWoken` are checked without callers that do not wait
(`Probes = {}`): `Acquire` and `AcquireKeepAlive` may take the slot a waiter was
woken for and pass no wake-up on. They are checked with both quotas off, because a
quota ends or fills without a wake-up (`pool_spent_quota` and section 9).
`pool_quota` switches the quotas on and off and keeps one value of the daily one
(section 9 says what a lower one does). `CHECK_DEADLOCK FALSE` is used throughout: the
system may be quiescent, with nobody asking for anything.

### Fairness

`FairSpec` assumes that a woken goroutine runs, that leases end (requests and
keep-alives run under deadlines), that handlers which changed the store reach the
pool, that the reconciler finishes its update, and that armed timers fire. It
assumes nothing of new requests, settings, deadlines, Close or Restart.

## 3. Coalesced logins

`LoginCoordinator` models `auth/login_coordinator.go` for one account (flights of
different accounts share nothing). `r.mu` is held for one turn of
`loginCoalesced`'s loop (`Enter`) and for the deferred end of a flight
(`Publish`); clearing the stored token, the login, saving the new token and
`PostLogin` are steps between which everything else may happen.

| Code | Model |
|---|---|
| `loginFlights[id]`, who registered it | `leader` |
| the account's token in the store; `a.Account.Token` of a request | `stored`; `token` |
| where a call of `loginCoalesced` is | `pc` (`waiting` on `done`, `woken` after it closed; `clear`, `login`, `save`, `post`, `publish` in the flight) |
| the caller's `ctx` | `over`, which may become true at any time |
| `loginResult`, `isLoginCancellation` | `result` (`aborted` is a cancellation or a deadline) |
| the admin's account test, which does not use the coordinator | `AdminLogin`, `AdminStores` |

Tokens are numbered in the order the upstream mints them, so that "older" is `<`;
`MaxToken = 2` lets a request log in after another, or after an admin, has. The
run `services` asks with two callers and with writes that may fail: is there one
login at a time
(`OneLoginAtATime`), does a successful call never leave with an older token
(`NeverOlder`), does nobody return with another caller's cancellation
(`NoInheritedCancellation`), does every call return (`EveryCallReturns`, part of
`ServicesEnd`)? An admin's login is the one thing that stores tokens out of order; `NeverOlder`
remembers it (`bypassed`) and then only asks that there is a token at all.

`EveryCallReturns` needs that aborted flights come to an end: the code puts no
bound on how often a waiter may become the next leader and be aborted itself.
Fairness: each caller's next step is taken, since goroutines run and the login has
a time limit of its own. Nothing is assumed of new calls or of contexts ending.

That a forced refresh brings a *new* token is not claimed: one that arrives while
the flight of the rejected token is still in `PostLogin` joins it and gets that
token again (a hazard in `PROJECT.json`).

## 4. Managed requests

`ManagedRequest` models a request's accounts from `Determine` to `Release`:
`auth/request.go`, `account_switch.go`, `auth_recovery.go`, `auth_failure.go`, the
pins and the clean-up callback, and of `completionruntime` and `contextfile` the
calls that change accounts. The pool appears as `SlotLedger` describes it
(`inUse`, one limit per account), and the refinement back to `SlotLedger` is
checked and proved, so that the two halves agree on who holds what.

| Code | Model |
|---|---|
| `RequestAuth`: `AccountID`, `TargetAccount`, `TriedAccounts`, `releasedAccounts`, `accountSwitches`, `authFailedAccounts`, refresh state, used accounts, clean-up | `auth[r]` |
| `Resolver.authFailures`; `Account.AuthFailed` in the store | `failures`; `flagged` |
| the loop of `acquireManagedRequestAuthCore` | `pick`, `ensure`, `lift`, `note`, `persist` in phase `begin` |
| `SwitchAccount` | `leave`, then the same places in phase `switch` |
| `RecoverAuthFailure`, `RefreshTokenOnce` | `reject`, `relogin`, `note`, `persist` in phase `refresh` |
| the caller's nested retry loops | `at[r].layer` |

The **layers**. An upload of a context file, the opening of a session and a turn on
a session work on a pinned copy of the request (`PinAccount`): they repeat on the
same account or report the failure outwards. The boundary of an upload
(`file`, `retryContextFileAccount`) and the outer boundary (`outer`,
`startStandardCompletionOnAlternateAccount`) may move to another account, after
which everything is uploaded and opened again. A repair of tool calls by the
request's own model (`repair`) is not pinned. So one 401 may pass three places that
each recover, which is where double counting and double release would come from.

`MarkAuthFailure` and `NoteLoginSuccess` change the count under `authFailMu` and
the store in another transaction: `note`/`persist` and the login/`lift` are
separate steps. A count saturates at `Threshold` (`OneMore`): the code compares it
with the threshold and nothing else.

| Run | Instance | Question |
|---|---|---|
| `request_path` | 1 request, 3 accounts, with and without a target, 1 switch, threshold 1; and the components of section 5 | Is a failed refresh counted once, and a refused login only when nothing was counted of the account before (`CountedOncePerWay`)? Is a session cleaned up by the account that opened it (`CleanupByOwner`)? Is the budget kept (`TypeOK`, part of `PathTypesOK`)? Does every recovery end (`RecoveryEnds`, which `PathEnds` states for every subject)? |
| `request_shared` | 2 requests, 1 account with 1 slot, repairs | Is the count of slots the number of holders (`SlotsMatchLeases`)? Is `SlotLedger` implemented (`ImplementsLedger`)? |
| `request_exhausted` | 2 requests, 2 accounts | Violated: the loop gives up beside an untried account |
| `request_slot` | 2 requests, 2 accounts | Violated: a request works on an account whose slot it has returned |
| `request_repair` | 2 requests, 2 accounts, repairs | Violated: a repair moves the session's request to another account |

Bounds. With three accounts and one switch the budget ends a recovery while an
account is left, with fewer the accounts would run out first. Their failures count
from the first one in that run (two need more time than a run has) and from the second one in
the others; a failure that is not counted leaves its account schedulable in all of them,
and what the run states of safety is proved for any threshold. `request_shared` has
one account so that both requests want the same slot; two requests on two accounts
exceed the time a run has, and what more accounts could show of slots is proved for
any number. Exchanging the two requests is a symmetry of that run, which
checks no liveness.

Fairness (`WF_vars(Step(r))`): a request that looks for an account, logs in or
recovers takes its next step, because waiting for a slot ends with the caller's
context or after the 30 seconds of `accountSwitchWaitTimeout` and logins return.
Nothing is assumed of the work itself: a turn may last.

## 5. On a request's way

Seven components a request uses between taking its account and ending its answer.
`MCRequestPath` checks them, with `ManagedRequest`, in the run `request_path`. A
module's own liveness property (`ClosingEnds`, `ClosedPumpEnds`, ...) is what
`PathEnds` states for it.

### `BridgeRegistry`: helper processes behind proxies (`internal/proxybridge`)

A TURN or SSTP proxy is spoken by a child process that connections share. The
registry's lock is one step each time it is held; what a dialer does under an
*instance's* mutex takes several, since a helper needs up to 35 s to be ready.

| Code | Model |
|---|---|
| `registry.items` | `items` |
| an `instance`: its process, `mu`, its lifetime context | `instance` (`helper`, `mu`, `ended`) |
| a dialer, from `DialBridge` to the last use of the connection | `dialer` (`lock`, `ensure`, `wait`, `open`, and what it evicts first) |
| `reapIdle`, which takes instances out and stops them later | `reaping` |
| `CloseAll`, which waits for every mutex | `closing` |
| a helper that ends by itself | `HelperExits`, possible always |

`HelpersOwned`: a helper that runs is registered or has somebody who will stop it,
an open connection keeps its helper, the registry stays within its bound.
`ClosingEnds`: `CloseAll` returns. Bounds: two proxies for a registry of one, so
that every second dial evicts; two dialers, who share an instance or race for it.
Fairness: a dialer, the closer and the reaper take their next step; nothing is
assumed of new dials, of connections ending or of helpers.

### `UploadReuse`: shared uploads (`deepseek/client/upload_reuse_cache.go`)

| Code | Model |
|---|---|
| `entries`, `flights`, `generation` | `entries`, `leaders`, `epoch`, per identity (account and token) |
| the callers of `uploadFileReusing` | `uploader`: `enter`, `waiting`, `woken`, `validate`, `upload`, `publish` |
| what validation or upload change of the request itself | its `id` moves: to another token, or, uploading, to another account |
| what is upstream | `ownerOf`, `deleted` |

`c.mu` is held for `UploadTurn` and `UploadPublished`; deletions of sessions and
expiries of entries come in between. `UploadsFresh`: a request returns with a file
of the account it is on, nothing deleted is kept, and only its own end ends a
waiter. `UploadsEnd`: whoever asks is answered. Bounds: three identities, two of
which are tokens of one account, are what refresh, switch and deletion tell
apart; two requests make a leader and a waiter; one deletion, two files.

### `AnswerStream`: one answer, several generations

The retry loop (`completionruntime/stream_retry.go`) around the four streaming
adapters (`chat`, `claude`, `gemini`, `responses`).

| Code | Model |
|---|---|
| attempts, alternate accounts, what the loop is about to do | `retry` |
| an adapter's accumulated state: raw text, policy and sieve buffers, deferred markup, leading blanks, tool calls, hidden thinking | `gen`, buffers as sets of generations |
| what the client was sent: text, calls, thinking, terminals | `client` |
| open thinking and text blocks (Claude, responses) | `blocks` |
| the entry in the chat history | `record` |
| the request's context; a failed write to the socket | `left`, `broken` |

Text is abstracted to the generation it comes from, since the question is whose
text the client sees: `OneAnswer` says one generation's only, and that generation's
when it is told "done". `OneTerminal` says one end, told to the history alike.
Where the verdict on an output depends on its words it is any verdict. Bounds: one
regeneration and one other account give three generations, so that a third can meet
leftovers of a first. Fairness: a stream ends, by itself, by its watchdogs or by its
limits, and the loop goes on.

### `SegmentedPrompt`: a prompt sent in pieces (`completionruntime/segments.go`)

| Code | Model |
|---|---|
| `fireSegmentPayloads`, `FireCompletionAndStop` up to its return | `segment` (`send`, `head`, `content`, `stop`, `close`) |
| `parentMessageID` | `parent`, messages being numbered like their segments |
| the service's side of the segment's stream, and its body | `stream` |
| the goroutine that reads on, `contentCh`, `drainDone` | `drain` |

`ParentSettled`: when a segment is sent, the message it names as its parent has had
content, was stopped, and its stream is over. `DrainsEnd`: no drain is left behind,
whichever way its segment ended. Both waits are a `select`, of which any ready case
is taken. Three segments: a first, one whose parent is a parent's child, and the last,
which is the request itself. Fairness: the waits and the stop have time limits, and
a body that is closed ends the read on it; nothing is assumed of the service.

### `AutoContinue`: an answer given in rounds (`deepseek/client/client_continue.go`)

| Code | Model |
|---|---|
| `pumpAutoContinue`, `continueState` | `pump` (`next`, `read`, `write`, `decide`, `last`) |
| the bodies of the rounds, closed from three sides | `bodies` |
| the pipe, and how it was closed | `pipe` |
| the consumer of the stream; `autoContinueBody.Close` | `reader` |
| what upstream has given and said | `served`, external |

`AnswerContinued`: the reader gets the rounds' pieces in order, reads `[DONE]` only
after a whole answer (or one that is withheld), never sees a plain end where more was
announced, and no body stays open. `ClosedPumpEnds`: a reader that closes frees the
pump wherever it is blocked. Two pieces and two more rounds: an answer that needs a
round, one that needs all of them, one for which they do not suffice. Fairness: the
pump runs where it waits for nobody; upstream and the reader may stop for ever.

### `CollectedAnswer`: an answer that is not streamed (`completionruntime/nonstream.go`)

`loop` is the function's local state (attempt, retries spent, session, account, what it
is about to do), `thoughts` the accumulated thinking; `sessionOf` and `ownerOfSession`
remember where attempts were made, `unread` which response is open. An attempt ends in
any error or none. Attempts, sessions and accounts are numbered, and a thought is the
attempt it comes from. When a response has been read its tool calls may be repaired
(`BuildTurnFromCollected`, nonstream.go:290); `callOriginalRepair` does not pin the
request, so `AttemptRead` may leave it on another account (`NextAccounts`) while the
loop goes on with the session it had: the finding of `request_repair`, here with what
the loop does next. `strayed` records that this has happened since the session began.
`TurnOfOneSession`: what is returned is the last attempt's answer, with the thinking of
attempts in the same session only, and nothing of an output that was refused; an
attempt is made in the loop's session, and with the account this belongs to unless a
repair has moved the request since; no response is left open. `CollectEnds`: the loop
ends. One retry, which all sessions share, and two restarts: a retry before a restart
or after it, with or without a repair between, and a third session that could meet what
the first has left. A restart may stay on the account (its token was refreshed).
Fairness: an attempt ends, as above.

### `SpeechVoice`: reading aloud (`deepseek/client/client_tts.go`)

The voice is a setting of the account upstream (`voice`); the client remembers the last
one it set (`known`) and holds a lock per account (`voiceLock`) from setting it to the
moment the stream is ready. `speaker` is where a call of `SynthesizeSpeech` is.
`VoiceAsAsked`: at that moment the voice is the wanted one, unless somebody else than
this process changed it (`astray`); whoever is told so does not accept the speech; and
such a change costs a caller at most one attempt, however many callers there are.
`SpeechEnds`: every call returns. Two speakers and two voices compete for the setting,
or one does not mind; one change from outside. Direct tokens, which have no account and
remember nothing, are left out. Fairness: calls upstream have time limits.

## 6. Services around the pool

The run `services` (`MCServices`) checks eight components and the logins of
section 3.

### `ProxyBinding`: which exit an account uses (`internal/mihomo`)

| Code | Model |
|---|---|
| the configuration's `Mihomo` section, managed proxies and bindings | `mihomo`, one record; a handler's `Store.Update` maps it to the next |
| `failStreak` | `streak` |
| `base_port`, `api_port` and the validation every saved change passes | `mihomo.base`, `mihomo.api`, `Valid`, the guard of `Saved` and of a reconcile's update |
| the child, what the manager believes of it, the ports it listens on | `kernel` |
| the `Apply` a handler makes after its update | `applyDue`, `ApplyBestEffort` |
| `reconcileBindings`: snapshot, drain, re-check and update, apply | `reconcile`, `drain`, four steps |

`PortsAndProxiesAgree` (no two nodes have one port, a node has the controller's only
where the validation does not look, and a binding's proxy is on its node's port),
`ManualBindingKept` (a step by which an administrator does
nothing moves no manual binding) and `BindingsServed`, part of `ServicesEnd` (with the
scheduler on, every active binding is listened to, again and again). Two accounts on two nodes
with one port more than nodes. The controller's port is 2 at first, amid the nodes' ports,
so that allocation has to skip it, and may be set to 3 and back; the nodes' begin at 1 or
2. The validation looks at ports below base + ports in use + `Margin`: 16 in the code,
any number in the proofs, 1 in the run, so that the node saved at port 3 is within it
while two ports are in use and beyond it while one is. `MaxEvents = 2` changes or failures,
from a fresh start and from that saved binding, of one account to one node, which stands
for all (they differ only by name). Fairness: `Apply` and self-heal run, requests end,
the watcher ticks, a reconcile under way goes on; `SF` for the reconcile after a
drain, because `reconcileMu` does not starve its waiters.

### `UsageLedger` (`internal/usagestats`, `server/usage_backfill.go`)

`ledger`, `dirty`, `revision` and the cached `order` in memory; `checkpoint`,
`marker` and the chat history's usage on disk. `Record`, `BeginFlush` and `EndFlush`
hold `mu` and are steps; a write takes place between the latter two, so that
requests are recorded meanwhile. Writes fail, the process crashes anywhere, the
backfill and its marker are two steps. `CleanMeansSaved`, `NeverOvercounted`.
Two keys let the cached order fit in length and not in content; two calls each.

### `StreamLease` (`httpapi/openai/chat/vercel_stream.go`)

Each stream has a prepare handler, a lease, a switch handler and any number of
releases; `leaseMu` is held for a pop, a lookup or an insertion, and slots are
returned after it (`owed`). The lease, its switch and its release share one
`RequestAuth`, so each reads `account` as it then is. `SlotsOwned`: a slot is
returned once and has somebody who will. `late` names the one exception, a switch
that acquires after its lease was popped (section 9). Two leases on two accounts
with one slot: one's switch needs what the other has; two switches exhaust the
accounts.

### `KeepAlive` (`internal/keepalive`)

An entry per account (`timers`) and a job per timer, whose goroutine passes `due`,
`counted` (in the wait group), `enabled`, `found`, `sent` and `reset`; `m.mu` is
held for each of them. `OneWindowPerAccount`, and `WindowsEnd`: every window ends
and `Close` returns (fairness: each job and `Close` go on; a ping has a limit of
120 s). Two jobs are a ping and the timer that its account may have by then.

### `ChatHistory` (`internal/chathistory`)

`details`, `listRevision`, `unsaved` and `removed` in memory, `files` and `index` on
disk, and a `page` an administrator has open. `persistLocked` removes and writes
file by file (`RemoveFile`, `WriteFile`, `WriteIndex`), any of which may fail or be
the last thing before a crash. `HistoryShownAndSaved`: the disk differs from memory
only by what the next save will do, and a page whose ETag matches shows the list as
it is. Two conversations and a limit of one make every second start drop the
oldest; three revisions leave one for the restart.

### `ConfigStore` (`internal/config`, device identities)

`conf` in memory with a dirty bit per file (`stale`), `disk` with config.json, the
subscriptions' file and the two places where older installations have them;
`save` goes through the files under `s.mu`. A device ID is generated outside the lock
(`generation`), its archive promoted and its commit saved, or rolled back.
`ConfigKept` is `AcknowledgedIsDurable` and `IDFitsDevice`, with `parted` for what a crash or a
failed rollback parts. An ID is issued by the generator or *brought*: an
administrator's edit sets it, an import replaces the account's record or the whole
configuration, the pool of manual IDs lends one. An issued ID that is entered into that
pool is of type manual from then on and counts as brought. `IDsAfter` allows any brought ID in any
change; `IDFitsDevice` speaks of issued ones, which no change may leave with another
phone. One account with two phones, two issued IDs and one brought ID; an older
installation has its subscriptions in one of the two former places.

### `AccountRoster` (`account/elastic.go` and the handlers)

`list`, `marks`, `disabled`, `elastic`; every handler that changes an account's
standing reconciles in its transaction, with the set of generating accounts that
it read before (`generating`, or an older `seen`). `RosterInOrder` relates the
result to the order of priority; `guarded` is what the last reconciliation
took for generating, `loose` who has not been through one (section 9). Two
accounts and a count of at most one are a place and a claimant.

### `StreamPump` (`sse/stream.go`, `stream/engine.go`)

Scanner, pump and consumer with their channels, buffers and one context. A line is
its number and kind (text, thinking, snapshot, an end, an end with thinking).
`StreamFaithful`: order, no loss, no duplicate, and no truncated answer taken for
complete. `PumpsEnd`: after cancellation no goroutine remains. Two lines and
channels of one place: a line waits in each of scanner, pump and channel, with
nobody receiving. Fairness: goroutines run; upstream may be silent for ever.

Leases, usage, history, configuration and roster have safety properties only: each
of their operations ends by itself, and what could last, a flush or a sweep, is
started by a ticker or a request of which nothing is assumed.

## 7. Proofs

For every value of the constants (sets of accounts, callers, maintainers,
drainers, requests, streams, jobs, keys, dialers, uploaders, conversations and
nodes; limits and budgets; numbers of segments, pieces and retries) and every
interleaving:

| Module | Theorem | States |
|---|---|---|
| `AccountPoolProofs` | `TypeCorrect` | the pool's `TypeOK` |
| | `MirrorCorrect` | `inUseTotal` is the sum of the slots per account |
| | `SlotsExactCorrect` | for accounts that are not deleted, slots are exactly the leases |
| | `NoSlotLeakCorrect` | no account counts more slots than callers hold |
| | `UpdateExclusiveCorrect` | the proxy is updated while nobody holds a lease |
| | `PoolCurrentHolds` | with one maintainer, the rotation is what the store lists and rests are timed (`PoolCurrent`) |
| | `NoStrandedWaiterHolds` | with one maintainer, no quotas and nobody who barges in, nobody waits beside a free account (`NoStrandedWaiter`) |
| | `QuotaKeptHolds` | with one value of the daily quota, counts reach the file and a spent account stays spent (`QuotaKept`) |
| | `LedgerRefinement` | without deletions, the pool implements `SlotLedger` |
| `LoginCoordinatorProofs` | `OneLoginHolds` | one login at a time |
| | `NeverOlderHolds` | a successful call never leaves with an older token |
| | `NoInheritedCancellationHolds` | an action property: nobody leaves with another's cancellation (`NoInheritedCancellation`) |
| `ManagedRequestProofs` | `RequestTypeCorrect` | the requests' `TypeOK`, the switch budget included |
| | `SlotsOfLeases` | the count of slots is the number of holders |
| | `RequestsKeepLedger` | requests use the pool as `SlotLedger` allows |
| | `ReportedOncePerWay` | a request reports one failed refresh of an account, by whichever layer, and a refused login only of an account it has not reported (`CountedOncePerWay`) |
| | `CleanedUpByOwner` | a session is cleaned up with its own account's credentials (`CleanupByOwner`) |
| `RequestPathProofs` | `ParentSettledHolds` | a segment goes on from a settled message (`ParentSettled`) |
| | `VoiceAsAskedHolds` | a speech has its caller's voice (`VoiceAsAsked`) |
| | `AnswerContinuedHolds` | pieces of all rounds in order and once, and no false end (`AnswerContinued`) |
| | `TurnOfOneSessionHolds` | a collected turn is of one session and of nothing refused (`TurnOfOneSession`) |
| | `HelpersOwnedHolds` | every helper has an owner and no connection loses its own (`HelpersOwned`) |
| | `UploadsFreshHolds` | shared and cached files are the account's and still there (`UploadsFresh`) |
| | `OneAnswerHolds` | a client sees one generation, complete when it is told so (`OneAnswer`) |
| | `OneTerminalHolds` | a client is told one end, and the history one that fits (`OneTerminal`) |
| `ServicesProofs` | `CleanSavedHolds` | a ledger that is not dirty is on disk (`CleanMeansSaved`) |
| | `NeverOvercountedHolds` | no call is counted twice, by the ledger or its file |
| | `ConfigKeptHolds` | acknowledged changes are durable, an issued ID fits its device and archive (`ConfigKept`) |
| | `HistoryShownAndSavedHolds` | the next save does all that the disk lacks; an ETag tells the list (`HistoryShownAndSaved`) |
| | `PortsAndProxiesAgreeHolds` | ports, managed proxies, bindings and, where it is validated, the controller's port agree (`PortsAndProxiesAgree`) |
| | `ManualBindingKeptHolds` | an action property: the scheduler moves nobody bound by hand (`ManualBindingKept`) |
| | `StreamFaithfulHolds` | content is delivered in order, once and whole, and no cut answer passes for complete (`StreamFaithful`) |
| `AccountServicesProofs` | `OneWindowHolds` | an account is active exactly while one job has its window; after `Close` there is no ping (`OneWindowPerAccount`) |
| | `SlotsOwnedHolds` | every slot a lease took is counted once and has somebody who returns it (`SlotsOwned`) |
| | `RosterKeepsOrder` | no account is passed over for a later one, or left asleep with the elastic pool off (`RosterInOrder`) |
| `MCServicesProofs` | `TypesHold` | the services' types: no list, channel, port or counter outgrows its bound (`TypesOK`) |
| | `PromisesHold` | every safety invariant of the run `services`, of its own specification |
| | `StepsHold` | its two action properties, likewise |
| `MCRequestPathProofs` | `PathTypesHold` | the path's types: generations, attempts, sessions and files stay within what pays for them (`PathTypesOK`) |
| | `PathPromisesHold` | every safety invariant of the run `request_path`, of its own specification |

They rest on the named assumptions on the constants, one per module, which TLC
evaluates in the runs: limits and budgets are numbers, and positive where the code
has a minimum; model values for "none" are not members of the sets they stand
beside; sets are finite where the code counts them (accounts of the pool,
streams, keys, dialers, conversations, bound accounts and nodes: entries of maps
and lists in a process). Four say more: `SegmentAssumption` asks for two
segments (`segments.go` takes this path only then), `UploadAssumption` for an
identity to upload under, `BridgeAssumption` for a proxy (nothing is dialled
through a helper without one), `HistoryAssumption` for a default limit that keeps
something (`DefaultLimit` is 20). Finitely many requests are a
hypothesis of `SlotsOfLeases` and `RequestsKeepLedger`. No theorem depends on a bound
such as `MaxEvents` or `MaxRevision` being small; they only cap the counters.
With this, every safety invariant and every action property of a passing run is
the subject of a theorem; what is left to TLC alone are the liveness properties.

**Pool.** `SlotsExact` is not inductive by itself: that `Reset` does not write off
an account's slots needs that the snapshot it read knows the account, so the
invariant carries `StableConfigured`, which says that of the store and of every
snapshot in flight; and that `Release` finds the slot it gives back needs the
counts of *other* accounts to be bounded by their holders (`NoSlotLeak`).
`UpdateExclusive` adds `IdleIsEmpty` (a signalled idle channel under a pause means
that the total is zero, or the pool is closed) and `UpdatesSignalled` (an updating
drainer has seen the signal and holds a pause). The refinement adds `HolderTotal`:
the total is the number of callers with a lease. `StepEffect` classifies every
step by what it does to slots and leases (grant, release, install, restart or
nothing), so that each invariant is proved over five cases and not over
twenty-odd actions.

Three theorems have hypotheses, each of which the code needs. `PoolCurrent` assumes
that changes reach the pool one after the other (`OneMaintainer`; `pool_stale_reset` has two). Then the snapshot of a `Reset`
under way differs from the store only in accounts whose deadline has passed since
(`SeenInStep`), and outside of one the pool is in step with the store (`InStep`).
`QuotaKept` assumes one value of the daily quota (`OneDailyLimit`;
section 9 says what a lowered one does) and is inductive once it speaks of every account whose
count has reached the quota, whether the quota is switched on or not
(`SpentSaved`), because a setting may switch it on again. `NoStrandedWaiter` assumes
`OneMaintainer`, quotas that are off (`NoQuotas`; `pool_spent_quota` and
section 9) and no callers that barge in (`Probes = {}`). Its invariant `Served`
names what is due to a waiter who could acquire: somebody woken who can, or a change on
its way or a deadline that has passed (`ChangeDue`). A step that frees an
account wakes the first who can use it, and whoever acquires or leaves passes the
wake-up on.

**Logins.** `OneLoginAtATime` is inductive with the types. `NeverOlder` needs to
know that whoever is in a flight carries the last token minted (`Ordered`), and
that the stored token is that one too, or empty, except between a login and its
write (`StoreOrdered`); because one flight runs at a time, nothing is minted while
another carries its token, and because a reuse happens only without a flight, the
exception never meets it. `NoInheritedCancellation` compares a caller's outcome across
a step of another; it follows from `Concluded`: a flight has ended in some way before
anybody is woken, so that a waiter meets an answer or starts again.

**Requests.** Whether a request holds a slot follows from two fields of its
`RequestAuth`, so the invariant `IInv` ties them to where the request is
(`Healthy`): it may look for an account, or count a failure outside a refresh, only
without a slot; whatever it has released it has also tried, so that the account it
takes next is one whose slot it has not returned; and wherever it works or recovers
it has an account. Every action is then shown to keep the slots, return the one the
request holds or take a free one (`Advances`), and both the count and the
refinement follow from those three cases.

That a refresh is counted once needs what is recorded of it (`OnRecord`): whatever
was counted of one is on the request's lists of refreshed or refused accounts, which
`RecoverAuthFailure` consults, and only a request on its way to report is not. That a
login is counted only of an account of which nothing was counted needs that every
reported account is the present one or was tried, and that what is taken was not. That the
session is its owner's (`OwnSession`) needs that a request which switches has cleaned
up before it looks for its next account.

**The request's path.** Each theorem has an inductive invariant of its own
(`SegmentInv`, `VoiceInv`, `ContinueInv`, `CollectInv`, `BridgeInv`, `UploadInv`,
`AnswerInv`), a conjunction of named parts, and one lemma or step per action.
*Segments*: that a stream is over when its segment is left needs why the drain
ended; before the request closes the body only the stream's end can do it
(`DrainFits`, `StreamFits`). *Speeches*: the lock is held from setting the voice to
the stream (`LockHeld`), so what is remembered is right unless somebody outside
has interfered since (`KnownRight`); a mismatch needs a change after the caller's
attempt began, which pays for the attempt (`MismatchesPaid`). *Rounds*: the pump
writes what it has been told, one line at a time (`PiecesInOrder`), and its state
is the service's word (`WordKept`). *Collected answers*: what is accumulated is of
the present session, which is the account's or has been left by a repair
(`SessionsFit`), and clean whenever it could be returned
(`RefusedLeftOut`). *Bridge*: a helper belongs to the registry, to a dialer that
holds the mutex or to `CloseAll`'s list; each place of a dialer says what it holds
(`DialerFits`), each instance who has its mutex (`InstanceFits`). *Uploads*: what a
caller has in hand is a file of its identity, and one to be kept is dropped when
its epoch has passed (`UploaderFits`); a cached one has outlived every deletion of its
identity's sessions (`EntryFits`). *Answers*: all that is delivered or buffered is of
the present generation (`OfThisGeneration`), because a new one begins only where
nothing was delivered (`PlaceFits`); text that may be shown has been, or waits in a buffer
that the end flushes (`TextKept`); who has been told what fits the place of the loop
(`ToldFits`).

**Usage.** `CleanMeansSaved` needs to know what a flush has in hand
(`FlushConsistent`: its payload is of a revision not newer than the ledger's, and the
ledger's content if of the same one) and that the cached order lists no key without
an entry (`OrderCached`), which is why comparing lengths suffices. `NeverOvercounted`
is carried by the same bound on everything counts are copied from: the payload, the
file, the history.

**Configuration.** `FilesFit`: what is not marked stale is on disk, and config.json
is written only after the subscriptions. While a generated ID is being committed
memory is ahead of what was acknowledged; `CommitFits` says what the failing save
returns to, so that the rollback restores both memory and archive. That an issued ID
stays with its archive needs no assumption on the IDs that are brought, except that they
count as brought from then on.

**History.** `FilesCovered` ties the files to what is pending, through each step of
a save. That a revision names one list (`RevisionsTell`) relates three copies, the
memory's, the index's and the page's; a restart applies the limit to what the index
lists, so the proof needs that a limit keeps what it has kept (`KeptAgain`).

**Proxies.** `Fits` is what a configuration satisfies between any two handlers, and
each handler is shown to map a fitting one to a fitting one: a clean-up
(`GcFits`) keeps the proxy of whoever is bound, an assignment (`AssignmentFits`)
numbers new nodes one-to-one with free ports, in whatever order a Go map is
walked. The controller's port is no part of it: what `Saved` and a reconcile write is
valid, and what is written without validation leaves the ports as they are
(`SameValid`). `ManualBindingKept` follows step by step: a clean-up
never takes away a binding whose proxy exists, and a reconcile leaves out whoever is bound
by hand by then.

**Keep-alive.** `OneWindowPerAccount` is inductive with the types. One case per
place of a job; `GivesUp` covers the paths that end in `resetState`, and `HaltedJobs` what
stopping all timers does to those that have fired already.

**Leases.** `SlotsOwned` is strengthened, per stream, by where its handlers may be
given what it holds (`Accounted`), and by who returns the slot (`Owner`): a popped
lease implies an owner in `owed` or `late`. Counting needs finitely many streams
(`LeaseAssumption`), nothing else.

**Streams.** A line is read, in the scanner's channel, collected, in a batch on its way or
delivered. `WayFits` says of the last three that together they have every line
processed so far (`NothingLost`), each stage before the next (`StagesInOrder`), and that
a batch which ends the answer follows all of it (`EndsFit`). It holds until the stream is
cancelled (`Flowing`): after that batches are dropped, but nothing more is delivered, and
what was is in order (`DeliveredFits`). Each move of the pump is a lemma on `WayFits`
(`CollectsLast`, `CollectsAhead`, `Flushes`, `Delivers`, `AnswerEnds`).

**Roster.** `Reconcile` walks the list in order of priority and counts the places
taken: a recursive function over the list. That the count at each place is the number
of accounts before it that are awake (`TakenCounts`) is an induction over the list. The
library states induction with an operator as a parameter, which the provers here cannot
instantiate, so it is had from the order of the numbers instead: a set of places
that has the first, and with each the next, has them all (`UpTo`), because otherwise
there would be a least one it lacks (`LeastElement`). `TakenExists` gives the
function and `SleepersInOrder` what a reconciliation leaves; deletions, insertions and
moves are shown to map rosters to rosters (`WithoutRoster`, `PlacedRoster`,
`AppendRoster`). `loose` and `due` name what has not been through a transaction since it
changed; the order is claimed of the rest.

**The sums.** A step of `services` or of `request_path` is one of its subject's and
leaves the other components' variables alone (`SubjectsStep`, `PartsStep`), so the
conjunction of the components' invariants is inductive (`ServicesInv`, `PathInv`), and
what is proved of a component by itself holds where the runs check it. The types need
more than the components' own invariants, which leave open how far counters go. *Answers*:
every generation but the first is paid for by an attempt or by a change of
account, and a loop that is about to regenerate has paid already (`GenCounted`).
*Collected answers*: an attempt is a retry or the first of its session, and sessions
do not outnumber the restarts (`CollectBounded`). *Uploads*: what an uploader remembers of
the cache has been uploaded (`UploadBounded`). *Streams*: the lines in the scanner's
channel and in the pump's buffers are among those read (`OnTheWay`), and no channel holds
more than its capacity (`StreamBounded`). *History* and *proxies*: what is beside the
invariant are limits, streaks of failures, and the ports a running child serves
(`HistoryBounded`, `ProxyBounded`).

Only model-checked: liveness under fairness, which is out of the provers' reach, as is
`ENABLED`.

## 8. Findings

- **Concurrent `Reset`s install out of order** (`pool_stale_reset`,
  `account/pool_core.go:72` and `:105`). A `Reset` that read the store when an account
  was deleted installs what it read after another one has brought the account back and
  a request has leased it. Until the next `Reset` the rotation lacks an account that is
  configured; its running lease stays uncounted, and a deadline may be left without a
  timer. (The slots of a lease older than the deletion are written off on purpose, and
  are no part of what `KeepsAccounting` claims.)
- **A parked request outlives the quota it waits for** (`pool_spent_quota`,
  `account/pool_waiters.go:20`). The check that fails a request at once when every
  candidate is spent is made when it parks and not again when the quota is used up.
- **The loop gives up beside an untried account** (`request_exhausted`,
  `auth/request.go:155`). It compares the number of accounts this request tried with the
  number of accounts schedulable now; an account that is removed because this request's
  attempt was the last straw counts among the former and not among the latter.
- **A request works on an account without a slot** (`request_slot`,
  `auth/auth_recovery.go:52`). After a failed switch the request still names an account
  whose slot it has returned; an outer boundary refreshes that account's token and goes on.
- **A repair moves a session's request** (`request_repair`,
  `completionruntime/toolcall_repair.go:135`). The auxiliary call is made with the request's
  own, unpinned `RequestAuth`, and the next turn uses the old session with the new account.

## 9. Where properties stop short

Behaviour met while modelling, for which there is no run of its own. The properties
name it as an exception, or are checked and proved without what brings it about, so
that everything else is still claimed.

- *Failures.* A switch reports the refused login of an account it has just taken
  (`account_switch.go:82`) and, when no further account is free, leaves the request on
  it. The outer layer's `RecoverAuthFailure` finds no refresh on record, tries one
  (`auth_recovery.go:52`), and its rejection is reported too (`auth_failure.go:52`): two
  failures, which is the threshold, of one request, where `auth_failure.go:22` speaks
  of successive requests. `CountedOncePerWay` therefore claims once for each of the two
  ways, and that a switch never reports an account the request has reported.
- *Minute windows.* Whoever looks at an account between the end of its window and the
  timer's callback (a status query does) zeroes the window and makes the callback a
  no-op (`account/pool_rate_limit.go:134` and `:99`) but wakes nobody: with a minute
  quota `WaiterWoken` fails, until something else notifies the queue.
- *Daily quotas.* When the quota is lowered, `SyncDailyLimits` writes on a change of day
  alone (`account/pool_daily_limit.go:238`): an account that the new quota finds spent
  has an older count in the file until the flush that is under way, and a crash before
  it lets the account exceed the quota.
- *Proxies.* An `Apply` that fails before it stops the child leaves a child alive that
  the manager takes for stopped, and nobody applies again until the next change
  (`Stalled`). `ValidateMihomoConfig` looks for the controller's port among the nodes'
  only below `base_port` + the number of ports + 16 (`config/mihomo.go:224`); ports that
  are given back leave gaps, so a node may keep a port beyond that, and the controller may
  be moved to it. `PortsAndProxiesAgree` claims nothing there, and `BindingsServed`
  excepts it (`Collided`), since which of the two listens is for the child to decide.
  Configurations imported as a whole (`configmgmt/handler_config_import.go:52`) bring
  ports of their own, and are not modelled.
- *Configuration.* Whoever brings a device ID, by an edit
  (`handler_accounts_crud.go:266`), an import (`account_import.go:79`) or the manual pool,
  may bring one of another phone, and `InvalidateChangedDeviceIDs` clears only an ID
  that stayed while the phone changed (`config/device_state.go:32`): of brought IDs
  nothing is claimed. Subscriptions deleted while a copy is left at the former path come
  back at the next start. A crash between the device archive and config.json parts
  them (`parted`).
- *Roster.* An import does not reconcile the elastic pool; a token pasted into an account
  that slept can leave it asleep with the pool off (`loose`).
- *History.* A crash between the detail files and the index puts a new list under the
  old ETag (`torn`).
- *Leases.* A switch that waits for an account may get it after its lease has expired or
  was released: the slot belongs to no lease (`late`).
- *Streams.* Thinking on the line that ends an answer overtakes text still buffered. An
  error noted when a batch was not handed over is overwritten by the result of the next
  snapshot (`sse/stream.go:189`), which the model keeps; no property tells one error from
  another.
- *Answers.* Gemini's `OnRetryFailure` does not close the history's entry; a client that
  leaves between two attempts leaves it open on every protocol, as does a context that
  ends just after a Gemini stream has; a socket that breaks during the final flush of
  Claude, Gemini or responses returns before the history is told. The final flush of
  Claude may open a text block beside an open thinking block. Thinking that an earlier
  generation showed makes a second, empty one count as "empty" and not as
  "unavailable".
- *Segments.* When a segment's content and the end of its stream are there at once, the
  `select` at `client_stop_stream.go:174` may take either, so that a segment with
  content can be reported as having none. An error that the drain reads after content
  is never looked at, and a connection that breaks counts as a stream that ended.
- *Speeches.* A request to set the voice that fails with its reply lost may have set it;
  the next speech in the remembered voice finds out by the mismatch. A message in
  several segments whose recitation moves to another account keeps the limit of the
  account it began on (`httpapi/openai/audio/synthesis.go`, not modelled).
- *Uploads.* Deleting sessions under a refreshed token leaves the entries of the old one;
  they are caught by the check upstream.

## 10. Plan and limits

Order of work: the pool with its quotas and ledger, logins, managed requests, then
the services and the request's path, as above. Open, in order of value:

1. `PoolCurrent` without a hypothesis, in a weaker form: what two concurrent `Reset`s
   leave until the next one.
2. Smaller stateful components as further subjects of the two sums: the cache of proofs
   of work, the store of responses, the coordinator of device identities.
3. The ring behind the rotation, as an operator checked against its logical order.

Not modelled, and why:

- parsing and rendering of prompts, tool calls, fragments and frames of a protocol, and
  everything of the web interface: sequential transformations of text, which would have
  to be modelled character by character. They are the larger part of the source, which
  is why the models cover the smaller part of its lines;
- network, TLS, process and file I/O below "it succeeds, fails or is cut short";
- the administration's handlers beyond the changes of state they make;
- `sessionstate`, which nothing imports.

`PROJECT.json` lists every component with what is left out of it.
