# Verification of the new-api gateway

This directory holds TLA+ models of the parts of the gateway in which several
actors share state: the durable billing of a request, the system task runner,
login sessions on the server and in the browser, the chat playground, and the
page on which models are priced. TLC configurations check them on small
instances, and TLAPS proofs establish the main properties for every size.
`PROJECT.json` lists components, runs, the source lines behind every definition,
hazards, findings and theorems.

## 1. Inventory

new-api is an LLM gateway: a Go server that authenticates API tokens, reserves
quota, forwards a request to an upstream channel, settles what it cost and logs
it, and a React console through which users chat, manage tokens and, as
administrators, price models. Several server processes may share one SQL
database, an optional separate log database and an optional Redis; several tabs
of one browser share one login. Processes may die and pages may be closed at any
time.

| Component | State | Operations | Hard behaviour |
|---|---|---|---|
| Durable billing (`model/billing_operation.go`, `service/billing_operation.go`) | `billing_operations`, log outbox, token and usage counters, session in memory | reserve, settle, refund, deliver log, migrate key | client retries, lost COMMIT answers, crashes, two databases, key rotation |
| Request billing session (`service/billing_session.go`, `funding_source.go`, `quota.go`) | session, wallet, subscription, token | pre-consume, settle, refund | check-then-act over a cached token, async refund |
| System task runner (`model/system_task.go`, `service/system_task.go`) | `system_tasks`, `system_task_locks`, runner and handler goroutines | create, claim, take over, renew, expire, finish, release | leases, stale reads, crashed or stalled runners |
| Login session and its cache (`model/user_session.go`, `service/auth_session.go`) | session row, Redis entry with deny fence and tombstone | create, validate, rotate, revoke, advance version | stale cache fill after a revocation, replayed secret |
| Browser login session (`web/src/lib/auth-session.ts`, `auth-session-sync.ts`, `http-client.ts`, `stores/auth-store.ts`) | per tab: session, refresh under way, retried call; per browser: cookie, lock, events | bootstrap, refresh, retry, sign in, sign out | tabs refresh at once, lost answers, reload, a login in another tab |
| Playground (`web/src/features/playground`) | conversation, buffered chunks, React's queue, stream, copy in localStorage | send, stop, edit, regenerate, delete, load, save | late chunks, late timers, late rendering, unmounting |
| Model pricing page (`web/src/features/system-settings/models`) | options on the server, draft, panel, editor state | open, price, edit tiers and rules, change view, stage, copy, delete, reset, save | effects that feed each other, a save in several requests |
| Billing expressions (`web/src/features/pricing/lib`, `pkg/billingexpr`) | none | write, split, parse, charge | what is written must be read back, by two languages |
| Managed context outcome (`model/managed_context_outcome.go`, `service/contextconsensus`) | outcome phases in SQL, revision in Redis | reserve, dispatch, checkpoint, commit, resume, expire | two billed calls per revision, crash between phases, compare-and-swap in Redis |
| Asynchronous tasks (`model/task.go`, `service/task_polling.go`, `task_billing.go`) | `tasks`, quota adjustments | submit, poll, time out, refund, recalculate | status compare-and-swap against unguarded bulk update, refund in several statements |
| Token quota, cache, batch updater (`model/token*.go`, `model/utils.go`) | token row, Redis hash, pending increments | increase, decrease, fill, invalidate, flush | cache and row diverge, increments lost on a crash |
| Money in (`topup.go`, `redemption.go`, `subscription.go`, `checkin.go`) | orders, codes, balances | complete, redeem, reset | duplicated callbacks |
| Channels and selection | channel table, in-memory index | select, disable, retry, sync | index rebuilt while used |
| Provider files, rate limiting, hybrid cache | outbox, counters, caches | | retries, window edges |
| Adaptors, protocol conversion, settings, rest of the console | none that is shared | | translation and presentation |

How they interact: the relay controller opens a billing session, calls the
upstream adaptor and settles or refunds; managed execution runs two such billed
calls per revision and checks the receipts; the system task runner executes the
polling of asynchronous tasks, provider file deletion, channel tests and log
cleanup; an administrator's usage reset writes the same rows as billing. Every
page of the console calls the API through the HTTP client, which refreshes the
login of its tab; the refresh rotates the secret of the session row, and every
later call is validated through the session's cache entry. The playground asks
the browser session for fresh headers before each stream. The pricing page writes
the expressions from which the server computes what a request costs.

What makes each correct: billing charges every operation exactly once and keeps
the books balanced; the runner executes one handler per type and never loses a
task; a revoked session stays revoked, and a living one is not lost to a race
between the user's own tabs; an answer goes to the message it was asked for, and
ends; a price is what the administrator saw; a managed revision is committed
once and billed once; an asynchronous task is refunded or settled once.

## 2. Plan

Done, in this order:

1. Durable billing: tables, session, abstract contract, refinement, proofs.
2. System task runner: lease protocol, proofs.
3. Browser login session against the server's rotation, proofs.
4. Login session cache: fence, tombstone, snapshots, proofs.
5. Playground: conversation, stream, React queue, stored copy, proofs.
6. Billing expressions and the pricing page that writes them, proofs.

Left, and why it comes later:

- *Managed outcome and revision*: phases around two operations of module 1; it
  should implement an exactly-once revision specification.
- *Asynchronous tasks* and the *non-durable billing session*: both rest on the
  token cache and the batch updater, whose counters may be wrong for a while by
  design; an exact property needs the settings of a deployment.
- *Money in*, *provider file deletion*, *channel index*, *rate limiter*: one
  guarded transaction, a retry loop, a table that is replaced as a whole, and an
  approximation.

## 3. Modules

**`BillingOperation`** is the database. A row of `billing_operations` is named by
the attempt that inserted it, because an attempt inserts at most one. `ops`,
`outbox`, `logs`, `token`, `usage` are the tables; `nodeKey` is the HMAC key each
process was started with; `erased` is a history variable that remembers what a
usage reset threw away. The operators are the transactions and the conditions
of their `WHERE` clauses.

**`BillingSession`** is one request: `pc` is where it is between two
transactions, `sess` the operation id and state its `BillingSession` remembers.

| Action | Code |
|---|---|
| `ReserveLookup`, `ReserveCreate`, `ReserveFallback` | `ReserveBillingOperation`: the select that locks nothing when there is no row, the insert the unique index may refuse, the lookup after an error, which may fail as well: the request is then turned away without a session |
| `Adopt` | the rest of `reserveBillingOperation`; a failed cache invalidation returns before the session knows its id |
| `UpstreamFails`, `FrozenCheck` | the upstream call and `frozenTextSettlement` |
| `SettleTx`, `VerifyFrozen` | `settleTextBillingOperation`, with the state copied from the closure before COMMIT |
| `ReadOutbox`, `RecordLog`, `MarkOutbox`, `Finish` | `DeliverBillingOperationConsumeLog` and the checks of the managed relay result |
| `RefundTx` | `refundBillingOperation` |
| `ClearUsage` | `ResetUsageAccumulations`, counters first, logs after |
| `Crash`, `RotateKey`, `SetLogConsumeEnabled` | the environment |

`Faults` chooses which failures a run admits: `crash`, `cache` (Redis refuses),
`reserveTx`/`settleTx`/`refundTx` (COMMIT fails), `ack` (COMMIT succeeds, the
answer is lost), `db`, `log` (other statements, the log database), `rotate`,
`reset`. User, token, channel and playground identity are part of the
fingerprint `FpOf`, since the code rejects a difference in any of them in the
same way. Prices are abstracted to `Settlement`, the set of possible outcomes.

**`BillingReceipt`** is what a caller relies on: one receipt per operation,
reserved once, then settled or refunded once, and a balance that moves with it.
**`BillingRefinement`** maps an operation to its row and states the
implementation.

**`SystemTask`** models one task type; types share no row. One SQL statement is
one step. `lock` is the row of `system_task_locks` with `locked_until` reduced to
`live`; `pc`, `cand`, `old`, `seen` are the program counter and the locals of the
runner's pass (`expire → schedule → claim`); `work` is the handler goroutine of
a task. `Legacy` rows are pending tasks of an older version without
`active_key`, which the repository's tests still cover. `key` is the set of rows
that have the `active_key` of the type, `asked` an administrator's request between
its look and its insert; both inserts act on what was read before, whatever has been
created, finished or expired since.

| Action | Code |
|---|---|
| `ReadStaleLock`, `MarkStale`, `DeleteStale` | `ExpireStaleSystemTaskLocks` |
| `Schedule`, `InsertScheduled` | `runSystemTaskScheduler`: the look at the latest row, and later the insert |
| `AskForTask`, `EnqueueSystemTask` | `EnqueueSystemTask`, `StartLogCleanupTask`: the look for an active row, and later the insert |
| `CreateTask`, `CreateRefused` | the insert, let through or refused by the unique index on `active_key` (`key`), or failing |
| `FindPending`, `InsertLock`, `InspectLock`, `TakeOverLock`, `MarkReplaced`, `StartTask`, `ReleaseClaim` | `runSystemTaskClaimPass`, `ClaimSystemTask`, `acquireSystemTaskLock` |
| `Heartbeat`, `FinishTask`, `ReleaseLock` | `runWithLeaseHeartbeat`, `FinishSystemTask`, and a progress report that finds the lease gone |
| `Lapse` | time passes `locked_until` |

Time is abstracted: without the fault `slow` a lease does not lapse while its
handler renews it (`Kept`) nor while a pass is still acting on what it read
before the lock was acquired (`Underway`), because a pass takes far less than
the 60 s lease. With `slow` the lease may lapse at any point, and a stalled
process may compare with an old reading of its clock.

**`AuthSession`** is one browser and the sessions the server keeps for it. Per
tab: `store` (the auth store), `run` (the refresh under way), `call` (an API call
that met a 401), `out` (a sign-out), `sign` (a sign-in whose answer has not been
applied), `events` (what other tabs published). Per browser: `holder` of the
refresh lock and the `cookie`. On the server: `row` per session. `orphan` are
requests whose page is gone. A session is a number and so is its n-th secret,
because the server derives the next secret from the presented one.

| Action | Code |
|---|---|
| `Bootstrap`, `GetFreshHeaders`, `CallRejected`, `RetryAnswered` | who starts a refresh: loading the page, the playground, the interceptor of `http-client.ts` |
| `LockGranted`, `Serve`, `ServeFault`, `ServeLookupFails`, `LoseAnswer`, `Handle`, `RaceDelayEnds` | `createRefreshRunner`: the lock, the request, and what each kind of answer leads to (`Accept`, `Raced`, `Mismatched`, `Unauthorized`, `Transient`, `Unexpected`, or `Superseded` when the epoch moved on) |
| `Verdict` | `RefreshLoginSession`: mismatch, or what the cache says of the session, where a deny fence may stand |
| `Secret`, `Rotated` | `RotateUserSessionRefresh`: rotate, replay inside the window, reuse |
| `RevokeHalts`, `FenceEnds` | `RevokeUserSession`: the fence is in the cache, the transaction has failed or is yet to come; the fence runs out |
| `SignIn`, `ApplyLogin`, `SignOut`, `SignOutAgain`, `SignOutMismatch`, `SignOutDone`, `RevokeElsewhere` | login, logout with its own refresh, a revocation from another device |
| `Deliver` | events between tabs, `__root.tsx` |
| `Reload`, `Expire`, `GraceEnds`, `ServeOrphan` | the world |

Faults: `lost` (the answer to a refresh), `failed` (5xx), `odd` (another status),
`race` (`AUTH_REFRESH_RACE`, which the page handles and this server no longer
sends), `slow` (a request outlives the replay window), `late` (the answer of an
old session is still under way when the next login is answered), `lookup`
(`GetUserSessionCached` fails for another reason than an inactive session), `fence`
(a revocation has written its deny fence and has not committed). In the last two
cases a refresh of an active session is answered with 401 and its cookie deleted;
`row[s].denied` remembers that this has happened to `s`. The cache itself is the
subject of `LoginSession`; here it is the one flag `fence`.

**`LoginSession`** is one session on the server: the row, its Redis entry, the row
lock and a clock. A request (`proc`) is one of validate, rotate, revoke, revoke by
hash, advance; each statement and each Redis call is a step of its own.

| Action | Code |
|---|---|
| `Validate`, `Read`, `Fill`, `Filled`, `Confirm` | `GetUserSessionCached`, `writeUserSessionCache`, `confirmUserSessionActiveSnapshot` |
| `Rotate`, `RotateCas` | `RotateUserSessionRefresh` |
| `Revoke`, `Fence`, `RevokeTx`, `Tomb`, `RevokeByHash`, `HashTx` | the two revocations: fence, transaction, tombstone |
| `Advance`, `AdvanceTx`, `Deny` | `AdvanceUserSessionAuthVersion`, `writeUserSessionDenyFence` |
| `Crash`, `Tick`, faults `redis` and `crash` | the environment |

**`Playground`** is one page. `messages` is the conversation as rendered, `queue`
React's pending updates, which are evaluated when queued (possible only while
nothing is queued) or when rendered: which one is React's choice. `gen`,
`pending`, `timer` are refs of `useChatHandler`, `ctl` and `source` the stream
controller, `req` the requests, `stored` localStorage, and `refused` says whether
the last `saveMessages` wrote nothing: it swallows what the schema or
`localStorage.setItem` throw, so every save (`SaveMessages`) may be refused. A token of text carries the
number of its request, so that text in the wrong place is visible.

| Action | Code |
|---|---|
| `HandleSendMessage`, `HandleRegenerateMessage`, `SaveEdit`, `SubmitEdit`, `HandleDeleteMessage`, `HandleClearMessages`, `StopGeneration` | the user, `use-playground-conversation.ts`, `use-chat-handler.ts` |
| `HeadersReady`, `HeadersFailed`, `StreamChunk`, `StreamDone`, `StreamFailed`, `StreamCut`, `ResponseOk`, `ResponseFailed` | the answer, `use-stream-request.ts` |
| `FlushTimer`, `Render`, `SaveTimer` | the buffer, React, the debounced save |
| `Unmount`, `PageClosed`, `Mount` | leaving, closing and loading the page, with `sanitizeMessagesOnLoad` |

`ApplyStreamingChunk`, `ParseThinkTags`, `FinalizeMessage` and the other functions
on messages are operators of the same names.

**`PricingExpr`** is the little language: an expression is tiers of guarded bodies
with rules, or a text no parser recognises. `GenerateExpr`, `Split`,
`TryParseVisual`, `BuildRules` are the console's writer and parsers, `Charge` is
what the server computes. `Exprs` is the set of the texts there are, in this
representation. **`PricingEditor`** is the page around it. One pass of the
effects of `TieredPricingEditor` is one step (`Effects`), in the order of the code
and over the values of one render; React finishes them before the next event.

| Action | Code |
|---|---|
| `HandleEdit`, `HandleAdd`, `TypeName`, `SelectTab`, `CloseBySearch` | which model the panel shows |
| `HandlePromptPrice`, `HandleLanePrice`, `HandleLaneToggle` | the per-token form, whose prices are stored as ratios |
| `HandleAddTier`, `HandleRemoveTier`, `HandleAddCondition`, `HandleTierPrice`, `AddGroup`, `ChangeGroup`, ... | the visual editor |
| `HandleRawChange`, `ApplyPreset`, `SwitchToVisual`, `SwitchToRaw` | the expression view |
| `HandleSave`, `SaveDraft`, `HandleBatchCopy`, `HandleDelete`, `ConfirmReset` | staging and saving |
| `UpdateOption`, `UpdateRefused`, `UpdateAnswerLost`, `Refetch` | one PUT per changed option, and the query that follows |

Ratios are multiples of 1/1024 where `formatPricingNumber` rounds to twelve
decimals. The prices of the instance are powers of two, whose ratios are exact;
`StagedPricesReturn` is about prices with an exact ratio (`Exact`).

Definitions introduced by "Seeded bug" are never used by the specifications;
they are plausible faults that show that each property can fail.

## 4. Runs

**Billing** (`MCBillingSession`): attempts `a1`, `a2` are the same request
sent twice, `a3` another operation on the same token or the same one with
another body. Reservations 2 and 1, costs 0, 1 and 4 against a balance of 4
reach refusals, upward and downward settlements and an exhausted token.

| Run | Bounds | Shows |
|---|---|---|
| `BillingFaults` | 3 attempts, 2 operations, 2 keys, all faults but `settleTx`, `reset` | books, receipts, sessions and logs are right |
| `BillingShared` | 3 attempts of one operation, unlimited token, `crash rotate log ack reset` | one row per operation, counters agree with the receipts under a usage reset, the contract is implemented |
| `BillingLive` | 3 attempts, `ack db log`, fair | failed requests are refunded, every reservation is resolved but one that nobody knows of (`Unclaimed`) |
| `BillingLostCommit` | `settleTx` | **violated**: a failed COMMIT leaks the reservation |

**System tasks** (`MCSystemTask`): three runners are what the race between a
dead claimer, a takeover and an expiry pass needs; two tasks let a task of the
same type follow a lost one.

| Run | Bounds | Shows |
|---|---|---|
| `TaskFaults` | 2 runners, 1 legacy and 1 keyed task, `crash db ack slow`, symmetry | types, finished tasks stay |
| `TaskLive` | 3 runners, an administrator, 2 tasks, `crash panic`, fair | one active row per type, and none that ended keeps the key, no running task without a lock, handlers exclude each other, every task ends |
| `TaskExpireRace` | 3 runners, `crash` | **violated**: an expiry pass fails a task whose lease is live |

**Login** (`MCAuthSession`, `MCLoginSession`): two tabs are one that acts and one
that is surprised; two logins let one replace another; two acts of users and
world (reloads, expiries, sign-ins, sign-outs, faults) are enough for each
seeded bug. On the server three requests are a revoker, a late writer and one
that asks afterwards; the clock passes two windows (2 each) and reaches the
expiry (4).

| Run | Bounds | Shows |
|---|---|---|
| `AuthTabs` | 2 tabs, 2 logins, 1 race delay, 2 acts, `lost failed odd race lookup fence`, fair | the user's own tabs are never taken for a thief; the server ends or denies a session before a tab is told so; a living one that was not denied can be continued; a dead one leaves every tab |
| `SessionCache` | 3 requests, window 2, time 4, 2 versions, `redis crash`, symmetry | nobody is let in after the tombstone, and nobody one window after the revocation |

`AuthTabs` has no `late` and no `slow`. With `late`, `SessionCanContinue` and
`RejectionIsTrue` do not hold: the browser stores the cookie of whichever answer
comes last, so that an answer of the old session replaces the cookie of the new
one. Without the lock, or with `slow`, `NoFalseReuse` does not hold: a replaced
secret is presented after its replay window (`docs/authentication.md:65-71`
describes lock and window). That a page which lost an answer asks again inside the
window (`GraceEnds` waits for it) is part of the assumption that `slow` names: the
window is thirty seconds of wall-clock time, and a user who returns later presents
a secret the code takes for stolen.

**Playground** (`MCPlayground`): two requests are the old one and the one its late
events could reach. One script has reasoning and snapshots of the text so far,
the other deltas with a think tag that is split over chunks. Two acts combine a
stop, an edit, a deletion, a reload or a cut stream. Storage for three messages
makes the trimming happen.

| Run | Bounds | Shows |
|---|---|---|
| `Playground` | 2 sends, 2 acts, 2 scripts, fair | no foreign text, no leaked stream, no stuck message, completed answers are whole, leaving saves what was rendered unless the write is refused, every answer ends |

**Pricing** (`MCPricingEditor`): two models, so that one can be opened while
another is staged and copied to; four actions reach opening, two edits and a save
or a change of view; three tiers and two rule groups are where the order of
tiers and groups begins to matter. The texts that may be typed include an empty
one, one the visual editor cannot show and one with rules nested in its price.

| Run | Bounds | Shows |
|---|---|---|
| `Pricing` | 2 models, 3 tiers, 2 groups, 4 actions, fair | what would be saved is what is shown, looking changes nothing, staged prices come back, the page knows what the server holds, effects settle |
| `PricingOpen` | an expression the visual editor cannot represent, 1 action | **violated**: opening it replaces it by the zero expression |

The violated runs are explained under `findings`, each with the line of the
repository it contradicts.

**Fairness.** `BillingSession!FairSpec` assumes that a request in progress takes
its next step: every call it makes has a deadline, and no process dies in that
run. `SystemTask!FairSpec` assumes that a living runner keeps making passes (a
ticker of 15 s), that the expiry check is part of them again and again (every
30 s; strong fairness, since other stages of the pass interleave), that handlers
end, and that an unrenewed lease runs out. Crashes leave at least one runner.
`AuthSession!FairSpec` assumes that pages handle what arrived, that the server
answers, and that a page keeps calling the API (the channels table, for one, polls
every 30 s), so that a dead session meets its 401. `Playground!FairSpec` assumes
that the server answers or fails, that timers fire and that React renders.
`PricingEditor!FairSpec` assumes that React runs the effects that are due.

## 5. Proofs

`BillingSession_proofs`, from `MappingAssumption`, `QuotaAssumption` and
`SessionAssumption` (types of the constants, nothing else):

- Every step is one of a few database steps (`NextIsDbStep`), so facts about the
  tables are proved per transaction, not per action.
- `TypeCorrect` proves `TypeOK` together with `SessionInv`: an attempt between
  reservation and end has the id of an existing row of its own operation, and
  an attempt that is about to create has none. `TypeOK` alone is not inductive,
  because settling and refunding go through the remembered id.
- `QuotaIsConserved` and `BalanceIsBounded` rest on `QuotaInv`, which ties
  `remain + used + erased` to the start. `ReceiptsAreFrozen` is a step property.
- `OwnStep`: a session changes only in a step of its own request, or when the
  process is lost. `SuccessIsDurable` needs it, and what each stage of the log delivery implies
  about outbox and receipt; `SessionsAreRight` holds unless `settleTx` is among
  the faults, which is exactly the finding.

`BillingRefinement_proofs`: `KeyInv` says that no row carries a key younger than
the process's and that an attempt past a missed lookup can only be beaten by a
row of its own active key. From it `OneReceiptPerOperation`, and with that
`BillingRefinesContract`: the initial state maps to the contract's, every
transaction to one of its steps, and everything else to a stutter. Both hold
under `SingleKeyRing`. They need it: while a key change is rolled out, two processes
with different keys compute two unique keys for one operation, and each inserts
a row of its own.

`SystemTask_proofs`, from `TaskAssumption`: a task only moves forward
(`StatusStep`), hence `FinishedTasksStay` under all faults. `OneActivePerType`
needs besides that exactly the active rows have the key, which each way of ending a
task has to keep: an insert that is let through then meets no active row, however
old the look before it is. `NoTaskIsOrphaned` and `HandlersExclude` rest on `LeaseInv`: a pass that
acquired the lock still has it, takes over a lapsed lock only for a task still
pending, and never claims a task it ran before; a running task is locked by its
owner; the lock an expiry pass deletes names no running task; a working handler
has a live lease. They hold under `Prompt` (no `slow`, no `ack`, no legacy rows);
each of the three conditions is needed.

`LoginSession_proofs`, from the types of the constants, for every number of
requests, every window and all faults: `IInv` adds to the types that the tombstone
follows the revocation and the clock is past it (`ClockOK`), that an active entry
lives no longer than one window, counted from now and from the revocation
(`EntryOK`), that a tombstone is only ever replaced by a deny entry and outlives
every snapshot from before the revocation (`TombOK`), and what each stage of a
request knows about the row, the lock and its deadline (`RequestsOK`). From it `RevocationHolds` and `RevocationIsBounded`.

`AuthSession_proofs`, for any number of tabs: `AuthTypeCorrect` holds under all
faults and needs `RaceOK`, since the number of race delays bounds a counter.
`NoSessionLostToReuse` rests on `RunOK`: a refresh that has begun holds the lock,
what it presents was in the cookie jar and is newer than what any orphan
presents, and an answered secret is the current one, which nobody presents yet;
together with `JarOK`, the same of the jar. Steps are sorted into those that leave
secrets alone (`QuietStep`), those that send one (`SendStep`) and those that put
one into the jar (`JarStep`). It holds under `Orderly`: the browser has the lock
and no request outlives the replay window; `late` answers are allowed.
`RejectionsAreTrue` and `SessionsContinue` hold under `Calm`, which also excludes
`late`, and need `LInv` besides: logins are numbered in order (`InOrder`), and
while the newest login is active and was not denied the jar holds its current secret, or the one
before it inside its grace period (`HasSecret`), and nothing under way in any tab
takes that away (`KeepsJar`): requests present what is in the jar, answers to them
neither reject nor clear it and only write a secret of the same session, and a
sign-out that will clear it has ended the session first. A failed lookup or a fence
denies the session whose cookie is presented, which is the newest one (`LiveDenied`);
both may happen at any time and nothing is claimed of that session afterwards. That an orphan cannot
rotate past the jar follows from `JarOK`. Neither theorem needs the tabs to be
idle: both hold at every moment, with refreshes and sign-outs under way.

`InductionLemmas` is induction by a minimal counterexample. The library's
induction theorems take an operator as a parameter; stated for a *set* that
contains zero and every successor, or the empty set and every set with one more
element, induction follows from the well-foundedness of `<` and can be cited.
From it comes what the sum over a finite set and a fold over a sequence are: they
exist, bound their summands, and change with one of them. A recursion over `0..n` is a
trace, the sequence of its values, which exists for every `n` (`TraceExists`).

With it, `BillingSession_proofs` has three more theorems:

- `CountersAreRight`: the token is charged for exactly the open reservations and
  the settled receipts, and the channel has counted each settled receipt once.
  The invariants are two sums, `Hold` and `Count`; every transaction changes one
  summand by what it adds to the counter.
- `LogsFollowSettlements`: `LogInv` adds that the request which is about to mark
  its delivery has written its log, and that no reset is under way.
- `FailuresAreRefunded`: a refund is refused by the code when the used quota is
  too small (`CanGiveBack`). It never is, because the sum of the first theorem
  bounds each of its summands; hence a request that ends in an error has refunded.

The first and the third assume that the set of attempts is finite, since a
counter that adds up infinitely many has no value.

`Playground_proofs`, for every alphabet, every set of streams (`ScriptsAssumption`:
sequences of content and reasoning chunks) and all bounds. `IInv` says of the page
(`PageSide`) that every message, queued update, buffered chunk and stored message
is one whose text belongs to its own request (`OwnMessage`), that a buffered or
queued update of the current generation belongs to the last request, and that
only the last message of any list may be pending (`TidyOK`), if a closing update
for it is queued, or the page still offers to stop; of the requests (`ReqSide`)
that only the last one can be live or connected, and that the generation of the
stream controller moves with the one of the chat handler. Each is needed: a late
timer is harmless because of what the generations say about the buffer, and an
update React evaluates late because of what the queue may contain. `TextIsOwn`,
`StreamsDoNotLeak`, `NothingStaysPending` follow; `LeavingLosesNothing` is a
step property that rests on `SaveOK`, which relates the last rendered, the last
evaluated and the stored conversation, as long as the last write was not refused.
It is about a page with nothing left in React's queue: what was queued and never
rendered is not written.

`AnswersAreWhole` (`CompletedTextIsWhole`) needs a second invariant, `WholeInv`, on
top of `IInv`. It speaks of `Now`, the conversation that React will have rendered
once the queue is evaluated: a flush changes `Now` in the same way whether React
evaluates it early or late (`EnqueueNow`), and rendering does not change it at all.
While a stream is open, `Progress` says of the last message of `Now` and of the
buffer that the message holds a beginning of what was said and the buffer the rest;
a chunk extends the buffer (`ProgressChunk`), a flush moves it over
(`ProgressFlush`), and with nothing buffered at the end the completed message shows
the whole (`CompletedShows`). A response without a stream meets an empty message
(`WaitOK`), and an edit never touches the message that is being answered
(`EditOK`). Below it lie lemmas on the operators: the folds of `parseThinkTags`, of
the merged chunks and of React's queue go through a trace, one step per element
(`ParseTraces`, `FullTextTraces`, `DrainTraces`), merging and cutting tokens is
merging and cutting letters (`TokensMerge`), and `parseThinkTags` takes no
reasoning back (`ParseBeginning`).

The theorem is about streams whose chunks of a type are snapshots, or deltas that
cannot be mistaken for them (`Plain`), and says nothing about the reasoning when the
server sends some and the content has tags too. This proof changed the property.
It used to ask of deltas only that no chunk starts with what was buffered before
it. The flush could not be proved: after `ab` was flushed, the deltas `a` and
`b` are buffered as `ab`, which starts with the message, and `getAppendableChunk`
(`message-streaming-utils.ts:73`) appends nothing. TLC confirmed the loss with these
three chunks. `IsDelta` now rules out both confusions, and the property and
`WholeInv` were checked with TLC for 1639 scripts of three or four short chunks
over two letters and the think tags before they were proved.

`PricingEditor_proofs`, from `ConstantsOK` (types, and that presets have no rules
inside their expression), for any models, prices, texts and numbers of actions.
First the operators: `SplitCombined`, `CombineSplit`, `GenerateParsed`,
`BuildRulesIsId` are the round trips between the texts and what the visual editor
holds. Then `EditorOK`, which holds after every single pass of the effects and
not only when they have settled: an editor that has run no effect is as it was mounted,
with nothing due the panel has what the view reports (`Reported`), the text of the
expression view is the price it splits into with the panel's rules around it
(`TextOK`), a price that the visual view cannot show keeps its rules until the
other view takes over (`RulesOK`), and an untouched, representable price is held
unchanged by panel and view (`SeenOK`). `StagedIsShown` and `LookingIsHarmless`
follow. For `BaselineStaysTrue`, `PageOK` says what holds *during* a save: the
options that were sent are on the server, those that are left differ both there
and in the baseline, and if a reset of the ratios came in between, what was
fetched last differs from what will be saved, so that the next fetch is noticed.
`PricesReturn` (`StagedPricesReturn`) rests on `FormOK`: a lane that is off keeps
neither price nor ratio, and one that is on has a ratio derived from its price, or
a price derived from its ratio, relative to the price the form shows *now*.
Typing the audio input price must therefore derive the ratio of the audio output
again, and switching it off must take the other with it. That a ratio without a
remainder gives the price back is `PriceReturns`. The property used to hold only of
the instance, whose prices have exact ratios; it now says so of each price itself,
and is proved for all.

This proof changed a property. `ShownIsStaged` used to exclude only rules that
cannot be parsed. The step for `Effects` could not be proved for a text with two
layers of readable rules, and TLC confirmed it on an instance with such a text
and six actions: for a new model, type it, change the model's name (which makes
the editor forget that it was initialised) and type again; the initialising
effect then reads the price that was reported before, with the inner rules still
in it, and the panel and the view disagree. `odd` now records such a text where it
is given or typed, and the two properties leave it out.

**Only model-checked.**

- Liveness, which needs fairness: `ReservationsResolve`, `TaskEnds`,
  `DeadSessionLeaves`, `AnswerEnds`, `Settles`.

## 6. What the models leave out

**Observed while modelling, not checked by a run**

- During a rolling key change two processes create two rows for one operation.
- `record_created` follows the last delivery: if `LogConsumeEnabled` is switched
  off between two deliveries it says `false` although a log exists.
- A reservation whose COMMIT answer is lost is looked up once
  (`model/billing_operation.go:272`). If that lookup fails too, the request is turned
  away and nobody gives the reservation back until the client retries
  (`Unclaimed`; part of `BillingLive`).
- `docs/authentication.md:71` says that a temporary failure of the server lets a later
  navigation retry the refresh, and that only a cookie confirmed to be invalid leads
  to the anonymous state. `RefreshLoginSession` (`service/auth_session.go:214`) makes
  every error of the session lookup, say a database that does not answer, an invalid
  token; `RefreshAuth` deletes the cookie, and the page signs out all tabs of a
  session that is still active. The deny fence of a revocation that did not commit
  has the same effect. Both are part of `AuthTabs` (`ServeLookupFails`,
  `RevokeHalts`); `RejectionIsTrue` and `SessionCanContinue` show that nothing else
  has it.
- A runner that stalls for longer than its lease between taking the lock and
  starting the task starts a task whose lock is gone: it stays running for ever.
- If a revocation's tombstone cannot be written, or its process stalls past the
  fence, a snapshot can let the session in again for at most one window.
- In the playground, a write that `localStorage` refuses is swallowed
  (`storage.ts:375-384`), so leaving may save nothing; saving an edit over queued updates loses what they added; a
  stop may lose text that was flushed but not rendered; a delta that
  starts with the text still buffered is taken for a snapshot, and so are deltas whose
  buffered text starts with the whole message (`ab`, then `a`, `b`: section 5); and a
  stream that is closed with status 200 before `[DONE]` is never noticed.
- On the pricing page, rules the parser does not read back are counted twice after
  a change to the expression view; rules nested in a price may be shown and not
  staged after a change of the model's name (section 5); a base price of zero drops the prices that
  depend on it; `billing_mode` is written before `billing_expr`; a save overwrites
  whole maps, so two administrators overwrite each other; a refetch resets unsaved
  drafts. `pkg/billingexpr/expr.md` says that an expression is validated on save,
  but `SmokeTestExpr` has no caller.

**Assumptions.** One SQL transaction is atomic and an update with a condition
sees committed rows. Redis and all nodes have the same clock. A user's click is
rendered before the next event. The library that reads server-sent events and
React's queue are modelled from how the code uses them.

**Inside the modelled components**: the outcome checkpoint inside the settlement
transaction; the non-durable branch of the billing session; channel retries; the
log cleanup loop and the progress columns of system tasks; revocation of all
sessions of a user and the deletion of old rows; the rotation of the own session
after a password change (`applyAuthRotation`); attachments, message versions,
settings and trimming by size in the playground; three of the six price lanes,
fixed prices, the JSON view, the sheet for small screens and the upstream sync of
the pricing page.

**Not modelled**

- *Managed outcome*, *asynchronous tasks*, *token cache and batch updater*,
  *non-durable session*: see the plan.
- *Money in*: each operation is one transaction guarded by a row lock and a status.
- *Provider files*: a retry loop on top of the system task runner.
- *Channels and selection*: random choice over a table replaced as a whole.
- *Rate limiting*, *hybrid cache*: approximate by design; right or wrong only
  together with a caller.
- *Adaptors and protocol conversion*: stateless translation.
- *Rest of the web console*: most of its lines are markup, tables, charts and
  forms. A form keeps its draft in one component and sends one request; what state
  there is does not outlive the dialog and has no second actor.
- *Desktop shell, translations, OAuth providers, settings*: configuration and text.
