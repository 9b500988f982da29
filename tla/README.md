# Formal models of the compliance platform

TLA+ modules, TLC configurations and TLAPS proofs for the parts of the platform
in which an error is expensive and a test is unlikely to find it: an agent that
may act on a tenant's behalf, the queue that makes it act unattended, the ledger
of what it may spend, the deletion of a tenant, credits and payments, receipts,
notifications, the audit chain, scheduled observations, standing policies and the
idempotency keys of the API. `PROJECT.json` relates every
definition to the lines it models, every property to the hazard it is about and
to a mutation of the code that breaks it, and lists what is proved.

Contents: [the system](#the-system), [inventory](#inventory),
[modules](#modules), [runs and bounds](#runs-and-bounds),
[fairness](#fairness), [proofs](#proofs),
[disagreements with the documentation](#where-code-and-documentation-disagree),
[what is not modelled](#what-is-not-modelled), [plan](#plan),
[how to run](#how-to-run).

## The system

A Cloudflare Worker (`src/cloudflare/src/agentic-entry.js` around `worker.js`)
over one D1 database (SQLite), an R2 bucket and a few external services. Requests
and cron events run in isolates that share nothing but the database and the
bucket, may be lost at any await, and run concurrently with each other.

What matters for the models:

* **A D1 statement is atomic, and so is a D1 batch**: all of its statements commit
  or none does. A trigger's `RAISE(ABORT)` and a violated `UNIQUE` or `CHECK`
  abort the batch; an UPDATE or INSERT ... SELECT that matches nothing does not,
  and the code reads `changes` afterwards.
* **Everything else interleaves.** A handler typically authenticates, reads
  several rows, decides, and then runs one batch whose SQL repeats some of the
  conditions. Between the reads and the batch any other actor may commit.
* **A lost reply is not a lost write**: a batch may commit and its caller still
  see an error.
* **Cron** (`agentic-entry.js` 277-286): `* * * * *` drives the employee dispatcher
  and nothing else; `15 6 * * *` the morning sweeps (payments, finance watches,
  goals, evidence, tenant deletion, retention of idempotency keys), `15 16 * * *`
  the evening summaries and the notification outbox; both daily triggers also run
  the standing policies. A sweep of thirty minutes is taken for dead and begun again
  (`worker.js` 5186-5206), and owners and operators start some of them by hand, so
  that sweeps overlap.

The models follow this division. A handler is an *Accept* action, which leaves in
a per-worker record what the handler read, and a *Commit* action, which evaluates
the guards of the batch's SQL and triggers in the state it finds and performs all
of the batch's writes. Rejected batches, error replies and lost isolates change no
table: one *Abandon* (or release, or crash) action ends the handler.

## Inventory

State, operations, interactions, difficulty and correctness of each part. The
parts that are modelled come first; line numbers of every operation are in the
`map` of `PROJECT.json`.

| Part | State | Operations | Talks to | Hard because | Correct when |
|---|---|---|---|---|---|
| Bounded task execution (`agentic-task-execution.js`, migrations 047, 048, 064) | `agent_delegations`, `agent_execution_grants`, `agent_task_requests`, `agent_jit_execution_permits`, `agent_internal_tasks`, receipts | grant, prepare, approve, cancel, permit, execute, revoke | authority core, runtime guard, registry, proposals | handlers race between read and batch; permits expire; daily counts are read before they are used | a task exists exactly for an approved, paid request, once, under live authority, within the daily cap |
| Delegated authority (`agentic-authority-core.js`, `delegated-authority.js`) | `agent_delegations` | create, pause, revoke, expiry | execution | two notions of "expired" | no effect under a dead delegation |
| Registry and runtime guard (`agent-control-plane.js`, `agent-runtime-guard.js`) | `agent_registry.authority_state`, environment switches | transitions; evaluation | execution | read early, used late | containment stops the next effect |
| Employee dispatcher (`employee-dispatch.js`, migration 20261024) | `employee_dispatch_queue`, `employee_dispatch_controls` | enqueue, stop, dead-letter, claim, execute under a lease, release with back-off | execution, proposals, sessions | leases, crashes, lost replies, three attempt limits that must agree | completion is the effect; leases are ended by their holders; rows settle |
| Employee proposals (`employee-proposal-*.js`, `employee-workflow-*.js`) | proposals, reviews | submit, review, supersede, withdraw | prepare, dispatcher | provenance read before use | only an approved, current proposal leads to a task |
| Cost ledger (`agent-cost-reservations.js`, `agent-cost-admission.js`, migration 068, driven by `agent-model-observation-runner.js`) | `agent_cost_budgets`, `agent_cost_reservations`, `agent_cost_events` | reserve, settle, release; operator switches and reconciliation | model providers, deletion | admission reads race; provider calls time out after the money is spent; totals kept by triggers | totals are the sum of the rows and within budget; no call is unaccounted for |
| Tenant deletion (`worker.js` 3378-3531, 8357-8434, 8504-8511; `report-attachments-entry.js` 151-181; migration 068 triggers) | `deletion_requests`, `legal_holds`, `evidence`, `deletion_tombstones`, bucket | file, approve, hold, release, claim, recover, page, purge | evidence uploads, ledger | a claim can be taken over while its sweep runs; the batch checks some things and not others | no purge under a hold or with unsettled money; nothing is left behind; nothing is half deleted |
| AI credits (`worker.js` 445-640) | `ai_credit_wallets`, `ai_credit_ledger`, `ai_usage_events`, `ai_credit_grants`, partner pool and allocation | spend guard, debit, log, pool claim and draw, refund of a failed answer, monthly grant | AI routes, payments | one statement after the other, each undone by another; the cap is read before it is used | every credit is on record; the cap is passed by no more than what ran at once |
| Credit orders (`worker.js` 948-1420, 5440-5560) | `payment_orders`, settlement claims, fulfilments, `payment_refunds` | checkout, payment, verify and settle, fulfil, refund | DPO, wallet | return page, callback, sweep and operator settle one order at once; claims are taken over after ten minutes | credits are backed by money; paid is fulfilled; a refund can be taken back |
| Proof-of-payment uploads (`payment-pop-*.js`) | reservations, objects, `payment_pop_documents` | reserve, put, record, clean up, scan, review, retire | R2, scanner | object and row are no transaction; replies are lost; the scanner answers late | an accepted receipt keeps its object until it is retired; a verdict is the answer to the last request |
| Notification outbox (`worker.js` 650-670, 1640-1780, 2950-3102, 7736-7774) | `notification_outbox`, allowance, dead letters, channels | queue, claim, deliver, retry, bury, consent | WhatsApp | sweeps overlap; deliveries write without asking for the claim | duplicates have a reason; the allowance is what was queued; rows settle |
| Sealed audit chain (`audit-lineage-writer.js`, `worker.js` 780-846) | `audit_events`, `audit_chain_state` | append, change and append, verify | everything that audits | writers race for a number; a committed batch may be reported as failed | one gapless chain; answers tell what was done |
| Observation loops (`finance-watch-durable-loop.js`, `business-goal-durable-loop.js`, `agentic-persistent-tasks.js`) | `agent_persistent_tasks`, `agent_observation_claims`, checkpoints | list, claim, take over, observe, commit, fail, ask the owner, pause, resume, cancel | ledger, owners | overlapping sweeps; claims taken over under the same id | one verification per occurrence, none under a paused task; an occurrence does not stay due |
| Standing policies (`agent-internal-autonomy.js`) | `agent_persistent_tasks` rows with a policy, their `agent_persistent_task_events` | list ten, check, carry out, close, run now, revoke | task execution | oldest-first selection of ten; compare-and-set at the end | an occurrence has one run; a due policy is reached |
| API idempotency (`worker.js` 1030-1074, 8484; migration 039) | `api_idempotency` | claim, look, take over after two minutes, complete, abandon, forget | some twenty mutating endpoints | neither completion nor abandonment asks whose claim it ends; a mutation may fail after it wrote | a key has one effect but for counted lapses; an answer belongs to its request |
| Evidence vault and scanner (`worker.js` 3564-3747, 5780-5900, `scanner/worker.js`) | `evidence`, bucket, scan events | presign, upload, scan, promote, quarantine | scanner, deletion | file and row are not one transaction | only a clean file is served |
| Subscriptions, scheduled reminders, WhatsApp inbound, finance/property/assets, general AI routes, workspace, Node/Postgres drafts, release tooling | per-request tables | CRUD, reports, text | - | little control of their own | - |

The authority chain end to end, as the modules see it:

    owner --delegation--> grant --prepare--> request --approve--> permit --execute--> task + receipt
                                     ^                                      ^
             employee proposal ------+         dispatcher (lease) ----------+
    observation run --reserve--> ledger <--settle/release-- provider answer / operator
    owner --request/approve--> deletion sweep --purge--> tenant gone (ledger, evidence, users)
    checkout --> provider --callback/return/sweep--> settle --> wallet <-- AI requests, refunds
    handler --idempotency key--> mutation --> audit chain, outbox --> WhatsApp
    daily trigger --> observation --> checkpoint     daily trigger --> policy --> task

## Modules

| Module | Models | Role |
|---|---|---|
| `BoundedTask` | what bounded execution promises | abstract specification: atomic prepare, approve, cancel, permit, execute, day change |
| `TaskExecution` | the task handlers over D1 with their races | detailed; implements `BoundedTask` |
| `EmployeeDispatch` | the queued dispatcher; EXTENDS `TaskExecution` | composition of sweeps with the manual handlers; implements `BoundedTask` |
| `CostLedger` | reservations, triggers, the observation runner, operators | component; its purge is abstract |
| `TenantDeletion` | owners, holds, sweeps, uploads, purge; INSTANCE `CostLedger` | composition; implements `CostLedger` |
| `CreditWallet` | the AI credits of a tenant | component; also what `PaymentSettlement` is shown to respect |
| `PaymentSettlement` | credit orders at DPO; EXTENDS `CreditWallet` | composition; implements `CreditWallet` |
| `ProofOfPayment` | the receipts of a manual bank order | component |
| `NotificationOutbox` | queueing, sweeps, deliveries, consent | component |
| `AuditChain` | the two sealing writers and the verifier | component |
| `ObservationSchedule` | what a scheduled observation promises its owner | abstract specification |
| `ObservationLoop` | claims, takeovers and batches of both loops, a task's transitions | detailed; implements `ObservationSchedule` |
| `InternalAutonomy` | standing policies | component; a task is one step, as `BoundedTask` justifies |
| `ApiIdempotency` | one idempotency key | component |
| `TaskExecutionProofs`, `EmployeeDispatchProofs`, `CostLedgerProofs`, `TenantDeletionProofs`, `WalletProofs` | - | theorems about the module of that name (`WalletProofs`: `CreditWallet`) |
| `PaymentProofs` | - | theorems about `PaymentSettlement`, `ProofOfPayment` and the two together |
| `ServiceProofs` | - | theorems about `InternalAutonomy`, `ApiIdempotency` and `AuditChain` |
| `SweepProofs` | - | theorems about `ObservationLoop`, `NotificationOutbox` and `MCPlatformServices` |
| `MCPaymentSettlement`, `MCPlatformServices` | - | components that share nothing, one per behaviour (`focus`), checked in one run |
| `MCScheduledWork` | `EmployeeDispatch` from its ready state, `InternalAutonomy` with a clock that does not end | what the cron works on for ever, one per behaviour (`focus`): the liveness of both |
| other `MC...` | - | symmetry sets, state bounds, and for the dispatcher a fair specification |

### TaskExecution

`status`, `payload`, `via`, `approver` are a row of `agent_task_requests`;
`permit`, `holder` its permit; `effects`, `taskPayload`, `today` the task and
today's receipts; `delegation`, `grant` the owner's policy; `role`, `authority`,
`provenance` the parts of the world execution reads; `job` the handlers in flight.
A request id is an idempotency key; a payload is equal to another exactly when its
hash is.

* `AcceptX`/`CommitX` are the two halves of `createExecutionGrant`, `prepareTask`,
  `approveTask`, `cancelTask`, `issueJitPermit` and `executeTask`. `CommitExecute`
  is the effect batch: `EffectGuard` is the WHERE of the effect UPDATE and the
  guards of its triggers, `TaskEffect` the writes.
* `PermitExpires` is the five-minute expiry, `NewDay` the change of the UTC day
  the cap is counted over.
* `DelegationLapses` takes a delegation from "active" to "overdue" to "expired".
  "overdue" exists because SQL compares an ISO text (`...T...`) with
  `CURRENT_TIMESTAMP` (`... ...`) as text: in SQL the delegation lives until its
  UTC day ends, in the JavaScript guard until the instant (`SqlLive`, `JsLive`).
* Creating, pausing and revoking a delegation and revoking a grant are single
  steps: each is one conditional batch that carries nothing from its reads that
  the batch does not check.
* Abstractions: one tenant; the environment's switches are constants of a
  deployment in the position that lets execution through; delegations without
  `valid_from` and without the strong-authentication flag; one `DailyCap` for all
  delegations; "restricted" and "suspended" are both "contained"; employee
  requests are prepared through the employee path only.

Properties: `ExactlyApprovedEffect`, `DailyCapHolds`,
`EffectOnlyUnderLiveAuthority`, `PreparedFromLiveSource`, `ImplementsBoundedTask`.

### EmployeeDispatch

`queue` is a row of `employee_dispatch_queue` with time abstracted to three
Booleans: the lease is still running, the row is due, the owner's session is
valid. `dispatcher` is a sweep: dead-letter, claim, check, batch, diagnose,
release. `CheckPasses`, `CheckDenies` and `CheckFails` are the outcomes of
`executeTask`'s reads (`CheckFails` is `safeFirst`, which turns an exception into a
missing row), `CommitDispatch` the batch with its fence and its completion,
`BatchFails` a batch that aborted or whose reply was lost, `Crash` the death of a
sweep anywhere. `Timer` is the end of a lease, or of a back-off. Every action of
`TaskExecution` is an action here; `Fenced` is the trigger that keeps a manual
execution away from a queued request.

Properties: `CompletedExactlyWhenExecuted`, `NoStrandedRow`,
`LiveLeaseEndsOnlyByHolder`, `DispatchedUnderFullAuthority`, `EveryRowSettles`,
`ImplementsBoundedTask`.

### CostLedger

`open`, `spent`, `reserved` are the budget row, `reservation` and `journal` its two
tables, `run` the runs in flight and `called` a history variable: the reservations
under which the provider was called. A run reads the budget (`AcceptRun`), reserves
(`CommitReserve`, whose conditions are the triggers' and not the read's), looks
again at its switches (`ReleaseUnused`), calls the provider, and settles. `Abandon`
is every way of not learning the outcome. An operator may switch the budget and
reconcile what was left, at any time and through the same two functions;
`Reconcile` and `BudgetSwitch` are external, as no code does either yet. What is
assumed of the operator is in `Reconcile`: what the provider was called for is
settled and not released. `closing` and `tenant` are the ledger's view of deletion.

Properties: `BooksBalance`, `NeverOverBudget`, `CallsAreAccounted`,
`OneCallPerRunId`. `JournalIsComplete` is a part of the inductive invariant and proved.

### TenantDeletion

`request` is a `deletion_requests` row; `stale` says that fifteen minutes have
passed since its claim's last heartbeat. `sweep` is one run of
`processDeletionRequest`, from `Claim` (new or recovered) through the hold, one page
of report attachments, one page of files deleted one at a time (each may fail, or
fail after the object went), the heartbeat, the count, the last look at claim and
hold, to the batch. The batch is two actions because the code's statements do not
ask for the same things: `PurgeTenant` when the claim still holds,
`PurgeUsersOnly` when it does not. `LoseSweep` is a crash, and also the abort of a
batch by `CostGuards`, which apply to tenants with a budget row.

`users` are those who belong to no other tenant, and the requests are theirs: they
cascade away with them (`DropRequests`, status "gone"). Sweeps are the daily cron
and the owner's execute call; only the latter takes a blocked request up. Uploads
go through presign; report attachments are `ReportPages` abstract pages, each of
which may fail.

`Cost == INSTANCE CostLedger WITH closing <- Closing` supplies the ledger's steps
(`LedgerMoves`), the purge's effect on the ledger (`Cost!Cascade`) and the
specification the whole is shown to implement.

Properties: `PurgeUnderNoHold`, `PurgeAfterSettlement`, `ClaimEndsByHolder`,
`ImplementsLedger`.

### CreditWallet and PaymentSettlement

`wallet`, `ledger`, `used`, `granted` are the tenant's wallet, the sum of its ledger
rows, the month's usage and the grant's row; `pool` and `allocated` the partner's.
`call` says where an AI request is between its statements. `LogFails`, `ReturnDrawn`
and `ReturnAllocation` are the compensations; `LogReplyLost`, `DrawReplyLost` and
`LoseCall` the ways in which a statement and its record part company, which set
`undisturbed` to FALSE. `hold` is a refund in progress, which keeps requests out of
the wallet: the wallet's UPDATE asks for it, while before the pool it is looked at once
(`LookAtHold`) and the pool's statements do not ask again.

`PaymentSettlement` puts orders in the place of `Purchase` and `Reversal`. `order`,
`settlement`, `fulfilment` and `refund` are the four rows of an order, `job` the
handlers: a verification asks the provider, reads, claims, fulfils in one batch and
finishes; a refund looks at the wallet, inserts its row, asks the provider and
reverses. Every claim may be taken over at any moment, which is more than the ten
minutes of the code. `ImplementsWallet` says that a settlement or refund moves the
wallet only as `CreditWallet` allows.

Properties: `CreditsAccounted` (the books agree, the cap's overrun is bounded);
`CreditsBacked`, `PaidIsFulfilled`, `RefundCovered`, `ImplementsWallet`.

### ProofOfPayment

`reservation`, `objects` and `receipt` are the three places an upload leaves a trace
in, `upload` and `staff` the requests. Each step that writes may have its reply
lost; a clean-up removes the object only after it has looked at the reservation.
A scan has a window and an open request; its answer may come after either is gone.
Retirement marks the row, removes the object and marks that too. Property:
`ReceiptsKept` (a receipt and its reservation agree, its object stays until it is
retired, a verdict answers the request that was open last).

### NotificationOutbox

`outbox` is a row's status, `producer` the requests that queue one (look for the key,
charge the allowance, insert or give back), `sweep` the runs of
`processNotificationOutbox`: recover, list, claim, deliver, record. A row is given up with
the attempts its sweep had read and, where an attempt was made, one more (`GiveUp`).
`excuses` counts what may lead to a second message: a claim put back as stale, an
acceptance that was not recorded. Properties: `DuplicatesExplained`, `QuotaAccounted`,
`NotificationsSettle`.

### AuditChain

`events`, `head` and `row` are the tables, `writer` the appends and changes in
flight, `unheard` those whose batch committed without their learning of it,
`verifier` the page it is at. Property: `ChainVouches`.

### ObservationSchedule and ObservationLoop

A task, its `nextRun`, the table of claims by occurrence and the checkpoints;
`observer` is a sweep with what it has read. The batch of `Commit` asks that claim and
task are as they were seen (`StillMine`). The two loops are one module with `kind`:
they differ in who is asked after a failure. The batch that pauses a task for its owner may
abort though the claim still holds, or commit and lose its reply: the sweep then fails the
claim as after any failure (`AskOwner`, `Disappointed`). `ImplementsSchedule` refines
`ObservationSchedule` with `tried` as the claims' attempts and `verified` as the
checkpoints; `DueIsObserved` names the two ways in which an occurrence stays due
for ever (`vain`): a watch that fails by exception, which nobody is told of, and two
sweeps that fail each other's claims.

### InternalAutonomy

`due` is a policy's `next_run_at`, `stuck` the policies whose sources or grant are
gone, `Tasked` those with the scope of tasks, `runs` and `tasks` what was done, `runner`
a run of the listing with its rows, or a request of the owner with one.
`CarryOut` is the chain of `runStandingApprovedTask` as one step, which looks at the
policy again; a policy without the scope is looked at only by the compare-and-set of
`CloseRun`.

`MCScheduledWork` goes on where the module's time ends: at the second midnight
`ClockTurns` sets the clock back by a day. A policy to come keeps its distance, those
that are due keep their order, and the runs of the day before, which nobody counts any
more, are forgotten. In this endless time a listing of two meets three policies, some of
them denied: for good, or until the next day.

Properties: `OneRunPerOccurrence` (whoever runs a policy at once and whatever is lost
between task and compare-and-set, an occurrence is closed by one run, after its task, and
is not due again); `DuePoliciesRun` (a due policy that is not denied is reached, unless as
many as a listing holds, ten in the code, are due and denied).

### ApiIdempotency

`keyRow` is the row, `request` where each request with the key is, `effects` those
whose mutation was made. `Execute` has three outcomes: made, refused, and thrown,
before or after it was made. Completion asks for the payload's hash, abandonment for
"processing", and neither for the claim. `lapses` counts the occasions on which a
second effect is to be expected: a stale claim taken over, a mutation that was made
and abandoned, a row deleted after seven days. Property: `KeyKept` (effects never
exceed one and the lapses; an answer is that of a mutation with the same payload).

## Runs and bounds

Passing runs; sizes with two workers.

| Run | Instance | Distinct states | Shows |
|---|---|---|---|
| `task_execution` | 2 owners, 2 delegations, 2 payloads, 2 workers, 1 employee request | 572,536 | every race of two handlers on one request: exactly the approved effect, live authority, live source, refinement of `BoundedTask` |
| `daily_cap` | 1 owner, 3 requests, 2 workers, cap 2 | 910,728 | two handlers that read the same count cannot exceed the cap |
| `dispatch` | 1 owner, 1 employee request, 1 manual worker, 2 sweeps | 259,258 | leases, crashes, lost replies and stale workers next to a manual execution |
| `scheduled_work` | 2 requests, 1 sweep, ready state; 3 policies, one of them with tasks, 1 runner, a limit of 2, days of 2 hours without end | 326,264 | liveness: every row settles; a due policy is reached behind fewer denied ones than a listing holds |
| `cost_ledger` | 3 reservations, 3 run ids, 3 runs, amounts 1 and 2, budget 3 | 17,347 | concurrent admissions, repeated run ids, charges above the estimate, reconciliation |
| `tenant_deletion` | 1 request, 1 owner call, 2 sweeps, 1 file, 2 report pages, 3 attempts, 1 reservation | 347,744 | takeover of a claim, hold against purge, unsettled money, refinement of `CostLedger` |
| `payments` | 2 orders, 2 handlers, 1 AI request; 2 uploads under 2 keys, 2 staff | 638,733 | settlement and refunds at once with takeovers; receipts under lost replies; refinement of `CreditWallet` |
| `platform_services` | 2 AI requests; 1 notification through any channel, 2 producers, 2 sweeps; 3 writers; 2 observers over 2 occurrences; 2 policies, one of them with tasks, 2 runners; 3 requests under a key | 318,166 | six services: their safety, the liveness of outbox and observations under fairness, the refinement of `ObservationSchedule` |

Why the bounds are enough, and what they cut:

* Every interference in this code is between two actors on one row, so two workers
  or two sweeps on one request exercise it; the cap needs cap + 1 requests, which is
  why `daily_cap` has three and a cap of two; a shared budget needs three estimates
  that fit one by one and not together.
* Two payloads and two owners tell the approver's payload and permit from
  another's. `daily_cap` needs neither.
* Amounts 1 and 2 against a budget of 3 make an estimate fit and a charge not.
* `MaxAttempts` of the dispatcher is the code's 3. The deletion's hundred attempts
  are three and there are two pages of reports, so that the limit, a second page and a
  recovered claim all happen in one behaviour; one file, as its pages repeat the same
  steps.
* `MCBound` of `task_execution` and `dispatch` leaves out a revoked agent and users
  who left, and `dispatch` all but one withdrawal of authority per behaviour: each
  only denies, as containment and a demoted owner, which are in, do.
* `MCBound` of `payments`: two handlers or AI requests at once, one unsettled order
  at a time, no month's grant and no parted books (those are in `platform_services`).
  Two orders are there for the second to spend what the first bought.
* In `platform_services`, `OutboxBound` lets producers overlap with each other and
  sweeps with each other, not producers with sweeps, which touch a row only before
  and after it is inserted; `LoopBound` keeps one of a task's two final states.
  `MaxLosses`, `MaxSetbacks` and `MaxMishaps` bound how often something is lost:
  without a bound nothing settles. `Horizon` ends time in the loops, `LastHour` in the
  policies of this run.
* `scheduled_work` has a limit of 2 and three policies, so that a policy may be due
  behind no denied policy, one, or two; the order of the listing then decides whether it
  is ever reached, and a listing in the order of ids does not reach it (`BeforeById`). The
  interval is an hour and one run a day is allowed, so that a denial may be for good or
  for the day. No sweep lasts over the second midnight, and one runner suffices: two at
  once can only close each other's occurrences, which is the subject of
  `OneRunPerOccurrence`. None is lost there: a lost run leaves at most a task behind,
  which its successor finds.
* Three writers are needed for one to lose its number twice; three requests for an
  outlived one to free the claim of a second for a third. `MaxTakings` is 100 in the
  code: two let a claim be taken over and then be refused.
* Symmetry is used in safety runs only, over sets whose members the specification
  never tells apart. Deadlock is checked for the task and dispatcher runs and for
  `scheduled_work`; in
  `cost_ledger` and `tenant_deletion` nothing moves once the tenant is purged, in
  `payments` and `platform_services` once everything is done and time has ended.

Every property of every passing run has a mutant in `PROJECT.json`: a plausible bug
in one definition (a guard dropped, an off-by-one, a check that trusts what was
read) under which the run fails. They are the `...Unchecked`, `...Stale...`,
`...Again` and similar operators next to the definitions they mutate.

## Fairness

Two runs need it. In `scheduled_work`, `MCFairness` puts together what two components
state. `DispatchFairness` assumes

* weak fairness of every sweep's steps: the cron fires every minute, and an isolate
  that is not lost goes on;
* strong fairness of every row's claim: the selection is by `available_at`, then id;
  a row that is released goes behind those already due, and every row is claimed three
  times at most, so a row that is due again and again is eventually at the head;
* weak fairness of time: leases and back-offs end.

Nothing is assumed of crashes, owners or operators. A sweep may crash after every
claim: then the attempts run out and the row is dead-lettered. A control that stays
closed leaves rows queued, and the property says so. The run starts from a reachable
state in which the requests are approved and hold permits, and leaves the manual
handlers and the world's changes out; these can only make a check deny, and
`CheckFails` and `Crash` already make any check fail.

`AutonomyFairness` assumes that both daily triggers list policies (strong: the listing is
disabled while a runner works), and that a runner goes on (weak). Nothing is assumed
of owners, of time, or of what denies a policy.

In `platform_services`, `MCFairness` puts together what the components state:

* `OutboxFairness`: an isolate that is not lost takes its next step (weak); the
  evening trigger starts a sweep again and again, and a row whose holder is gone is
  stale at some of them (strong, on `RecoverClaims` of orphaned rows); a back-off ends
  (weak). Nothing is assumed of the provider: attempts are bounded.
* `LoopFairness`: the morning trigger starts sweeps (weak), observations go on (weak),
  and a claim that can be taken over is, by some sweep (strong: another sweep may hold
  it in between).

`DueIsObserved` and `DuePoliciesRun` are weaker than one would wish, and say by how
much: the exceptions they name are behaviours of the code.

## Proofs

Every safety property the passing runs check is also a theorem, for every value of the
constants. The named assumptions are `ConstantsAssumption`, `DispatchersAssumption`,
`LedgerAssumption`, `DeletionAssumption`, `WalletAssumption`, `PaymentAssumption`,
`PopAssumption`, `OutboxAssumption`, `AuditAssumption`, `LoopAssumption`,
`AutonomyAssumption`, `ScopeAssumption` and `IdempotencyAssumption` (NULL is no id, caps
are positive, amounts are numbers, sets that are counted are finite). `ClockAssumption` is
about the clock of `MCScheduledWork` alone, about which nothing is proved.

**TaskExecutionProofs.** `TaskInvariant` is inductive: types, handlers in flight
carry existing requests (`JobsWellFormed`), a permit exists only behind an approval
and belongs to the approver (`PermitBehindApproval`), and `ExactlyApprovedEffect`.
The last is not inductive alone: a permit that belonged to someone else, or outlived
its approval, would be spent by a perfectly guarded batch. One lemma per action.
From it `TypeCorrect`, `EffectIsExactlyTheApproval`, `CapTheorem` (a cardinality
argument over today's receipts), the action properties `AuthorityIsLive` and
`SourceIsLive`, and `Refinement`: each Commit is an abstract step, everything else
stutters.

**EmployeeDispatchProofs.** `DispatchInvariant` adds the shapes of rows and sweeps
(a row has an owner; a sweep that holds its row's token carries its row's attempt,
so that the third attempt is recognised at the release), completion as the effect, and no stranded row. Each action of
`TaskExecution` preserves it because of the completion trigger (`Fenced`); each of
the dispatcher because of the fence. `DispatchRefinement` reuses the task lemmas.

**CostLedgerProofs.** `LedgerInvariant`: types, budget, journal, what a run in flight
knows about its reservation (`RunsKnowTheirReservation`: one that has not called the
provider holds a reservation not in `called`), one reservation per run id, and
`CallsAreAccounted`. The third is needed because `ReleaseUnused` gives money back:
it must be a run's own knowledge that no call was made. `BooksTheorem` says that the
two totals are what the reservations add up to. The sum is stated without recursion:
an amount n of reservation x is the strip of units `{x} \X (1 .. n)`, a total the number
of units in the union of the strips. A trigger adds or takes the strip of one
reservation (`BooksMove`), strips of different reservations have nothing in common,
and the cardinality of a disjoint union is the sum (`UnitsAddUp`).

**TenantDeletionProofs.** `NoPurgeUnderHold` rests on `NoHoldBehindClaim`: a sweep
past its first look at the holds, and with its claim, excludes an active hold. It is
inductive because holds are not created while a request is processing, and because
a claim, once lost, never comes back: a recovery is a new token that starts at the
first look. `ClaimIsTheHolders` needs a token to be set exactly on requests that are
being processed, and follows from a list of the only ways in which a request moves
(`RequestMoves`). `LedgerRefinement` shows every step to be a ledger step, a change of
`closing`, or the purge with nothing reserved; with the ledger's own invariant,
carried over through the instance, `SettledBeforePurge` follows. Tenants without a
budget row have no triggers to protect them and need `Unbudgeted`: nothing was ever
reserved or called. `DeletionTypeCorrect` includes the attempts: a claim adds one below
the limit only, and a page of reports that gives one back stops at zero.

**WalletProofs.** `WalletInv` counts requests by their place. `BooksKept` is the part
of `CreditsAccounted` about money: until a lost isolate or reply parts them, the wallet
is the ledger less what requests in flight have debited, and the pool and its
allocations miss only what is claimed. It needs `AllocationCovers`: the code gives an
allocation back with `MAX(0, ...)`, which hides no shortfall because every holder's part
is in it. `CapCovers` bounds the overrun: usage together with what the requests
underway will add passes the cap by the others' cost at most, since the last to be
admitted found usage under the cap. A step moves one request, and with it one unit of
each count (`CostMoves`).

**PaymentProofs**, orders. `WalletRefinement` shows every step of orders, settlements
and refunds to be a wallet step, so that `WalletInv` holds under them, carried over
through the instance. `OrdersInv` adds what a handler knows: a settlement that goes on
to close or restore has seen the fulfilment, which never goes away
(`SettledIsFulfilled`); a refund past its lock has the order's request to itself
(`RefundsAreLocked`), so that while it is between its look at the wallet and the
reversal there is a hold and AI requests take nothing. `CreditsBacked` is not
inductive: the ledger gets credits back when an answer fails, and
`CreditsBackedAhead` counts them as there already.

**PaymentProofs**, receipts. An upload cleans up after a failure it cannot tell from a success.
`PopInv` says why that removes nothing that is needed: an upload that may still
remove its object has a reservation that nobody else touches, found it not stored, and
has no receipt; a stored reservation never becomes anything else. With the agreement
of reservations and receipts, and the verdict of each receipt being that of its last
open request, `ReceiptsAreKept` follows.

**ServiceProofs**, the audit chain. `ChainInv`: the numbers are 1 to the head's count, so that a number
which is free when a batch commits is the next one (`SealedOver`: what a writer sealed
was the head when it read it, and no event may have taken the number since). The
verifier is right because a page is a stretch of `PageSize` consecutive numbers
(`StretchCounts`, by a bijection) and what is before it does not change any more.

**ServiceProofs**, policies and keys. `AutonomyInv`: an occurrence that is closed is not due again, as
closing moves `due` beyond the hour the run began at, and the compare-and-set lets
one run close it; that its task, if it has one, was done before is known of a runner that
has come to closing. `KeyInv` weighs a key: requests that made their mutation or still
may, and one more if the key is free, never exceed one and the lapses. Each step
passes a place on, gives one up, or counts a lapse; in particular an outlived request
that frees its successor's claim gives up its own place. `KeyIsKept` needs nothing of
claims being fenced, which they are not.

**SweepProofs**, observations. `LoopInv`: what a sweep has read of an occurrence either still
holds, or the occurrence was completed (`Informed`, which persists under whatever the
others do). From it each step of the loop is a step of `ObservationSchedule` or a
stutter: `ScheduleKept`.

**SweepProofs**, the outbox. Deliveries write to a row without asking whether their
claim is still theirs, so no sweep knows that it is alone. `OutboxInv` counts instead of
excluding: `PermissionsCounted` gives a permission to a row that can be claimed and to
each sweep that may still have its notification accepted or give the row back. An
acceptance uses one up, a claim turns the row's into the sweep's, and only what
`excuses` records (a stale claim put back, an acceptance not recorded) makes a new one;
so acceptances and permissions never exceed one and the excuses. It needs a sweep to
have one row in hand, and every row that is in a hand or was sent to be in the table.
`QuotaIsAccounted` needs a producer's hold on its notification (`ProducersHold`): of two
producers of the same one, `INSERT OR IGNORE` makes one give its allowance back.

**Side by side.** The runs `payments` and `platform_services` put components that share
nothing into one specification. `OrdersAndReceipts` and `ServicesAlone` show each
behaviour of it to be one of every component, so that the theorems above are about what
those runs check; `MCTypeOK` and `ServicesTypeOK` follow.

**Checked by TLC only**: the liveness properties (`EveryRowSettles`,
`NotificationsSettle`, `DueIsObserved`, `DuePoliciesRun`), as liveness under fairness is
out of the prover's reach, and the four violations below.

## Where code and documentation disagree

Four runs check what a document says and find it violated by what the code does.

* `manual_delegation` - `docs/AGENT_RUNTIME_GOVERNANCE.md:99`: the complete control
  chain agrees at execution time. On the manual path the delegation is read before
  the batch and not by it; a pause or revocation in between does not stop the task.
  The dispatcher's path does check it (`DispatchedUnderFullAuthority`).
* `terminal_denials` - `docs/employee-dispatch-d1.md:45-47`: transient failures back
  off, denials are terminal. A read that throws is answered as a missing row, and
  the row is dead-lettered on its first attempt.
* `deletion_users` - `docs/agentic-platform-implementation-2026-10-09.md:62`: an
  invalid claim aborts the purge batch. It keeps the tenant, but its users and audit
  rows are deleted.
* `deletion_files` - `docs/OPERATIONS.md:9`: files are removed before the tenant's
  rows. An upload does not look at the deletion; its file can outlive the purge.
`KeyKept` counts a fifth as a lapse: `tests/v78-12154-idempotency-runtime.mjs:22` calls
an abandoned mutation safe to retry, but `idempotentJsonMutation` abandons its claim
whenever the mutation or the recording of its answer throws, also after it wrote, and
the retry under the same key makes it again.

## Hazards without a property

* `agentic-task-execution.js:91` - SQL compares the text of `expires_at` with a text of
  another form, and takes a delegation for live until its UTC day ends. The model has both
  notions of expiry, but its properties about delegations ask what the batch asks, the
  comparison in SQL, and would not notice how far it is from the instant.
* `worker.js:3522` - a page of evidence that leaves more to do keeps its attempt: a
  tenant with enough files ends with its attempts used up. It takes the liveness of a
  deletion to state, with more pages than a safety run can afford.
* `worker.js:5490` - a worker lost after it has inserted a refund leaves it
  "processing", and the hold keeps AI requests from the wallet. The code has no
  recovery to state a property about; the state is in the model.

## What is not modelled

`PROJECT.json` lists every part with its status. Most of the repository's lines are
user interface, per-request CRUD over one tenant's tables, reports and texts: every
statement of theirs is keyed by the tenant, writes once and is read again, and a model
of it would restate it. The map covers the code whose steps interleave.

* Evidence scanning: its verdicts come from an external scanner; the life of a file and
  its row against a deletion is in `TenantDeletion`.
* Subscriptions, manual orders' confirmation and the webhook's own table: the claims of
  the webhook are those of settlements again, which `PaymentSettlement` lets be taken
  over at any moment.
* The platform owner's wallet and its refill; unsealed audit rows; the mark that a dead
  letter was resolved; the creation and approval of policies and tasks.
* WhatsApp inbound, finance, property and assets, general AI routes, voice, browser
  workspace (no authority), Node/Postgres drafts (not deployed), release tooling.
* Within modelled parts: clock values (order and expiry only), hashes and tokens
  (identity only), the texts of answers and messages, exact prices, one tenant (every
  statement is keyed by it).

## Plan

What remains, in order: liveness of `TenantDeletion` (completes, is blocked or runs
out of attempts) and two owners filing at once; the subscription half of payments,
with renewals against refunds; the composition of `ApiIdempotency` with the handlers
that create orders.

## How to run

In this directory, with TLC and TLAPS 1.4.5 (Z3, Zenon, LS4) on the path:

    tlc -workers 2 -config MCTaskExecution.cfg MCTaskExecution
    tlapm TaskExecutionProofs.tla

Configurations with a suffix (`Cap`, `Delegation`, `Terminal`, `Users`,
`Files`) belong to the module they extend the name of. The four runs of
[the disagreements](#where-code-and-documentation-disagree) end with a counterexample.
