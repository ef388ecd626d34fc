# TLA+ models of the settlement system

This directory holds TLA+ models of the money-moving core of the repository,
the TLC configurations that check them on small instances, and TLAPS proofs
for every size. All paths below are relative to the repository root (in the
tables of `PROJECT.json` they start with `src/`), so the payout code is in
`src/payout/`.

* [Inventory](#inventory): the parts of the system, their state, how they interact
* The models, with their state and steps and how they correspond to the code:
  [payout pipeline](#the-payout-pipeline), [rail chain](#the-rail-chain),
  [payout webhooks](#the-payout-webhooks), [operations desk](#the-operations-desk),
  [treasury releases](#treasury-releases),
  [authoritative ledger](#the-authoritative-ledger), [task queue](#the-task-queue)
* [Runs](#runs): what each TLC run checks, with its bounds
* [Where code and text disagree](#where-code-and-text-disagree)
* [Proofs](#proofs)
* [What is not modelled](#what-is-not-modelled)
* [Plan](#plan)

## Inventory

The repository is a Next.js application with a set of Node scripts around it.
It sells digital products, books revenue, and pays owners and suppliers. Most
of its 7500 files are reports, generated data, content and scripts. The parts
with a protocol worth modelling are the following.

| Part | Source | State | Operations and interactions | What is hard | What makes it correct |
|---|---|---|---|---|---|
| Payout state machine | `src/payout/state-machine.ts` | none (pure) | transition table, guard, retry guard; called before every write of a payout | the table is the only protection against a blind retry | no way from UNKNOWN back to submission |
| Owner ledger | `src/payout/ledger.ts`, `prisma-sources.ts` | none (derived from ledger rows) | fold rows to a balance; decide a reservation | sign conventions of two writers | reservations stay within credits |
| Payout pipeline | `src/payout/pipeline.ts`, `prisma-driver.ts` | `Payout` rows with a version, `PayoutEvent`s, ledger lines | one handler per status; every write is a compare-and-set transaction | overlapping ticks, crashes between awaits, stale reads, lost answers | money moves at most once; ledger agrees with status; nothing ambiguous is retried or forgotten |
| Payout rails | `src/payout/provider.ts`, `adapters/paypal-live.ts` | at the provider | `submit`, `fetchStatus` | answers that never come; rails that are not configured | fail closed; dry runs never settle |
| Tick endpoint | `src/app/api/payouts/tick/route.ts` | none | lists drivable payouts, advances each | nothing prevents two ticks at once; bounded list | every payout gets its turn |
| Rail failover | `src/payout/rail-registry.ts` | none | tries a chain of rails; routes polls back | a rail that rejected may be followed by another | never pivot after an unknown outcome |
| PayPal batches | `src/emit-revenue-events.mjs`, `src/autonomous-daemon.mjs` | `PayoutBatch` with its notes, `PayoutItem`, `RevenueEvent` | approve, cancel, submit, sync; the daemon calls the sync | four writers of one row, each reads long before it writes | the ledger comes to agree with PayPal |
| Payout webhooks | `src/paypal-webhook-server.mjs`, `src/dedupe-store.mjs` | the same rows, the transaction log, event ids already done | dedupe, apply, roll up, acknowledge | events duplicated, reordered, early, or interrupted | nothing taken for paid that is not; one withdrawal; what is acknowledged is applied |
| Operations desk | `src/app/api/ops/`, `src/app/api/payout-batches/approve`, `src/lib/strict-enforcement/` | the same tables, their references | single handlers, resolve_all, auto-pilot, approval, quarantine, write guards | every handler reads, waits, and writes whatever the row has become; lists read at the start of a phase; references made up on the way | a completed row carries a provider's reference; a receipt is not lost |
| Treasury release | `src/lib/treasury/release-engine.ts`, `src/app/api/treasury/release`, `scripts/auto-run-v354-owner-payouts.ts` | owner account, fund bucket, settlement rows | reconcile-held, release over the bank; PATCH of the account | check, initiate and book are separate steps, without a lock; the bank may refuse what it gave an id for | the books hold what the bank answered for, once |
| Authoritative ledger | `src/ledger/AuthoritativeLedger.ts` | a file of chained lines, a lock file | bootstrap, append, verify | stale locks, torn lines, a call that waits for itself | one writer, one chain |
| Task queue | `src/task-queue.mjs`, `task-orchestrator.mjs` | task, claim and result files | enqueue, claim, run, finish, reap, clear | claims made in two steps, leases, outdated lists | no task lost or run twice at once |
| Settlement engine | `src/lib/settlement/`, `src/lib/single-writer-lock.ts` | payout rows, evidence, outbox, lock rows | dispatch, finalise, reconcile by a worker | - | it does not run at this commit, see below |
| Orchestrator | `src/lib/orchestrator/` | run rows or a lease file, snapshots | acquire, heartbeat, finish; phases | stale leases taken over | its passes only read, see below |
| Buckets, vaults, watchdogs | `src/lib/treasury/buckets.ts`, `src/lib/escrow-vaults.ts`, `src/*/watchdog.ts` | buckets, vaults | allocate, release, report | - | reached by nothing that moves money |
| Timelock | `src/lib/governance/timelock.ts` | queued changes | queue, execute, cancel | executing twice, or too early | delay is respected |
| File locks and leases | `src/locking/distlock.py`, `src/base44-work-lease.mjs`, `src/agent-coordinator.mjs` | lock files | acquire, heartbeat, take over | takeover by two processes at once | one holder, fencing tokens grow |
| Orders | `src/lib/paypal-checkout.ts`, `paypal-fulfil.ts`, `rwc-*.ts`, `src/app/api/orders/` | order ledger | create, capture, fulfil | capture and webhook race | fulfilled once, only when paid |
| Escalation | `src/escalation/` | outbox, cases | enqueue, send, follow up | crash between send and mark | each message goes out |
| Receipts, consensus, proof chain | `src/crypto/`, `src/consensus/`, `src/lib/proof-chain.ts` | in memory | confirmations, votes, hash links | order of confirmations | monotone, tamper-evident |
| Other webhooks, swarm, edu, gateways, UI | `src/wise-webhook-server.mjs`, `src/swarm/`, `src/edu/`, `src/finance/`, ... | various | I/O around the parts above | - | - |

The payout pipeline comes first: it is the newest money path, it is the one
whose comments make the strongest promises, and every hazard that matters
(overlap, crash, lost answer, retry, stale read) meets in it. The PayPal batch
path and the operations desk share the older payout tables. No model composes
these two: they write different columns of the same rows, and the properties
of one do not mention what the other writes.

## The payout pipeline

### Modules

| Module | Models |
|---|---|
| `PayoutStateMachine` | statuses, transition table, `assertTransition`, `isRetrySafe` |
| `OwnerLedger` | `mapEntryRow`, `deriveBalance`, `canReserve`, `settledLast24h` |
| `PayoutPipeline` | tick requests, every handler of `advancePayout`, the store, the rails, the surroundings; properties |
| `PayoutPromise` | abstract specification: what the pipeline promises about money |
| `RailFailover` | the chain of rails below the pipeline, for one payout; properties |
| `MCPayoutPipeline`, `MCRailFailover` | values for the constants, for TLC |
| `PayoutTypeProofs`, `PayoutSafetyProofs`, `RailFailoverProofs` | the proofs about these |

### State

| Variable | In the code |
|---|---|
| `row` | `Payout` rows: `status`, `version`, `providerRequestId` (`requestId`), `providerTransactionId` (`txnId`), `reconciliationStatus` (`recon`). Amount, owner and validity of a payout never change and are constants (`Net`, `Owner`, `Malformed`, `Unroutable`). |
| `lines`, `recent` | the ledger lines the pipeline has written, by idempotency key, and the settled ones that are younger than 24 hours. Rows of other writers are the constant `Opening`. |
| `failed`, `noise`, `polls` | counts over `PayoutEvent`: today's transitions to a failure status, today's poll events stamped with a failure status, the `no verdict` events of the last 24 hours. |
| `rank` | the order of `updatedAt`. |
| `held` | does the payout have an unreleased `PayoutHold`. |
| `batch` | at the rail: for each payout the instructions sent for it, each `sent`, `refused`, `pending`, `paid` or `denied`. |
| `pc`, `todo`, `cur`, `seen`, `mem`, `mode` | one tick request: where its code is, the ids still to do, the payout in hand, the row as read, other values read, and how it found the rail configured (`live`, `dry`: not enabled, `stub`: enabled without wiring). |
| `faults`, `clock` | bounds, see below. |

### Steps

An action is the code between two awaits. Everything a handler has read is in
`seen` and `mem`, and every other request, the rail and the clock may move
before it continues. So the check of a hold, the balance, the failed-submit
count or a verdict is one step, and the write that relies on it another.

A write is `applyTransition`: one database transaction that updates the row if
the version is still the one read, appends the event and inserts the ledger
line. It is one step, `Commit`. `TryTransition` is `tryTransition` as the last
thing a handler does; `TryAndGoto` is the same in the three places where the
handler continues afterwards (claim, and the two evidence steps). When the
guard or the version check refuses, the handler returns an error and the
request goes on with the next id, as the code does.

The submit of a live rail is three steps: the instruction leaves
(`SendInstruction`), the rail takes or refuses it (`RailReceives`), the answer
comes back (`ReceiveAnswer`) or does not (`LoseAnswer`: timeout, connection
loss, 5xx, unreadable answer). The rail decides in its own time
(`RailDecides`). `fetchStatus` reads what the rail knows, or answers
"unknown", or throws.

`StoreFails` is any query or transaction that throws. `Crash` is the death of
the process that serves the request. A transaction that commits while its
confirmation is lost looks like a commit followed by a return: for the writes
that end a handler that is what happens anyway, and for the other three it is
a commit followed by a crash.

Over-approximations, which only add behaviour: a request takes its ids in any
order (the code keeps the order of the list), the rail ignores the idempotency
key (PayPal replays the first batch), any number of hours may pass between two
steps, and an instruction may reach the rail long after its request gave up.

One currency is modelled: the code selects ledger rows by owner and currency
together. Amounts are whole numbers; the code uses floats.

### Properties

Safety, in `PayoutPipeline`:

* `OnePayingInstruction`: of all instructions ever sent for a payout at most
  one was paid or can still be paid.
* `RetrySafeIsUnpaid`: a payout that may be dispatched, or requeued for
  dispatch, has no instruction at the rail that could pay.
* `SettledOnEvidence`: a COMPLETED or RECONCILED payout names an instruction
  that was paid. Dry-run evidence never settles.
* `LedgerFollowsStatus`: a payout past ELIGIBLE has its reservation line, and
  it has a settled line exactly when it is RECONCILED.
* `ThrottleHolds`: at most `maxFailedSubmitsPerDay` failed submissions per
  payout and day, although the count is read long before the claim.
* `LegalSteps`: every write is a legal transition out of the status the row
  has at that moment, and raises the version by one.
* `Consistent`: the inductive invariant, see [Proofs](#proofs).
* `KeepsPromise`: the pipeline implements `PayoutPromise`. The abstract
  specification knows only the stage of a payout (open, claimed, settled,
  closed), the instructions that may pay, those that did, and what is booked.
  It promises: claim before sending, one instruction out at a time, back to
  open only when nothing is out or paid, settled only when paid, booked once.

Liveness, under `FairSpec`:

* `SubmittingResolves`, `UnknownResolves`: interrupted and ambiguous submits do
  not stay.
* `CompletedIsBooked`: evidence of payment ends in a settled ledger line.
* `ReservedIsDispatched`: a validated payout gets to the rail although ticks die
  or their queries fail on the way. It is said of a list with room: the list is
  bounded, waiting payouts keep their places in it, and with more payouts than
  places they can starve others, in the model as in the code.

Fairness is weak fairness of each request's steps and of the rail's two
actions. The code justifies the first: a tick is one loop that runs to its
end, and the endpoint is called again every hour (`pipeline.ts:10`, "invoked
by the tick endpoint (hourly cycle)"), and its starting a new tick is one of the steps.
The second is an assumption about the provider: an instruction it
received is eventually taken or refused, and paid or denied. Nothing is
assumed of crashes, lost answers and outages except that there are at most
`MaxFaults` of them.

## The rail chain

`rail-registry.ts` puts a chain of rails behind the provider seam of the
pipeline: `RailFallbackProvider.submit` tries the rails of `RAIL_PRIORITY` in
order, and `fetchStatus` takes a poll back to the rail that issued the id. The
repository has it beside the pipeline and does not wire it into the tick
endpoint yet.

`RailFailover` models one payout whose provider is this chain. Each
`provider.submit` of a walk is a step of its own, so other ticks, crashes and
rails act between two rails of one walk.

| Variable | In the code |
|---|---|
| `status`, `requestId` | the payout row; `requestId` is `rail::id`, a pair of the rail and the position of the instruction at that rail (`DryRun` for a dry-run id) |
| `wiring` | what `registry(rail)` gives: nothing (`absent`), a `FencedRailProvider` (`fenced`), a live provider without wiring (`stub`), one that is not live (`dry`), one that is (`live`). `Rewire` changes it at any time. |
| `instr` | at each rail: the instructions sent, and what became of them |
| `pc`, `pos`, `attempts`, `req` | `attemptSettlement`: where it is, the next rail, the attempts so far, the id in hand |

The walker is one: that two requests are never in the submit of one payout is
`OneSubmitter`, proved for the pipeline, and `OneWalk` shows it once more for
the chain. The ticks that poll, interrupt, reconcile and requeue are the
actions of `Tick`; a poll and the transition it leads to are one step here,
because a verdict is final and the version check refuses what has become
stale. What `PayoutPipeline` already has in full (holds, balance, throttle,
poll counts) is left out: a claim may happen or not, and an UNKNOWN payout may
be quarantined after any poll that does not throw.

* `OnePayingRail`: over all rails at most one instruction of the payout was
  paid or can still be paid.
* `NoPivotOnUnknown`: after an attempt with unknown outcome nothing is sent.
* `SettledOnOwningRail`: a completed payout was paid by the rail and the
  request its row names, however the registry changed in between.
* `OneWalk`: during a walk the payout cannot be claimed again, although other
  ticks take it out of SUBMITTING under the walk.
* `ChainConsistent`: the inductive invariant.
* `KeepsPromise`: the chain implements `PayoutPromise`, like a single rail.
* `PaidIsReconciled` (liveness): a payment by the rail that the row names is
  reconciled while that rail stays live.

Fairness: the request's own steps; the ticks that interrupt, act on evidence
and reconcile, as for the pipeline; and the rails. `PaidIsReconciled` relies on
a rail that answers a poll with what it knows at some time.

## The payout webhooks

`PayoutWebhooks` models one payout batch at PayPal and its rows in the ledger.
Four programs work on these rows and share nothing else: the commands of
`emit-revenue-events.mjs` that approve, cancel and submit a batch, the webhook
server, the sync of a batch that the daemon calls, and PayPal outside. Every
read and every write of a row is a step, since none of them is in a
transaction or conditional on what was read.

| Variable | In the code |
|---|---|
| `item`, `batch`, `rev`, `rows` | `PayoutItem` (status, and whether `paypal_item_id` is set), `PayoutBatch` (status, and from its notes whether the PayPal id is there and the PayPal status says SUCCESS), status of each item's `RevenueEvent`, number of `withdrawal` rows of an item in the transaction log |
| `truth`, `paid`, `mail` | PayPal: status of each item, items ever paid, events posted |
| `newest` | is the batch still among those the daemon's pass looks at |
| `done`, `job` | webhook server: the dedupe store; the requests in progress, with the event and what they have read of the batch's notes |
| `submit`, `sync`, `cancel` | where the commands are and which items they have still to write; the sync has what it fetched |
| `blind` | history: items whose withdrawal was looked for while another request was creating it, or by a query that failed |
| `incidents` | bound: how many approvals, cancellations, crashes, lost answers, failed reads and writes, and expired dedupe entries there were |

`Deliver` to `Acknowledge` are the request in the order of
`applyPayoutItemUpdate` and `applyPayoutBatchUpdate`: read and write the item,
merge the notes, mark the revenue event, look for the withdrawal and create
it, list the items and roll the batch up, then mark the event as done and
answer. An item that is not found or may not move is answered with 200, so
PayPal never sends the event again. `Throw` is the answer 500, `Expire` the
dedupe entry that is older than half an hour, `ServerCrash` loses the requests
and any part of the store that is not flushed. `Decide` lets PayPal decide an
item and post its event, and any event that was posted may be delivered at any
time, in any order, again.

What the translation of the code shows and the model has:

* Batch webhooks only ever apply to a batch that is `completed` already:
  `submitted_to_paypal` is not in the table of allowed transitions
  (`paypal-webhook-server.mjs:691`).
* The sync never writes a revenue event: `getPayoutItemsForBatch` reads its
  rows with a list of fields (`emit-revenue-events.mjs:1805`) that lacks the
  one it needs.
* When the last item of a batch succeeds its revenue event goes from
  `paid_out` back to `confirmed` (`paypal-webhook-server.mjs:1032`).
* The lookup of a withdrawal that fails counts as one that finds nothing (`:923`).
* `approve` does not look at the status it overwrites; `submit` is refused by
  PayPal when the `sender_batch_id` was used, so an approved batch whose
  answer was lost stays without a PayPal id.
* A webhook's write of the notes undoes what the sync wrote in them since it
  read them; the sync's write of an item undoes a webhook's.
* A sync that dies between the notes and the roll-up leaves a batch that is
  `submitted_to_paypal` for ever, since the daemon already reads `COMPLETED`
  from the notes and the items; therefore `LedgerCatchesUp` ends in
  `TruthCompleted` as well.

Left out: revenue from payments received, success events without a
transaction id (they write no withdrawal), the copies of events, metrics, alerts, the transfer row of a cancellation, the spending limit of an approval
(several batches), and batches that PayPal denies as a whole. Reading the batch and asking PayPal are one step of the sync,
since the rows it writes come from PayPal's answer alone.

* `SuccessIsPaid`: whatever the ledger takes for paid, PayPal has paid at some
  time: an item, a revenue event, a withdrawal, each item of a completed batch.
* `OneWithdrawalUnlessBlind`: an item has one withdrawal, unless its row was
  looked for in vain. The exception is real: two requests at once can both
  create one.
* `AckedIsApplied`: the event of a success enters the dedupe store only when
  it was turned down or applied up to the withdrawal. The write of `paid_out`
  before it is not covered: one that fails is logged and the event is
  acknowledged all the same (`paypal-webhook-server.mjs:908`).
* `LedgerCatchesUp` (liveness): a batch whose PayPal id is known comes to
  agree with PayPal, however webhooks were lost, reordered or swallowed and
  whatever the operator did, unless the daemon takes it for completed before
  or so many newer batches follow that the daemon does not look at it any more.

The last exception is the variable `newest`. The daemon's pass exports the
batches, newest first and whatever their status, and looks at the first
`syncPayPalLimit` (25) of them (`emit-revenue-events.mjs:2531-2540`,
`autonomous-daemon.mjs:2598`). `Overtaken` is the moment at which as many have
followed; from then on nothing syncs the batch, agreed or not. The constant
`Busy` says whether an instance has that many.

Fairness (`FairSpec`): while the batch is among the newest and the daemon does
not take it for completed, the daemon's pass syncs it again and again, and a
sync that was started goes on. This is the loop of the daemon; it assumes that
a freeze, an unhealthy PayPal and the ten minutes between two syncs of a batch
do not last for ever. Nothing is assumed of PayPal, of webhooks or of the operator.

## The operations desk

`OpsResolver` models the handlers of `src/app/api/ops/resolve/route.ts` that
write the status or the reference of a payout item or batch, its resolve_all
run, the auto-pilot of `src/app/api/ops/auto-pilot/route.ts`, the approval
endpoint, the quarantine sweep and the truth guards every write passes.

No update asks for a status or a version: a handler reads its rows, awaits, and
writes them one by one by their id from the copy it read, and a write of the
batch comes last. So the read is one step (`RetryItem`, `AdvanceBatch`, ...:
`Call` is what the handler keeps) and each write another (`WriteItem`,
`WriteBatch`, `WriteRecovery`), as are the counts in between (`CountFailed`,
`CountAccounted`); single calls, receipts and runs come in at every one of these
places. A run is a list of phases: it reads the rows of a phase and then calls a
handler for each (resolve_all), or writes them as it read them (auto-pilot).
References are abstracted to who recognises them: `real`, `minted` (made up,
known to every pattern), `pp` (made up by `advance_paypal_batch`, known to none)
and `legacy` (known to the guards and the auto-pilot only), because three
functions decide with three different pattern lists. A write that the guards
refuse throws out of its handler (`Throws`), and ends a resolve_all run or a
phase of the auto-pilot.

| Variable | In the code |
|---|---|
| `item`, `batch`, `recov` | the rows; the completed recovery batches of an item |
| `op` | for each caller (a single call, the resolve_all run) the handler it is in: the items still to write as they were read (`seen`), the batch as it was read (`row`), the batch update it will make (`write`) |
| `all`, `pilot` | the runs: phase, rows left; what the auto-pilot has read (`read`, `real`) and its decision about a batch (`at`, `next`) |
| `calls` | bound: single calls, receipts and runs |

* `OnlyPaypalRefSlips`, `CompletedBatchIsProven`: a completed item carries a
  provider's reference or the made-up PP- reference, which no list knows; a
  completed batch has a provider's reference. That the first cannot be said
  without its exception is the run `ops_pp`.
* `AutoPilotCompletesNothing`: the guards judge the payload and the
  auto-pilot's payloads never carry the reference, so its completions are all
  refused, whatever the rows are.
* `RealRefLostToStaleReadOnly`: a provider's transaction reference is replaced
  only by a handler that read the row before the reference was on it. The
  exception is real (`ops/resolve/route.ts:264` and `:280`), and a receipt that
  arrives in between is lost. An `externalRef` has no such protection: a
  handler that sees no transaction reference erases it, as it has read it.
* `WaitingNeedsAHand`: an item that waits for a receipt is completed by a call
  about that item (a single one, or the retry that resolve_all makes of an item
  it listed), or by a handler of its batch that read it before it came to wait.

Left out: confirm_delivery, fix_timestamp, notify_recipient and
confirm_revenue, which write neither status nor reference, batch_revenue,
link_orphan_transaction and the crypto recovery; the report-only phases.

## Treasury releases

`Treasury` models `releaseOwnerFunds`, the endpoint in front of it, the payout
harness `scripts/auto-run-v354-owner-payouts.ts`, and what else writes the
account row while a release is under way. The account row (`account`) and the
bucket row (`bucket`) are read and updated in separate steps without a lock. A
call goes through `cleared`, `initiated`, `booked`, `roomy` and `closing`, and
may die (`Crash`) in between.

`bank` is the list of payments initiated at the bank, and `outcome` what the
bank makes of each: it may have executed the payment when it answers, refuse
it at once, or hold it and decide later (`BankDecides`). `initiatePayment`
returns the id with any status, and `releaseOwnerFunds` asks only whether the id
is one (`release-engine.ts:217`), so `SendAnswered` goes on with every outcome,
and a settlement that is `completed` may name a payment the bank has refused or
will refuse. Nothing corrects it: `confirmRelease` (`:343`) only reads.
`booked` and `settled` are the payments the account and the settlement rows
know, `dropped` those of which no id came back or whose caller died with it.

The PATCH of an owner account assigns `totalReceived`, `totalSent` and
`isActive` from the request body (`PatchReceived`, `PatchSent`,
`PatchActive`), to a higher figure or to one of `Outside`, which may lower
receipts or overwrite what releases have added; the revenue split of
`settleAndPayout` adds to `totalSent` (`SplitSent`). `foreign` remembers that
sent is no longer written by releases alone. reconcile-held reads the receipts
first and raises held later.

* `BooksAreBacked`: spendable is the sum of the initiations booked, each once,
  and so is sent as long as nothing but releases writes it; the bucket is
  charged for no more.
* `SettlementIsBooked`: a settlement names an initiation whose id came back and
  that the account has booked. It does not say that the bank executed it.
* `ExecutedIsKnown`: what the bank executes, at once or long after the call has
  ended, is booked or about to be; it escapes the books only when no id came
  back or the caller died with it. This is what booking at the answer buys; a
  release that waited for `executed` would lose the payments decided later.
* `HeldLeavesOnlyInitiated`: held goes down only by one such initiation, once;
  a refusal, a lost answer, a crash or a PATCH leaves it alone.
* `SerialReleasesAreCovered`: without two releases at once neither held nor
  the bucket is overdrawn. With two it may be: both pass the check before
  either books, and a bank payment whose answer was lost is initiated again by
  the next call. Nothing in the code prevents it, so no property says otherwise.

The harness recognises what it has paid by a reference that nobody writes
(`Existing(AutoRef)` is never true), so every stage pays its row again although
its comment says that rows "never get double-charged"
(`auto-run-v354-owner-payouts.ts:102`).

The harness's stages and presets are repeated releases of one amount
(`RowAmount`). Left out: configuration checks of the rail (a refusal),
confirmRelease and status calls (read-only), the scripts that seed or repair
accounts (`owner-accounts/seed`, `fix-revenue-pipeline.mjs`,
`seed-held-live.mjs`), currencies.

## The authoritative ledger

`AuthoritativeLedger` models the lock file and the chained lines of
`src/ledger/AuthoritativeLedger.ts`. The steps are system calls: `Stat` and
`Unlink` of a stale lock, `Open` with O_EXCL or `Retry`, `Read`, `Write` of
one line, `Release`. `op` is the outer call and `nested` says that append has
called bootstrap under its own lock. `Crash` leaves the lock, and perhaps half
a line; `Age` makes the lock of a dead process stale. A hash stands as the
number of the line it is the hash of.

* `MutexUntilStolen`, `ChainUntilStolen`: until a cleanup takes a lock that is
  not stale, one process is inside and the lines that parse form one chain.
  `stolen` marks the race of the two system calls, which the code does have.
* `OnlyBootstrapStarts`: append on an empty ledger waits for itself and times
  out, so the first line is never written by it.
* `CallsReturn` (liveness, fair steps of each process): every call returns.

`verify()` only reads. It asks of every line what `ChainUntilStolen` says of the
lines that parse, so that it fails for ever after a torn line, which the
property passes over as `append` does.

## The task queue

`TaskQueue` models the directory of `src/task-queue.mjs` and the pass of
`src/task-orchestrator.mjs`: reap, list, claim (mkdir, then claim.json), run,
result, release. `file`, `result`, `dir`, `claim` and `expired` are the files,
`pc`, `cur` and `todo` a pass. `early` and `rerun` are histories of the two
things the code does not exclude: a claim removed from under a pass, and a
claim made from a list that was read before the task was finished.

* `OneRunnerUntilEarly`, `ResultIsFinal`: until then no two passes are on one
  task, and a result stays until clear.
* `EveryTaskFinishes`, `ClaimsAreSwept` (liveness): every task is finished and
  its claim removed, though passes die between any two steps.

Fairness: the loop starts a pass on every tick and a pass goes on; leases run
out by the clock. A lease does not run out under a live pass, since a command
is killed after ten minutes and a lease lasts fifteen.

## Runs

| Run | Instance | Shows |
|---|---|---|
| `overlap` | 1 payout, 2 requests, all three rail modes, holds, 2 faults | all safety properties and the refinement |
| `liveness` | 1 payout, 2 requests, live rail, 1 fault, 1 midnight | the four liveness properties |
| `ledger_sign` | 2 payouts of one owner, 1 request | see the next section |
| `rails` | 2 rails in any wiring, 3 submits, 3 faults | safety and liveness of the chain, and the refinement |
| `ops` | 2 items of one batch, 6 first rows and 10 first batches, resolve_all, auto-pilot, 1 single caller, 3 calls | what a completed row rests on, and what outdated reads can do |
| `ops_pp` | as `ops` | see the next section |
| `treasury` | 2 operators, the harness, 1 reconcile-held, receipts up to 2, 2 initiations, one figure patched from outside | the books |
| `released_twice` | 1 operator, 1 reconcile-held, 1 receipt, 2 payments | see the next section |
| `authledger` | 2 processes, 2 attempts, 3 lines, any number of crashes | lock, chain, and that calls return |
| `taskqueue` | 2 passes, 2 tasks, 1 crash | exclusion, results, liveness |
| `webhooks` | 1 item that may be unclaimed before it is paid, 2 requests, 1 incident | withdrawals and acknowledgements |
| `webhook_sync` | 1 item with every verdict, also two in a row, 1 request, 1 incident, newer batches | what is taken for paid, and that the ledger catches up |

Why the bounds are enough:

* Payouts share only the ledger of their owner, the work list and the loop of
  a request. The safety properties speak of one payout at a time, so one payout
  with two requests has all the interference there is; `ledger_sign`, which
  relates payouts, has two.
* Two requests suffice for every race of two reads and a write; the proofs
  cover any number.
* `MaxFailedSubmits = 2` lets a payout fail, be requeued, fail again and be
  throttled (in `liveness` it is 1: one failure, then the throttle). In
  `overlap` the other request may do all of this between a count and the claim
  that relies on it, which is the race `ThrottleHolds` is about.
  `PollsBeforeQuarantine = 2` has a first and a last poll; `polls` stops
  counting at the threshold, since only the comparison with it is used.
* `MaxFaults` counts crashes, storage errors, lost answers and unreachable
  rails together. Two are enough for a crash or lost answer in each of two
  submissions, or in one and its recovery.
* `MaxClock` counts midnights and ageing events. `liveness` has one, so that the
  daily counts start again once; `ThrottleHolds` is proved for any number.
* The chain: two rails are enough for a pivot, three submits for a requeue
  after a rejection of each, and three faults for a lost answer, a crash and a
  rewiring in one behaviour. Every combination of wirings is an initial state.
* The desk: two items of one batch, one of them sent to somebody else, in any
  combination of the rows that gateways, earlier runs and the seed leave. Three
  calls are a handler that has read a row, a receipt or a call that changes it
  meanwhile, and one more call or run that meets the result; a resolve_all and
  an auto-pilot can be under way at once.
* Treasury: two operators and the harness are three releases in flight at
  once; two initiations of 1 or 2 exceed the receipts and the bucket. One
  figure from outside (1) lies between nothing and the most that is received.
* The ledger: two processes can meet the same stale lock, with a line before,
  between and after; the attempts only have to run out.
* The queue: two passes and two tasks, so that a pass can be on one task while
  its list names another. One crash leaves any of the files behind.
* The webhooks: two requests race on one item (`webhooks`, without newer
  batches, which its properties do not see). `webhook_sync` has one item that
  PayPal decides once or twice in any way; two items with such verdicts are too
  many states for a liveness check. What one item cannot show is a roll-up over
  items of different fates; `LedgerTrustsPayments` proves `SuccessIsPaid` for
  any number of items. One
  incident at every place, beside any number of redelivered events and
  cancelled commands: an approval after the submit, a cancellation, a crash,
  an expired entry, a lost answer, a failed read or write. Cancelling needs a
  batch that is not submitted, so that one incident reaches the cancellation
  that overlaps a submit. The theorems
  cover any number of items, requests and incidents.
* `CHECK_DEADLOCK FALSE` is said in the configurations of systems that may
  stop: everything is final, or a bound is used up.

Distinct states: `overlap` 1,890,690; `liveness` 235,945; `rails` 192,097;
`ops` 5,076,541; `treasury` 3,155,670; `authledger` 748,294; `taskqueue`
303,882; `webhooks` 6,696,607; `webhook_sync` 2,317,588. The counterexamples
come after 38 states (`ledger_sign`), 401 (`released_twice`) and 357,719
(`ops_pp`).

## Where code and text disagree

Each of these is a run that TLC must find violated.

| Run | Text | What the code does |
|---|---|---|
| `ledger_sign` | `ledger.ts:89` "Reservations can never push `available` negative." | `mapEntryRow` (`prisma-sources.ts:122`) gives DEBIT lines a negative amount and `deriveBalance` subtracts them: each reservation *raises* the available balance. Two payouts are reserved beyond the owner's credits. |
| `released_twice` | `release-engine.ts:12` a release "only ever moves value OUT of heldBalance (never exceeds it)" | reconcile-held (`treasury/release/route.ts:66`) raises held to all that was ever received; after a release the same receipts are held, and sent, again. |
| `ops_pp` | `ops/resolve/route.ts:134` "status=completed NEVER writes with synthetic or empty transactionRef" | `advancePaypalBatch` (`:563`) leaves an item the reference `PP-<batch>-<id>`, which `isSyntheticOrEmptyRef` (`:114`, `PP-` and a digit) does not know, nor do the guards. The next handler takes it for the provider's and completes the item. |

Met while modelling, without a run of their own:

* `pipeline.ts:125` "max settled per currency per rolling 24h": the cap is
  compared once, in the RESERVED handler; two payouts validated before either
  settles exceed it. `pipeline.ts:513` says that READY re-checks caps; it looks
  at the failed-submit count and the provider only.
* `pipeline.ts:376` "found in SUBMITTING means the process died": with
  overlapping ticks another tick may be waiting for the provider.
* `state-machine.ts:13`: after an ambiguous submit no request id is stored, so
  the next tick quarantines without asking the provider.
* `pipeline.ts:538` "Advance every drivable payout once": the list is bounded
  and ordered by a time that a waiting payout does not change.
* `rail-registry.ts:64` "(all KNOWN states). Payout remains RESERVED": the
  pipeline cannot tell an exhausted chain from an ambiguous submit.
* `release-engine.ts:231` "REAL DISPATCH CONFIRMED": what is confirmed is that the
  bank has given an id; the status beside it is not looked at.
* `ops/resolve/route.ts:280`: the update is by id alone, so that a receipt that
  is attached between it and the read (`:264`) is lost, whatever its status.
* `auto-run-v354-owner-payouts.ts:102`, see [Treasury releases](#treasury-releases).

## Proofs

Eight modules hold theorems, for every value of the constants under the
assumptions of the component's module.

| Module | Theorem | States |
|---|---|---|
| `PayoutSafetyProofs` (on `PayoutTypeProofs`) | `TypeCorrect`, `ConsistentAlways` | `Spec => []TypeOK`, `Spec => []Consistent` |
| | `MoneyMovesAtMostOnce` | `Spec => []OnePayingInstruction` |
| | `RetryIsSafe` | `Spec => []RetrySafeIsUnpaid` |
| | `EvidenceIsReal` | `Spec => []SettledOnEvidence` |
| | `StepsAreLegal` | `Spec => LegalSteps` |
| | `BooksFollowStatus` | `Spec => []LedgerFollowsStatus` |
| | `ThrottleIsKept` | `Spec => []ThrottleHolds` |
| | `DriverKeepsPromise` | `Spec => KeepsPromise`, that is `Promise!Spec` |
| `RailFailoverProofs` | `TypeCorrect`, `ChainIsConsistent` | `Spec => []TypeOK`, `Spec => []ChainConsistent` |
| | `OneRailPays` | `Spec => []OnePayingRail` |
| | `EvidenceIsOwned` | `Spec => []SettledOnOwningRail` |
| | `WalksAreAlone` | `Spec => []OneWalk` |
| | `NeverPivots` | `Spec => NoPivotOnUnknown` |
| | `ChainKeepsPromise` | `Spec => KeepsPromise`, that is `Promise!Spec` |
| `PayoutWebhooksProofs` | `TypeCorrect` | `Spec => []TypeOK` |
| | `LedgerTrustsPayments` | `Spec => []SuccessIsPaid` |
| | `OneWithdrawal` | `Spec => []OneWithdrawalUnlessBlind` |
| | `AcknowledgedIsApplied` | `Spec => AckedIsApplied` |
| `TreasuryProofs` | `TypeCorrect` | `Spec => []TypeOK` |
| | `SettlementsAreBooked` | `Spec => []SettlementIsBooked` |
| | `ExecutedPaymentsAreKnown` | `Spec => []ExecutedIsKnown` |
| | `FailClosed` | `Spec => HeldLeavesOnlyInitiated` |
| | `SerialReleases` | `Spec => []SerialReleasesAreCovered` |
| | `BooksAreKept` | `Spec => []BooksAreBacked` |
| `OpsResolverProofs` | `TypeCorrect` | `Spec => []TypeOK` |
| | `OnlyThePaypalReferenceSlips` | `NoPhantoms => (Spec => []OnlyPaypalRefSlips)` |
| | `CompletedBatchesAreProven` | `NoPhantoms => (Spec => []CompletedBatchIsProven)` |
| | `PilotCompletesNothing` | `Spec => AutoPilotCompletesNothing` |
| | `RealRefsAreLostToStaleReads` | `Spec => RealRefLostToStaleReadOnly` |
| | `WaitingIsCompletedByHand` | `Spec => WaitingNeedsAHand` |
| `LedgerLockProofs` | `LedgerTypes` | `Spec => []TypeOK` |
| | `LockExcludes` | `Spec => []MutexUntilStolen` |
| | `LinesChain` | `Spec => []ChainUntilStolen` |
| | `BootstrapStarts` | `Spec => OnlyBootstrapStarts` |
| `TaskQueueProofs` | `QueueTypes` | `Spec => []TypeOK` |
| | `OneRunner` | `Spec => []OneRunnerUntilEarly` |
| | `ResultsAreFinal` | `Spec => ResultIsFinal` |

**The pipeline.** Assumptions: `Payout` is finite and does not contain
`NoPayout` (`PayoutAssumption`), and the modes are among the three the code has
(`ModesAssumption`). `OnePayingInstruction` is not inductive: a request may be
about to send, and nothing in the property says that no instruction is out
then. The strengthening is `Consistent`:

* `SnapshotOK`: what a request has read is the row's content for as long as the
  version is the one it read; so a write that passes the version check knows
  the row, however old the read.
* `SubmitOK`: while a claimed submit goes on, the payout is in a status from
  which no other request can claim it again (`Busy`), nothing is out before
  the send, and only the own instruction is out after it.
* `OneSubmitter`: at most one request is in the submit of a payout.
* `VerdictOK`: a verdict a request acts on is the rail's final word.
* `RowOK`: an open payout has nothing out; a SUBMITTED or PROCESSING payout
  refers to the only instruction that may pay; a settled one to a paid one.

`Bystander` shows that a request that does not move keeps its part of the
invariant, whatever the others do to the rows (versions grow) and the rail
(decisions are final, nothing starts to pay by itself). `LocalStep` and
`WriteStep` are the two kinds of step a request takes; `StepConsistent` has
one case per action and reduces each to one of them. `SubmitKeepsBusy` is the
point where the transition table matters: from `Busy` only the submitting
request itself leads back to an open status.

Three results stand beside `Consistent`. `LedgerFollowsStatus` is inductive by
itself once it is known which status changes write lines: `Transits` says what
a step that moves a payout leaves in its row and in the ledger, and
`NextTransits` that every step moves at most one. `ThrottleHolds` is not
inductive, since the throttle is checked long before the failure it limits is
counted; the strengthening `RoomToFail` says that a payout that may still
fail, and one whose claim can still win, has room for one more failure today.
A claim that a requeue or another request has overtaken keeps no such room,
and loses by its version. For `KeepsPromise` a step is looked at
for what it does at the rail: a send (`SendKeepsPromise`), a verdict
(`RailKeepsPromise`), a change of the row alone (`TransitKeepsPromise`), or
none of them. That a send finds nothing live and nothing paid is `SubmitOK`.

**The chain.** It is assumed that `Chain` is a sequence of rails. The argument
is that of the pipeline: before a walk sends, nothing is out at any rail
(`WalkOK`), and an open payout has nothing out (`RowOK`). `RailMoves` and
`SubmitAdds` say how the set of instructions changes; `NeverPivots` needs one
more invariant, `AttemptsKnown`. The refinement maps each action to one step
of `PayoutPromise` or to none; a send after COMPLETED, which the promise
forbids, is excluded because the paid instruction would still be out.

**The webhooks.** The only assumption is that PayPal's verdicts are the four of
the events. `Shape` adds to the types that a request holds an event of its kind
and that what was posted was decided. Three invariants rest on it:

* `PaidInv`: what a request or the sync is *about* to take for paid (a roll-up
  already decided, an item's status already fetched) is paid. It is needed
  because the decision and the write are two steps, and it holds because
  having been paid is for ever, even when a refund follows.
* `OneInv`: an item outside `blind` has no withdrawal or one, none while a
  request is about to create it, and one request at most is.
* `BookedInv`: a request on a success that is past its withdrawal has found or
  created it; `AckedStep` then needs to look at `Acknowledge` only.

**The treasury.** `Backing`: a call that is `initiated` has a payment of its
amount that no other call has and that is neither booked nor dropped; from
`booked` on its payment is booked (`Calls`); and every payment at the bank is
booked, dropped, or in the hands of a call (`Traced`), which is why one that is
executed late is known. `Serial`: without overlap there is one call, its amount is
covered by held until it books, and by the bucket while it is `roomy`.
`Books` has the sums: spendable is the sum of `booked`, sent too unless something
else wrote it, and the bucket is the sum of some of the booked payments, those
of the calls between booking and charging being still outside, each its own. What
a sum computes cannot be proved by induction over a list here, but it need not
be: the bank's list grows only at its end, so that its sums exist and are unique
(`Summable`) is part of the invariant, kept by `SummableAppend`, and what the sum
of a set is follows by exhibiting the partial sums (`TotalOfOne`, `TotalOfTwo`).

**The desk.** A handler writes from a copy it read earlier, so what it may leave
behind depends on that copy. The invariant `FromOpenItems` says of a call under
way that a batch handler holds no item it saw waiting. `RewriteFacts` is about
one item: whatever the row has become, what is written over it is completed on
its own reference only, and has the real one if the copy had it. `ItemsMove`,
`BatchesMove` and `CallsMove` say this of a step, `HandlerMoves`, `PilotStepMoves`
and `CallMoves` show it of each kind of step, and the properties follow for every
interleaving. `FirstAssumption` says that the tables start with rows of their
types. `NoPhantoms`, that no row is completed without proof at the start, is a
hypothesis of the two theorems about completed rows only: rows from before the
guards may be phantoms, and are what the quarantine sweep is for. The run `ops`
starts from tables that satisfy it.

**The ledger.** `Exclusive`: until a lock is stolen, who is inside owns the
lock and knows the last line, who writes for an append has a line to chain to,
and a nested acquisition never succeeds. `Chained` follows by what appending a
whole or torn line does to the set of readable lines (`AppendReadable`).

**The queue.** `Owned`: until a claim is removed early, a pass on a task has the
directory to itself, and no result is there yet unless its list was outdated.

Only model-checked: the liveness properties (`SubmittingResolves`,
`UnknownResolves`, `CompletedIsBooked`, `ReservedIsDispatched`,
`PaidIsReconciled`, `CallsReturn`, `EveryTaskFinishes`, `ClaimsAreSwept`,
`LedgerCatchesUp`), since fairness and ENABLED are outside the prover's reach.
Every other property that a passing run checks is also a theorem. Induction
over data is out of reach too: nothing is proved about the balances that
`OwnerLedger` derives from the lines, which none of the theorems uses.

## What is not modelled

* The settlement engine and its lock. It imports `resolveBestPayoutRoute`,
  which `payout-routing` does not export, so every dispatch ends in a
  TypeError, and `finalizeSettlement` has no caller. The lock's key contains a
  fresh id, so two callers never meet on it. A model would be one of an
  intention.
* The orchestrator: a pass under its lease only reads in this build, so there
  is no write the lease could protect.
* Buckets and vaults: allocation is reached only from the legacy settlement
  engine, whose execution is always refused, and `releaseFromBucket` has no
  caller. The one charge that happens is in `Treasury`.
* `eligibility.ts` and both watchdogs: read-only reporting.
* Authentication, report formats, evidence payloads, failure texts.
* Several currencies, and float arithmetic.
* A ledger account that disappears between reservation and settlement, and a
  payout whose owner is given as an account id: `deriveBalance` skips such
  rows because `mapEntryRow` reports the account's owner.
* What happens to a payout after QUARANTINED, and owner cancellation: the
  table allows CANCELLED, but no code in `src/` performs it.
* Of the scripts, gateways, agents, pages and generators: I/O without a
  protocol of their own. They are most of the repository's lines.
* Orders, escalation, timelock, the file lock library and the work leases are
  protocols of this code that are still to be modelled; see the plan.

## Plan

Done: payout core, rail chain, PayPal batches with their webhooks, operations
desk, treasury releases, authoritative ledger, task queue.

Next, in this order:

1. Proofs: the safety half of the liveness properties, that is the invariants
   that say what a payout, walk, call or claim still waits for.
2. `OrderFulfilment`: checkout, capture and one-time fulfilment.
3. `DistLock` and `WorkLease` beside the task queue, against one abstract lease.
4. `EscalationOutbox`, `Timelock`.
