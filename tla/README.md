# Meterpilot: specifications

Meterpilot is a usage-metering and billing-preview service: an HTTP API
(`apps/server`), a background worker (`apps/worker`), a PostgreSQL schema
(`packages/db`) and pure packages for pricing and time. Almost all of its state is
in PostgreSQL, and the API processes and the worker processes meet there and
nowhere else. What is hard about it is what happens between two transactions, and
at READ COMMITTED inside one. This directory holds TLA+ models of that, the TLC
configurations that check them, and TLAPS proofs about them.

## Running

    tlc -workers 2 -config JobQueue_safety.cfg        MCJobQueue
    tlc -workers 2 -config JobQueue_liveness.cfg      MCJobQueue
    tlc -workers 2 -config JobQueue_fencing.cfg       MCJobQueue         # finds a violation
    tlc -workers 2 -config QuotaReservation_safety.cfg   MCQuotaReservation
    tlc -workers 2 -config QuotaReservation_liveness.cfg MCQuotaReservation
    tlc -workers 2 -config UsageAggregation_concurrent.cfg MCUsageAggregation
    tlc -workers 2 -config UsageAggregation_race.cfg       MCUsageAggregation  # finds a violation
    tlc -workers 2 -config InvoicePreviews_series.cfg      MCInvoicePreviews
    tlc -workers 2 -config InvoicePreviews_watermark.cfg   MCInvoicePreviews   # finds a violation
    tlc -workers 2 -config Ingestion_api.cfg               MCIngestion
    tlc -workers 2 -config Simulations_billing.cfg         MCSimulations
    tlc -workers 2 -config Retention_policy.cfg            MCRetention
    tlapm JobQueueProofs.tla
    tlapm QuotaReservationProofs.tla
    tlapm UsageAggregationProofs.tla
    tlapm InvoicePreviewsProofs.tla
    tlapm IngestionProofs.tla
    tlapm SimulationsProofs.tla
    tlapm RetentionProofs.tla
    tlapm SetLemmas.tla

Definitions marked `Mutation` or `Mutant` are faulty variants of the definition
they precede. Nothing uses them; substituting one for its original breaks the
property `PROJECT.json` lists with it, which shows that the property can fail.

## Inventory

| Component | State | Operations | Meets |
|---|---|---|---|
| Durable job queue (`worker/src/jobs/drizzle-repository.ts`, `worker/src/runtime`) | `jobs`: status, attempt count, lease owner and expiry, next attempt, failure class, manual retry count | claim, complete, retry, fail, the polling loop, dispatch and classification of errors | every producer inserts jobs in its own transaction; every handler below runs under a lease |
| Operator recovery (`server/src/features/job-operations`) | the same rows | list and find failures, retry one with an acknowledged generation | the worker that fails the job again |
| Quota (`server/src/features/entitlements`, the expiry job) | `entitlements` balance row, `quota_grants`, `quota_reservations` | configure, add a grant, reserve, commit, release, expire | commit inserts a usage event; reserve inserts a job |
| Usage events (`server/src/features/events`) | `usage_events`, correction chains | ingest a batch, correct an event | a job for each accepted event |
| Aggregation (`drizzle-usage-event-processor.ts`, rebuilder) | `usage_buckets` | process an event, rebuild | previews of a period it affects |
| Reconciliation (`drizzle-reconciliation-runner.ts`) | runs, discrepancies | create, run, repair derived state | buckets written by the processor |
| Retention (`drizzle-retention-enforcer.ts`) | policy, redacted payloads | update policy, enforce a batch | events and corrections in flight |
| Previews and exports | preview revisions with watermarks, exports | create, generate, export | the processor queues revisions |
| Subscriptions and catalog | plans, versions, subscriptions, entitlements per cycle | publish, archive, subscribe, cancel, renew | quota rows, previews |
| Meters | versions with effective intervals | create, publish, archive | the events that match them |
| Organizations, API keys, rate limits | memberships, keys, fixed windows | add and remove members, rotate, revoke, consume | concurrent requests |
| Simulations | runs and results | create, run | draft plans |
| Pricing engine, billing periods | none | pure functions | previews, simulations, renewals |
| Process life cycles (`server/src/runtime`, `worker/src/runtime`) | signal handlers, errors met so far | start, handle a signal, drain, close the database, exit | requests and jobs in flight |
| HTTP layer, SDK, configuration, observability, dashboard | none of their own | parsing, authentication, display | everything |

What makes each one correct, and what endangers it (`PROJECT.json` lists the
hazards at their lines):

* **Job queue.** A lease excludes other executions while it lasts; what a former
  owner reports is rejected; an outcome, once recorded, is final; attempts stay in
  their budget; a job settles although processes die. Endangered by handlers that
  outlive their lease, crashes between claim and outcome, clocks read before the
  statement that uses them, and statements whose answer is lost after the commit.
* **Operator recovery.** A retry restarts the failure the operator saw, at most ten
  times. Endangered by old screens and by a request sent twice.
* **Quota.** The counters of the balance row are what the reservations add up to;
  no reservation is accepted beyond the active grants; each is settled once;
  committed quota is metered. Endangered by the race of commit, release and expiry,
  by sums read in an older snapshot, by grants that end, and by transactions that
  lock the same two rows in opposite orders.
* **Usage.** A bucket is the aggregate of the terminal effective events of its hour.
  Endangered by two processors of one bucket, late events and corrections, repair
  and retention at the same time.
* **Previews.** Every effective event of a previewed period is in some revision, or
  in one still to come. Endangered by commits out of `receivedAt` order and jobs
  that run out of attempts.
* **Subscriptions.** Each cycle has its entitlements, none beyond a cancellation.
  Endangered by a conflict half way through a renewal, and by a cancellation during
  one.
* **Meters, memberships, keys, limits.** One effective version at a time, one owner
  at least, at most one successor of a key, no more requests than the limit in a
  window; each endangered by two requests at once.
* **Ingestion.** An event is accepted once, and every answer is true. Endangered by
  copies of a batch in flight, and by batches that insert common events in opposite
  orders.
* **Simulations.** The prices are those of the snapshot the request pinned. Endangered
  by events that arrive late, are corrected or redacted, and definitions that change,
  while a run reads batch after batch.
* **Retention.** Events lose their properties when the policy in force says so, and do
  lose them. Endangered by repeated scans, policies changed during one, and locked rows.
* **Processes.** A process that exits in order has lost nothing. Endangered by further
  signals and by failures while it stops.

## Plan

1. `JobQueue`, its abstraction `JobLifecycle`, and its proofs: everything else runs
   on it. Written.
2. `QuotaReservation` and its abstraction `QuotaLedger`: the component with money in
   it, several row locks and stale reads. Written, and `QuotaReservationProofs` with
   it, on the sums of `SetLemmas`.
3. `UsageAggregation`: corrections, the two-step processing of an event (read the
   events, write the bucket), rebuild, reconciliation with repair, and what retention
   does to them. Written, and `UsageAggregationProofs` with it.
4. `InvoicePreviews`: revisions, the watermark, the generator, exports, and the
   revisions a repair asks for. Written, and `InvoicePreviewsProofs` with it; it takes
   events as stored and leaves buckets to 3.
5. `Access` (memberships and API keys) and, on top of it, `Ingestion` (the calls that
   present a key: rate limit, authentication, batches and corrections). Written, and
   `IngestionProofs` with them.
6. `Pricing` and `Catalog` (meters, plans, versions, features, customers), on top of
   them `Subscriptions` (sale, cancellation, entitlements, renewal, billing periods),
   and on top of that `Simulations`. Written, and `SimulationsProofs` with them.
7. `Runtime` (the processes) and, on top of it, `Retention` (the policy and its chain of
   scans, run by processes that stop and die). Written, and `RetentionProofs` with it.

Every invariant and action property that a run checks is a theorem now. What remains is
liveness, which is out of the provers' reach, and what the models leave out (see below).

Each module takes the fewest actors its hazards need: two concurrent transactions and
one datum they share. Where the interesting cases differ in what there is to begin with,
a run has a set of *settings*, one of which is chosen in the initial state and kept; each
is a scenario of its own, named by a comment in the MC module.

## Job queue: `JobQueue`, `JobLifecycle`, `MCJobQueue`, `JobQueueProofs`

### Correspondence

| Model | Code |
|---|---|
| `row[j]` | a row of `jobs`; `leaseLeft` and `dueIn` are `lease_expires_at` and `next_attempt_at` less the present time |
| `running` | the `executeJob` calls in flight, with the lease each was given |
| `loop`, `pollLag` | where `runWorker` is, and how old its `pollTime` is |
| `review` | the generation (`attemptCount`, failure code, `manualRetryCount`) an operator's request will acknowledge |
| `claims`, `failures`, `handled` | history, read by properties only |
| `Enqueue` | every insertion of a job, under its unique key |
| `Poll`, `Claim`, `ClaimThrows` | the loop of `runWorker` and the claim with `FOR UPDATE SKIP LOCKED` |
| `HandlerReturns`, `HandlerThrows`, `Caught` | `dispatch`, and what the catch block decides |
| `Complete`, `Retry`, `Fail`, `CompleteThrows`, `SettleThrows` | the three outcome statements, fenced by `HoldsLease`; a statement that throws may have committed |
| `Shutdown`, `Crash` | abort, and the end of a process; a restarted one has a new worker id |
| `Inspect`, `RetryFailedJob` | reading a failure, and the transaction that restarts it |
| `Tick` | time |

A transaction is one step: each of them takes the locks of the rows it writes in a
single statement. `SKIP LOCKED` only leaves out rows that another transaction is
about to change. All hosts share a clock; what is modelled is that a clock value may
be old when its statement runs (`MaxLag`). Inserting an audit row, metrics and
payloads are left out.

`JobLifecycle` is what a producer relies on: a job is open, settles once per
generation, and is reopened only after a retryable failure and no more often than
the cap.

### Properties and runs

`jobqueue_safety` (one job, two processes, one operator; about 820,000 states)
checks

* `LeaseIsExclusive`: no two executions hold the lease of one job;
* `AttemptBudget`: no job waits for an attempt beyond its budget, although a lost lease
  hands a job out without a retry;
* `OperatorRetriesWhatItSaw`: a manual retry restarts the failure its operator was shown;
* `ImplementsLifecycle`: each step is one of `JobLifecycle` or none. In particular an
  outcome is final, whoever reports late.

`TableChecks` (the CHECK constraints), `CompletedWasHandled` and `OutcomeIsFinal` are
proved and need no run; `FormerOwnerIsRejected` is proved where it holds (see below) and
refuted by the third run.

`jobqueue_liveness` (two jobs, batches of two, two processes of which one may stop)
checks `EveryJobSettles`: every accepted job is completed or failed in the end. The instance
has crashes and leases that run out, but no operator, so one generation of each job, no lost
answer of a claim and no clock that lags; these are in `jobqueue_safety`.

`jobqueue_fencing` lets `retry()` or `fail()` throw once and finds
`FormerOwnerIsRejected` violated. `Promise.all` in `runWorker` rejects at the first
settlement that throws, and the loop claims again while other executions of the
batch still run. The fence of the outcome statements is the worker id, which the
newer claim shares, so such an execution can settle it: `apps/worker/tests/job-repository.integration.test.ts:79`
promises that an expired lease "rejects its former owner".

### Bounds

| Bound | Meaning | Why it is enough |
|---|---|---|
| `LeaseDuration = 2`, delays of 1 tick | lengths of time | a lease longer than the poll interval and than the lag, so both orders of expiry and statement occur |
| `MaxLag = 1` | age of a clock value when its statement runs | a lease granted and checked one unit late, less than the lease |
| `MaxAttempts = 2` | attempt budget | one automatic retry, then exhaustion |
| `MaxManualRetries = 2` | cap on restarts | an old screen needs two failures of one job with the same attempt count |
| `MaxOverruns`, `MaxStops`, `MaxErrors` | leases outlived, processes lost, statements that throw | two takeovers of one job; each process may be lost |
| `MaxSettleErrors` | throwing `retry()` or `fail()` | 0 where fencing is claimed, 1 where it is refuted |
| the countdown floor `-MaxLag` | how far in the past a time is kept | no statement looks further back |

Jobs do not interact but through the limit of a claim and the batch of a process, so
one job shows the safety of each row; the fencing and the liveness runs need batches
and have two.

### Fairness

`Fairness` asks that time passes, that an idle loop polls, that a claim gets its
answer, and that a handler ends and its outcome is sent. The first three are the
loop of `runWorker` on a live process; the last is an assumption about handlers, which
all are finite transactions. Nothing is owed by producers, operators or
failures, and a process that is down owes nothing. The property relies on failures
being finitely many (the bounds above): with a handler that kills its process every
time, the code does reclaim the job for ever, since the claim never looks at
`maxAttempts`.

### Proofs

`JobQueueProofs` proves for every number of jobs, workers, operators and every value
of the bounds and limits:

* `TypeCorrect`: `Spec => []TypeOK`.
* `TableChecksHold`, `CompletedHandled`, `OutcomesAreFinal`,
  `OperatorsRetryWhatTheySaw`, from the inductive invariant `RecordInv`. It is
  needed because a row does not show what its execution knows: `PhaseInv` keeps what
  the catch block has established (a job about to be completed was handled, one about
  to be retried has attempts left), `RowInv` says which rows can record a failure, and
  `ReviewInv` that while the generation on an operator's screen is the row's, the
  failure is still the one it was read from. Rows are treated in two steps: `RowStep` lists what any
  step can do to a row (keep, lease, enqueue, settle, reopen), and the invariant is
  preserved by each of these.
* `QueueImplementsLifecycle`: each of those row steps is a step of `JobLifecycle`
  or a stutter.
* Under `MaxSettleErrors = 0`: `LeasesAreExclusive`, `BudgetIsKept`,
  `FormerOwnersAreRejected`, from `FencingInv`. Fencing by worker id is sound only if
  the worker id names one claim: `OneBatch` says that a process which may claim has
  no execution in flight, and `ClaimInv` that whoever holds the row is the last claim
  and was given the attempt the row counts. The assumption is exactly what the
  violation run drops.

The type invariant and `ConstantsAssumption` are all these rest on. Liveness
(`EveryJobSettles`) is model-checked only.

## Quota: `QuotaReservation`, `QuotaLedger`, `MCQuotaReservation`, `QuotaReservationProofs`, `SetLemmas`

### Correspondence

| Model | Code |
|---|---|
| `entitlement` | `granted_quantity`, `committed_quantity`, `reserved_quantity` of one hard entitlement, as `configure` creates it |
| `reservation`, `granted`, `event`, `job` | its `quota_reservations`, `quota_grants`, the usage event of each reservation, its expiry job |
| `txn[s]` | the transaction an API request or a worker is in: its clock value, the sum of grants it has read, and the lock it waits for |
| `StartReserve`, `LockEntitlement`, `ReserveNew`, `ReserveAgain`, `ExpireRepeated` | `reserve`: its clock, its locking statement, the branch of a new key, the branch of a known one, and the expiry that branch may carry out |
| `StartSettle`, `LockReservation`, `Commit`, `Release` | `commitReservation`, `releaseReservation` |
| `StartExpire`, `LockReservation`, `Expire` | the expiry job |
| `AddGrant` | `addGrant` |
| `Deadlocked`, `BreakDeadlock`, `Abort` | PostgreSQL: a cycle of row locks ends one of its transactions; a connection is lost |

A transaction is cut at its row locks. Every writer holds the entitlement's row, so
the writes of a transaction are one step; what it read before that may be old. The
sum of active grants is such a value: a locking statement that waits re-reads the row
it waited for, and not the subquery over `quota_grants`, which keeps the snapshot in
which the statement began. `reserve` tests and stores that sum.

A repeated `reserve` that finds its reservation due locks the entitlement and then
the reservation; all others lock the reservation first. The resulting deadlocks are
part of the model.

Commit has more reasons for a conflict than the model has data (the accepted window,
the meter and its aggregation): the third disjunct of `Commit` allows a
conflict for any reservation that is not due. Audit rows are left out, who may call is the
business of `Access` and `Ingestion`, the creation of entitlements with its overlap check
that of `Subscriptions`. That a cancelled subscription shortens the period of an
entitlement which has reservations is left out.

`QuotaLedger` has reservations and grants and no balance row: a reservation is
accepted if what the others use and its quantity are within the grants active at the
time its request read, and is settled once.

### Properties and runs

`quota_safety` (two requests in flight, one expiry worker, two reservations one of
which is asked for in two ways, two grants of which the larger ends half way; about
1,140,000 states):

* `BalanceIsExact`: six handlers change the counters by differences; the counters are
  always the sums over the reservations. No quantity is returned twice or lost.
* `CommittedIsMetered`: exactly the committed reservations have a usage event, of
  the committed quantity.
* `ImplementsLedger`: what the API accepts is within the grants, nothing expires
  early, and a reservation that was committed, released or expired stays as it is,
  whatever late request, repeated request or job still holds its key (`OutcomeIsFinal`,
  which is proved).

`quota_liveness` (one reservation, a lost transaction): `DueReservationsSettle`, the
fairness of the ledger: a reservation that is due is settled, by the job or by a
request.

### Bounds

Two reservations compete for the grants, and one reservation has three sessions that
can race for it; every handler touches one reservation, so a third one adds no
order of events. The clock runs to the end of the period (`Horizon = PeriodEnd = 2`),
which lets a reservation and a grant end while the other lasts. `MaxAborts = 1` in
the liveness run is below the eight attempts a job has; the safety run has none,
since losing a transaction changes nothing but that session.

### Fairness

Row locks are granted in the order of their queue, so a transaction that waits is
served although others keep asking for the row: strong fairness of `Proceed`, because
the lock is taken and freed again. PostgreSQL breaks deadlocks. A due job is claimed
again and again, which is what `EveryJobSettles` says of the queue. Clients owe
nothing.

### Proofs

`QuotaReservationProofs` proves for all sets of keys, grants, requests and workers,
all quantities and all bounds:

* `LocksExclude`: the entitlement's row has one holder, and so has each reservation's.
* `CommittedQuotaIsMetered`: `CommittedIsMetered` in every state.
* `OutcomesAreFinal`: `OutcomeIsFinal` of every step.
* `PendingReservationsHaveJobs`: an unsettled reservation has its expiry job, which is
  where the liveness property starts.
* `TypeCorrect`: `TypeOK`; in particular no counter falls below zero.
* `CountersAreExact`: `BalanceIsExact` in every state.
* `LedgerIsImplemented`: every step of the handlers is one of `QuotaLedger` or none.

The inductive invariant adds to the typing which row each step of a transaction holds
(`LockInv`). It is needed because the branches of a repeated `reserve` test the
reservation when they lock the entitlement and act on it after a second lock: the
decision is still true then because whoever settles a reservation needs the
entitlement as well. `TxnInv` adds what a transaction brings from before its locks: its
clock is not ahead, the expiry job has found its reservation due at that clock, and the
sum of grants it has read is no more than what is active now at the same clock, because
grants are only added. That is why a stale sum never accepts too much.

`KeyStep` lists what a step can do to one reservation (keep it, reserve, charge, end it)
and `Moved` what it does with it to the counters; each theorem is a fact about those four.
`BalanceStep` follows the two sums through them. `SetLemmas` has what is needed of sums:
a fold over a finite set may take any element first. The library's induction theorems
cannot be used for it, so it is derived from the choice of a least number at which the
claim would fail. It needs that `Keys` and `Grants` are finite, which `ConstantsAssumption`
says.

`DueReservationsSettle` is model-checked only.

## Usage: `UsageAggregation`, `MCUsageAggregation`, `UsageAggregationProofs`

### Correspondence

| Model | Code |
|---|---|
| `received`, `redacted` | `received_at` and `properties_redacted_at` of `usage_events` |
| `job`, `attempts` | the `process_usage_event` job of each event, the job of a reconciliation run and that of a rebuild |
| `bucket` | the committed rows of `usage_buckets`, each as the set of the events it counts |
| `run`, `watermark` | the status of the reconciliation run (a failed one never opens again, since its job has failed) and its `input_watermark` |
| `session[w]` | the transaction a handler is in: what it has read, what it has written and locked |
| `setting` | what clients send, what the meter makes of it, which operators and failures there are |
| `raced`, `session[w].shared` | history, read by one property only |
| `Accept` | `ingest` and `correct`, for one event |
| `CreateRun`, `QueueRebuild`, `Redact` | `createRun`, the job of `publishVersion`, the retention job |
| `BeginEvent`, `Read`, `Write`, `Commit` | the transaction of `process`: the event and what it corrects; then for each affected bucket a statement that reads the effective events and one that upserts or deletes the row |
| `BeginRebuild`, `RebuildNext` | the rebuilder, which calls `process` for one event after the other |
| `BeginRun`, `Compare`, `Write`, `Commit` | the runner: expected buckets, actual buckets, repairs |
| `Complete`, `FailPermanently`, `Lose`, `BreakDeadlock` | the outcomes `JobQueue` has in detail |

Accepting an event is one step; `Ingestion` has the statements of a batch and of a
correction. A duplicate finds its event and changes nothing; a
correction is accepted at most once for an event, and only as long as that event has
its properties, which `correct` makes sure of by locking its row. The clock of a
request may be older than its commit by `MaxLag`, so events can commit out of the
order of `received_at`.

A job has one handler at a time, which is what `LeaseIsExclusive` gives as long as no
handler outlives its lease. Quantities are taken to be such that different sets of
events have different aggregates. A redacted event has no properties, and the meter
then counts it, skips it or throws, depending on its definition: `erased`.

### Properties and runs

`usage_concurrent` (two handlers; five settings, each with two or three events; about
320,000 states) checks what the code does keep:

* `NeverCountedTwice`: no bucket counts an event and an event that corrects it,
  whatever runs at the same time and whichever watermark a repair uses. Each value is
  read at one moment, so this says nothing of values that are out of date.
* `UnracedBucketsAreExact`: a bucket whose events are processed is exactly their
  terminal effective events, if its last writer did not overlap another one on the
  same row and was not a repair behind newer events. Losses, deadlocks, repeated
  jobs, rebuilds and redaction do no harm, and a later processing heals a race.
* `FailsForOlderEventsOnly`: an accepted event fails only for an older event that
  lost its properties; retention never overtakes the event itself.
* `AcceptedEventsSettle`: corrections and repairs deadlock on rows, transactions are
  lost, and every accepted event is still processed or fails for good.

`usage_race` checks `ProcessedBucketsAreExact`, the same as the second without the
exceptions, and finds it violated: a handler reads `{e1}`, the reversal of `e1` is
accepted and processed by another handler, which sees no row and deletes nothing, and
the first one commits. One process is enough, since it runs a batch of handlers at the
same time. The reversed event stays in the aggregate until another event of that bucket
comes.

Two more ways lead to such a bucket; both are findings without a run of their own.

* An event received after the request of a repair and processed before the run is erased
  from its bucket: the repair writes the bucket as of its watermark. The property is
  refuted by the settings of `MCUsageAggregation` that are called `RepairSettings`, in
  place of those of `usage_race`.
* Events received long ago lost their properties; a late event of the same hour rewrites
  the bucket of a filtered meter without them. The rebuilder and the reconciliation
  refuse such a range; the processor does not look.

### Bounds

Each handler works on the bucket of one event and at most one other, so two rows, and
two handlers are enough for any order of read and write on a row and for a deadlock.
The settings are: a replacement in another row beside a repair; a replacement that is
itself reversed; a reversal beside another event under retention; a meter that needs
the removed properties; a correction that leaves the meter, beside a reconciliation
whose job is claimed again after a loss.
`Horizon = 1` gives events before and after a watermark and an event old enough to be
redacted; `MaxAttempts = 2` one retry after a deadlock.

### Fairness

Some worker claims a queued job, some handler goes on, a deadlock is broken: the loop
of a live worker and PostgreSQL. That is weaker than fairness for each worker, and
enough because retries are bounded.

### Proofs

`UsageAggregationProofs` proves for all sets of events, buckets and handlers, every
setting and all bounds, from `ConstantsAssumption`:

* `TypeCorrect`: the types, by a lemma for each kind of update of a session.
* `CountedOnce`: `NeverCountedTwice` in every state. It is not inductive, because a
  commit writes what was read many steps earlier, when other events were stored.
  `CleanInv` says of every set in a plan or an uncommitted write what the property says
  of the rows: each was read at one watermark, and a set read at one watermark never
  has an event beside its correction. A set that is out of date may be wrong, but never
  in this way.
* `FailuresAreOld`: `FailsForOlderEventsOnly` in every state. `JobInv` adds that
  redacted events have a completed job, that every session has an open job, and that no
  two sessions have the same. Each handler step then keeps the tasks (`SameTasks`),
  starts one (`TakesUp`) or ends one (`Ends`), and the three cases are treated once.

* `BucketsAreExact`: `UnracedBucketsAreExact` in every state, under `NothingIsSkipped`:
  where a meter has a filter, so that the rebuild of a bucket skips the events that have
  lost their properties, retention does not run. Without it the theorem is false; that
  is the last of the findings above. The invariant, `ExactInv`, follows a value from the
  moment it is read. `Snapshot`: every value a handler holds is the content of a set of
  stored events that has its own event in it and, unless the handler has met another one
  on that row, each event whose processing had read the row before; that of a repair has
  those up to its watermark. `RowIsExact`: a row nobody has raced takes account of every
  event that has passed it. A commit moves the one into the other.

`AcceptedEventsSettle` is model-checked only.

## Invoice previews: `InvoicePreviews`, `MCInvoicePreviews`, `InvoicePreviewsProofs`

### Correspondence

| Model | Code |
|---|---|
| `preview[r]` | the row of revision `r` of one series in `invoice_previews`; `counted` stands for its lines, `cause` and `seen` are history |
| `export[x]` | a row of `billing_exports`, once its request has read the revision it pins |
| `run` | the status of one `reconciliation_runs` row with repair |
| `job`, `holder` | the jobs, and which handler has the current lease |
| `session[w]` | a handler: where its transaction is, what it has read, which rows and advisory lock it holds |
| `Create`, `ChooseExport`, `CreateExport`, `CreateRun`, `Retry` | `create`, the two statements of `createExport`, `createRun`, `retryFailedJob` |
| `BeginEvent`, `LockSeries`, `FindLatest`, `LockLatest`, `ReadExports`, `Append` | the second half of `process`: the series, its advisory lock, the latest revision for update, its completed export, the insertion of the next revision |
| `LockRow`, `Repair`, then the same | the reconciliation runner |
| `LockRow`, `ReadWatermark`, `ReadEvents`, `CompletePreview` | `generate` of the preview generator |
| `LockRow`, `CompleteExport` | `generate` of the export generator |
| `FailPreview`, `FailExport`, `FailRun` | the transaction of `fail` that follows a permanent error, by kind of job |
| `End`, `Lose` | the outcome of the job, under a lease that may have gone to another handler |

A statement that locks a row is two steps where others may come between: `FindLatest`
takes its snapshot, `LockLatest` waits for the row and sees what has become of it, and
not the rows inserted since. A lease may expire under a running handler (`Claims` with
`Loses`), so two handlers of one job overlap, and the former one still commits what it
has done: `job` keeps the outcome of the latter.

The lines of a preview are one set of events, read in one step: `ReadEvents` stands for
the whole loop over components, meter versions, events and prices. The code reads the
events of each component in a statement of its own; these can differ only in events
that commit behind the watermark, which the violation below is about. Values that are no
numbers are left out, and so is the list of buckets a preview names as its sources. Prices follow
from the events and the immutable plan version. Whether a repair finds differences is
left open, and any redacted event of the period may make it fail.

### Properties and runs

`preview_series` (two handlers; six settings, each with at most two late events; about
310,000 states):

* `OnlyLatestIsPending`: revisions are numbered without a gap, only the latest one is
  pending, and a handler about to insert a revision never finds it inserted. Several
  late events and a repair ask at the same time; the advisory lock has to cover the
  statement that finds the latest revision, since the row lock alone lets a waiting
  statement go on with a revision that is no longer the latest.
* `PreviewsLoseOnlyEventsBehind`: when every stored event is processed, a completed
  latest revision counts exactly the effective events, unless one of them committed
  behind the watermark.
* `RevisionsAdvance`: a revision asked for by an event sees more than the one before.
* `OutcomesAreFinal`: neither a handler that lost its lease, nor a failure recorded
  late, nor a repeated job changes a settled preview, export or repair; a settled repair
  asks for no further revision; an export stays with a completed revision.
* `RevisionsSettle`: each revision is calculated, fails, or waits for an operator.

`preview_watermark` checks `ProcessedEventsArePreviewed`, the same as the second without
its exception. An event reads its clock, another one with a later clock commits, a
preview is calculated with that as its watermark, the first event commits, and its
handler takes it to be covered.

### Bounds

Two handlers give every pair of event, repair, generator, exporter and overlapping
handler of the same job. `Horizon = 1` and `MaxLag = 1` let an event commit behind
another. `MaxRevision = 4` leaves room for one revision for each event and a repair.
`MaxLost = 2` lets a lease expire under a handler and that handler, or its successor,
be lost.

### Fairness

Some worker claims a job that is free, and some handler goes on. Handlers wait for
locks in one order (the run, the series, the latest revision), so no deadlock has to be
broken. Operators owe nothing: `RevisionsSettle` allows for a job that waits for one.

### Proofs

`InvoicePreviewsProofs` proves for all sets of events, exports and workers, every
setting and all bounds, from `ConstantsAssumption` and `NoneAssumption`:

* `TypeCorrect`: the types.
* `OneRevisionAtATime`: `OnlyLatestIsPending` in every state.
* `SettledStays`: `OutcomesAreFinal` of every step.
* `RevisionsGrow` and `OnlyEventsBehindAreLost`: `RevisionsAdvance` and
  `PreviewsLoseOnlyEventsBehind` in every state.

None of the first three is inductive: a handler decides in one statement what it writes some
statements later. `Knows` says of each phase what its handler has found and may still
rely on: that its own row is pending, that no revision follows the one it has read, that
this one is settled, and by which lock each of these is protected. `Undisturbed` lists
what a step must leave alone so that the others keep what they know (`UndisturbedKnow`).
`LocksExclude` says that two handlers never hold one lock, so whoever writes a row or
adds a revision disturbs nobody. With that each action is one lemma: a handler that
reads (`ReadingStep`), settles its row (`SettlingRevision`, `SettlingExport`,
`SettlingRun`), appends, or leaves (`LeavingStep`), and a client (`OtherStep`).

The last two rest on `SoundInv`, proved on top of that. Of a completed revision, and of
a handler that calculates one, it says that what is counted are the effective events of
those it saw, up to its watermark (`Counts`), and that the watermark is not before the
event that asked for the revision (`Covers`), which was later than what the revision
before had covered (`AskedLater`). Of the latest one it says also that no event whose
processing has ended is later than its watermark (`PastProcessed`). The processing of an
event can end in three ways, and each keeps this: it finds no revision, and so the first
will see the event; it finds one that has covered the event; or it finds one that is
pending and whose row is free (`EndingIsSound`), so that the calculation that will
complete it has not yet read its watermark. The lock on the row is what the last case
needs. With every event processed and none behind the watermark, what was seen is all
there is.

`RevisionsSettle` is model-checked only.

## Access and ingestion: `Access`, `Ingestion`, `MCIngestion`, `IngestionProofs`

### Correspondence

| Model | Code |
|---|---|
| `role[u]`, `key[k]` | the membership of a user; an API key: its expiry, how it was revoked, and which key it replaced |
| `request[r]` | a request of the dashboard in its transaction: what it asks, the clock value of the service, the role it found, and the rows it holds |
| `referring[k]` | uncommitted calls that inserted rows with a foreign key to `k` (FOR KEY SHARE) |
| `event[e]` | the committed row of an event key, and with it the job that is inserted beside it |
| `call[c]` | a call of an API client: its load, the answers so far, the rows it has inserted and locked |
| `window[k][w]` | a row of `rate_limit_windows`, 0 when there is none |
| `served` | history: the calls that passed the limit |
| `CreateOrganization` | `createOrganization` |
| `Receive`, `LockActor` | the request, and the first statement of each transaction, which reads the role of the actor FOR UPDATE |
| `LockTarget`, `ReadOwners`, `LockOwner`, `CountOwners` | `updateMembership`, `removeMembership`: the member, then the owners, found by one snapshot and locked one by one |
| `LockKey`, `Collide` | `rotate`, `revoke`; another prefix after a collision, three times at most |
| `Write`, `Abort` | the writes with their audit row and the commit; a rollback |
| `Send`, `Prune`, `Count` | the rate limit middleware and the two statements of `consume` |
| `Find`, `Activate` | the look-up of the key, and the update that requires it to be alive still |
| `Validate`, `TooEarly`, `TooLate` | the times of the events, and a correction of itself or of the future, which is refused before the transaction |
| `Look`, `Insert` | one event of `ingest`: the existing row, the subject, `ON CONFLICT DO NOTHING` and the look at the row it met |
| `LookUpCorrection`, `LockCorrected`, `Insert` | `correct` |
| `Commit`, `Lose` | the end of the transaction |

Only the repositories of organizations and of API keys read the actor's role again under
a lock. The others trust the role that the middleware resolved, and no property is claimed
of them. Revoking a key that was rotated already is answered as a success while its
replacement lives on; that is how the code reads, and no document says otherwise. Left out
are `lastUsedAt`, scopes, the session limits (the same function on the same table),
events whose schema or properties are refused, the lock on the users row that a join of `updateMembership`
adds, and a member who is removed and added again while another request waits for the
row. Which events are redacted is fixed in each setting.

### Properties and runs

`api` checks, with both kinds of request at once:

* `OwnerRemains`: once there is an organization it has an owner.
* `AuthorityHolds`: a membership or key changes only in a request of a member whose role
  allows that change at the moment of the commit. It holds because the row of the actor
  stays locked.
* `RotationReplaces`: a rotated key has exactly one replacement.
* `RevocationsWaitForBatches`: a key is revoked or replaced between batches and never in the
  middle of one. The events a call has written refer to the row of the key, which a rotation or
  revocation takes FOR UPDATE; so it waits for the commit, and an insert waits for it.
* `RateIsLimited`: no more calls pass in a window than the limit, however late they count
  and whatever windows are deleted beside, until the window has been over for as long as it
  lasted. After that its row may be deleted, and a call that read its clock in the window and
  was held up since is let through once more: the code has nothing against it, and
  nothing says how old a clock value may be.
* `AnswersAreTrue`: what a call is told holds when it commits.
* `EveryCallEnds`: everybody gets an answer, although batches wait for each other's
  events, owners for each other's memberships and rotations for batches.

### Bounds

Two requests, two calls and eight settings. Three users give two owners and somebody
else; three keys a key, its replacement and that one's; three events two batches that
cross and one event that is rejected. `Window = 1` and `Horizon = 3` give calls in several
windows, of which the first two are deleted meanwhile; `MaxLag = 2`, twice a window, a call
that counts in a window that is already deleted. `MaxAge = 1` and `MaxSkew = 0`: one of the
contents has become too old when the clock ends, and one is too early at first.

### Fairness

Each request and each call is served again and again unless it waits, and PostgreSQL
grants row locks in turn: strong fairness for each of them. A cycle of waits is broken
(`deadlock_timeout`): weak fairness of ending one of its transactions. Clients owe
nothing, and neither do losses.

### Proofs

`IngestionProofs` proves for all sets of users, keys, requests, events and calls, every
setting and all bounds:

* `TypeCorrect`: the types.
* `OwnersRemain`, `RotationsReplace`, `RatesAreLimited`: the three invariants of the run.
* `ChangesAreAuthorized`, `RevocationsWait`, `AnswersTrue`: its three action properties.
* `CorrectionsAreUnique`: two corrections of one event are never stored.

The assumptions are those of the tables to begin with: an organization without members or
with an owner, rotated keys with one replacement, stored events under their own key and no
two corrections of one event (`ConstantsAssumption`, `IngestionAssumption`); loads are those
the schema lets pass. Nothing is assumed of the lag of a clock, the length of a window or the
ages that validation allows, beyond their being numbers.

`IngestionInv` has two parts. `AccessInv`, which is treated first, with the steps of
`Access`, has the locks (`LocksExclude`) and for each request what it has found under the
locks it holds (`Knows`): the role of its actor, its target, and, for one that takes an
owner away, the owner it has counted and locked beside. Without that last part
`OwnerRemains` is not inductive, since the write comes statements after the count.
`CallsInv` says that the answers a call has collected agree with the rows that are
committed and with those it has inserted itself, and that rows not yet committed exclude
each other. `RateInv` relates the rows of the windows to the history: as long as nobody can
have deleted the row of a window, `served` is at most what `window` has counted. `KeysInv` says
that a call which has written refers to its key, and that a key that is locked has no such
calls (`referring`).

`EveryCallEnds` is model-checked only.

## Billing: `Pricing`, `Catalog`, `Subscriptions`, `Simulations`, `MCSimulations`, `SimulationsProofs`

### Correspondence

| Model | Code |
|---|---|
| `Graduated`, `IncludedOverage`, `PerUnit`, `Flat`, `Line` | `packages/pricing-engine` on integers; half away from zero |
| `PeriodAt`, `AfterMonths` | `packages/domain/src/billing-period.ts` on a calendar of days |
| `plan`, `version`, `meter`, `meterVersion`, `feature`, `subject` | the statuses of these rows; `subject` the customer of each subject |
| `rebuild` | the rebuild jobs that publishing a meter version queues |
| `request[r]` | a transaction: the rows it has yet to lock, those it has locked, what it has read |
| `Receive`, `Take` | the request and its locking query, row after row in the order of the tables |
| `CreateMeter` to `AttachSubject` | the handlers of the meter, feature, plan and customer repositories |
| `subscription`, `entitlement`, `renewal` | subscriptions, the entitlements with their periods, and the refresh jobs |
| `LookAtVersion`, `Subscribe` | `createSubscription`: the reads, then the writes under the exclusion constraint and the unique keys |
| `Cancel` | `cancelSubscription` with the clipping of entitlements |
| `Configure` | `configure`, with its overlap check |
| `ClaimRenewal`, `ReadSubscription`, `Refresh`, `Settle`, `Exhaust`, `RetryRenewal` | a refresh job: claim, the locked subscription, the insertion of the next cycle and of the next job, the outcome, and an operator |
| `simulation` | what a simulation pinned, its status, results and summary |
| `LookAtPlans`, `Simulate` | `createSimulation` |
| `ClaimSimulation`, `LoadDefinitions`, `ReadBatch`, `CompleteRun`, `FailRun` | the simulation runner |
| `Store`, `Redact` | an event that commits, and retention, for what a run may read |

Definitions of versions do not change once they exist (triggers enforce it for published
ones), so they are constants of a setting; a version is its number, which is given under
the lock of the plan. A row that refers to another waits while somebody holds that one
(`Free` at the write). Who may manage a catalog is a check of the role resolved before
(see `Access`). Attempts and leases of the jobs are those of `JobQueue`: a job may be
claimed twice here, and may be `exhausted`.

Aggregation is the sum of the values of the events a meter version selects by type;
counting is the sum of ones. Left out are grants and allowances, which begin and end with
their entitlement, the limit of 500 customers, rounding of percentages, two warnings that
are functions of the amounts, the calculation hash and trace. The
refresher refuses a moment that starts no period; the model does so too (`ReadSubscription`),
and no chain of renewals gets there.

### Properties and runs

`billing` (about 335,000 states) checks, in three groups of settings:

* `PublishedMeterVersionsDoNotOverlap`: two published versions of a meter are never in
  force at one moment, however they are published at once. The lock of the meter is
  what excludes it.
* `EntitlementsFitSubscription`: an entitlement of a subscription begins with it or on an
  anniversary of its anchor (the last day of a month that is too short), and does not run
  across its end; and no step makes one that begins at the end or later. What does begin
  there was made before a cancellation that moved the end.
* `RenewalsContinue`: a subscription entitles at every moment of the term that was sold until
  the next renewal that is queued or has failed: no commit, conflict or repetition breaks the
  chain unseen. A renewal fails only when somebody else has entitled the customer to one of its
  features from the same day on (`Forestalled`); what an earlier attempt of its own has made
  is no reason.
* `SimulationsAreExact`: a completed simulation has a result for each customer it was
  asked for; each amount is the fair price of the snapshot that the watermark pins, and
  the summary adds them up. The fair price is the reference definition of the pricing
  engine: unit after unit at the rate of its tier, and the nearest minor unit. The
  snapshot is stated from what was stored when the request came: those events are counted
  unless they were corrected, others only if received at the watermark or before, and
  never beside their correction.

### Bounds

Two requests at a time: each hazard is a pair of transactions. Three meter versions of
which the outer ones touch and the middle one overlaps both. Months of 2, 1, 2, 2 and 2
days: an anchor on the second day meets a month that has none, and the next one that has.
Two subscriptions share a slot, and entitlements by hand meet one of a whole period and
one in part. The simulations have two customers in batches of one (25 in the code), so
that events and definitions change between two batches, three events of which one is a
correction, values on and between the bounds of three tiers, and components in halves of
the minor unit. `MaxLag = 1` lets an event commit with a receive time before the watermark.

All properties are of safety; no fairness is assumed. `Abort` stands for refusals, lost
connections and the victims of deadlocks.

### Proofs

`SimulationsProofs` proves for all sets of rows, requests and events, every setting, calendar
and batch size:

* `LinesAreFair`: for every valid price, every quantity and every fraction of a minor unit,
  what the engine computes for a component is what its units cost one after the other,
  rounded once to the nearest minor unit, a half away from zero.
* `TypeCorrect`: the types of all tables of the four modules.
* `VersionsDoNotOverlap`: `PublishedMeterVersionsDoNotOverlap` in every state.
* `EntitlementsFit`: `EntitlementsFitSubscription`, of every state and every step.
* `ChainsContinue`: `RenewalsContinue` in every state.
* `CompletedAreExact`: `SimulationsAreExact` in every state.

The assumptions are those of the schemas and the tables: definitions are such as requests may
send (`PriceDefinition`, `VersionDefinition`, `SaleDefinition`, `SimulationDefinition`,
`UsageDefinition`, `AskDefinition` with the families of requests it consists of), what there is to begin with was created by such requests,
too (`BeginsWell`), ids of different tables differ, and the calendar goes a month further
than the clock and the sales (`CalendarAssumption`): the code has no last month.

`LinesAreFair` is about a fold over the tiers. It is proved by two inductions, on the tiers
and on the quantity, each as a least counterexample: `IsWalk` relates the fold to its
intermediate states, `WalkState` says what they are, and `OneMoreUnit` that one more unit
costs the rate of the tier it lies in (`Reaches`).

`TypeInv` says beside the types what a request may rely on when it writes: it has in `locks`,
or will lock before it reads, the row that excludes its rivals (`Keeps`), what it has read has
its type (`ReadOK`), and the rows it refers to are there (`Refers`), since none is deleted
(`Grows`). A version has valid prices from its creation on (`LinksOK`), and so the amounts of
a simulation are numbers.

`OverlapInv` adds to the property that a request which has looked for overlaps, and found
none, still would: its meter is locked, and publications of other meters do not overlap.

`RenewalInv` strengthens `RenewalsContinue` to `Linked`: from the start of a subscription on,
and from the moment of each of its jobs on, every moment is covered or a job that is not done
is due in between. A job that is done must not be counted on any more: a refresh that has
committed, and has yet to report, says that what follows its moment is linked without it
(`RefreshOK`), and only then may `Settle` mark the job. A refresh that has read the end of the
subscription keeps the lock, so that a cancellation cannot move that end before the
entitlements are there; this is what `EntitlementsFit` needs as well. `CycleInv` adds that every
job, and every refresh on its way, is on an anniversary, that a refresh which goes on begins
before the end it has read, and that one which has failed was forestalled (`CycleOK`, `JobOK`);
that the next cycle begins on an anniversary again is a lemma about months of any lengths
(`MonthsAreAnniversaries`). That the period read
contains the moment, and the next begins where it ends, is a lemma about the calendar
(`PeriodContains`), for anchors in months of any lengths.

`ExactInv` says of a run which customers have a result already, and that each of these
counts the snapshot (`CountsAt`) and is priced fairly (`FairResult`). A result stays good
although events keep coming: what is stored keeps the moment of its receipt (`Accrues`), what
was known when the watermark was taken had been received by then (`PinsWell`), and the
definitions of the version do not change. A run that fails keeps nothing.

## Processes and retention: `Runtime`, `Retention`, `MCRetention`, `RetentionProofs`

### Correspondence

| Model | Code |
|---|---|
| `stage[p]`, `attached[p]`, `errors[p]` | how far a process is, which signals it handles, which steps of its start or stop have thrown |
| `Start`, `Listen`, `StartFails` | `main` of the two entry points with `bootstrapServer` and `startServer`, or `bootstrapWorker`, up to serving |
| `Handle`, `Kill` | a signal with a handler, and one without, or a crash |
| `StopListener`, `LeaveLoop`, `CloseDatabase`, `ExitStatus` | the orderly stop |
| `policy`, `request[r]` | the policy row with its version; a request that updates it |
| `jobs`, `run[w]` | the enforcement jobs in order of insertion; where a worker is in its loop and in its job |
| `Receive`, `LockPolicy`, `UpdatePolicy` | `updatePolicy`, with the first scan it queues |
| `Poll`, `Claim`, `Settle`, `SettleThrows`, `Lapse` | the queue, in the detail this needs; the rest is `JobQueue` |
| `LookAtPolicy`, `Enforce`, `Interrupt`, `Break` | a scan: the lock and look at the policy, then the batch, the redaction, the next scan and the commit, or a stop in between |
| `Process`, `Hold` | an event is processed; a correction has its row locked |
| `Cut` | a process that ends takes its transactions with it |

The server detaches both of its handlers at the first signal, so that a second one kills
it; the worker detaches only the handler that has run. A listener that stops waits for its
requests, which is Bun's part; closing the database waits for five seconds and then cuts
what runs. A scan skips rows that are locked. Time counts in days, audit rows are left
out, and the role check is that of `Access`.

### Properties and runs

`retention` (96,000 states, six settings):

* `ScansContinue`: while a policy is in force, its version has exactly one next scan,
  which is open or has failed where an operator sees it. No repeated, interrupted or
  overtaken scan ends the chain or splits it.
* `RedactionsObeyPolicy`: an event loses its properties only when processed, as old as the
  policy in force at that moment says, and not while a correction looks at it.
* `ExpiredEventsAreRedacted`: an expired event is redacted in the end, with batches, locked
  rows, stops and deaths in between, unless the next scan has failed for good, is due after
  the end of the clock, or no worker serves.
* `GracefulExitsLoseNothing`: a server that exits with status zero has answered every
  request it had received.

### Bounds

One server, two workers, two requests and two events. A second worker is what can take
over a lease or scan in parallel; two requests change a policy twice, or end it; two
events with `BatchSize = 1` are a full batch and the rest. `MaxAttempts = 2` gives a retry
and a job that fails for good. A setting bounds the signals, the faults (two at most:
a lease lost by a slow scan and a failure) and the clock (two days: an event expires and is
scanned for again).

### Fairness

Time passes; what a process has begun to stop goes on; each request and each worker is
served whenever it can again and again, since PostgreSQL wakes those who wait for the
policy row in turn (strong fairness); corrections commit; the lease of a job nobody
executes runs out. Nobody has to start a process, send a request or lock an event.

### Proofs

`RetentionProofs` proves for all sets of events, requests, servers and workers, every
setting and all bounds, from `RetentionAssumption` and `RuntimeAssumption`:

* `TypeCorrect`: the types. A job follows one that was queued before it.
* `ChainContinues`: `ScansContinue` in every state.
* `RedactionsAreDue`: `RedactionsObeyPolicy` of every step.
* `ExitsAreGraceful`: `GracefulExitsLoseNothing` in every state.

`RetentionInv` is `ScanInv` and `LifeInv`. `ScanInv` follows the chain through the two
transactions of a scan: the end of the chain may be a job whose successor is stored in the
same step in which it is done with, a repeated scan must find that successor, and what a
worker has compared of the policy stays so while it holds the row. `LifeInv` says what has
become of the requests of each server: none is lost before the server has exited (closing
its database may cut it), and once its listener has stopped without an error all of them
are answered, whichever signals come.

`ExpiredEventsAreRedacted` is model-checked only.

## Findings

Eight disagreements were met on the way. Three have a
violation run: `jobqueue_fencing`, `usage_race` and `preview_watermark`. The repair and
the late event after retention are described with `UsageAggregation` above. Three more
are part of a model as the code does them, and the properties are stated around them:

* `correct` looks for a correction by its key before it locks the corrected event. The
  copy of a correction in flight is told `already_corrected`, a conflict, although the
  same request is stored (`LookUpCorrection`, `LockCorrected`). `AnswersAreTrue` allows
  for it: the answer is true, it is only not the idempotent one.
* `cancelSubscription` accepts an end later than the one sold. It extends the
  subscription and not its entitlements (`Cancel`); `RenewalsContinue` counts the term
  that was sold.
* `increasedCount` of a simulation counts customers whose price does not change, which
  `unchangedCount` counts as well (`Summarize`).

## Not modelled

* **Configuration, observability and shared contracts**: schemas, logging and metrics.
  The limits they set are constants of the models.
* **Web dashboard**: a React client of the HTTP API without state the system depends on.
* **HTTP layer, identity and OpenAPI**: only the order of the middlewares that a call
  passes (`Ingestion`). Parsing, cross-site checks, the sessions of the identity library
  and the generated document keep no state that others rely on.
* **TypeScript SDK**: it sends one request and parses the answer. It has no retries, so
  what it contributes are copies that its caller sends (`Send`).
* **Usage queries and lists**: reads without effect.
* **Quota**: advisory and boolean entitlements, which have no balance to keep; several
  entitlements of one customer, which do not meet.
* **Aggregation and reconciliation**: decimals, dimensions, the overlap of an hour with
  the interval of a meter version; the findings and hashes of a run, which nothing reads
  back.
* **Previews**: several series of one customer, which meet in nothing but the events.
* **Audit rows**: written in the transaction they report on, read by people only.

Out of reach of the proofs is liveness (`EveryJobSettles`, `DueReservationsSettle`,
`AcceptedEventsSettle`, `RevisionsSettle`, `EveryCallEnds`, `ExpiredEventsAreRedacted`), which
needs ENABLED of fair actions; it is left to TLC. Every other property of a passing run is
stated by a theorem.
