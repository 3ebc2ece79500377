------------------------------ MODULE JobQueue ------------------------------
(***************************************************************************)
(* The durable job queue: the PostgreSQL table "jobs", the worker          *)
(* processes that lease rows of it, and the operators who restart failed   *)
(* jobs.                                                                   *)
(*                                                                         *)
(* A statement or a transaction of the code is one step; everything a      *)
(* process does between two of them (its handler, its catch block, its     *)
(* polling loop) interleaves with every other process.  The rows' locks    *)
(* are held only inside one transaction, so the rows SKIP LOCKED passes    *)
(* over are those of a transaction that serialises before or after.        *)
(*                                                                         *)
(* Time.  A timestamp t of the table is kept as the countdown t - now, and *)
(* a clock value a process has read but not yet used as its age, the lag.  *)
(* Tick lets one unit pass.  All hosts share one clock.                    *)
(***************************************************************************)
EXTENDS Integers, FiniteSets

CONSTANTS
  Jobs,              \* rows of the table, by (type, resource): the unique key
  Workers,           \* worker ids; a process that restarts takes a new one
  Operators,         \* owners and admins who restart failed jobs
  NoWorker,          \* the null of lease_owner
  NoReview,          \* an operator who has not looked at a failed job
  ClaimLimit,        \* JOB_CLAIM_LIMIT
  LeaseDuration,     \* JOB_LEASE_DURATION_MS, in ticks
  MaxAttempts,       \* JOB_MAX_ATTEMPTS
  BaseDelay,         \* JOB_RETRY_BASE_DELAY_MS, in ticks
  MaxDelay,          \* JOB_RETRY_MAX_DELAY_MS, in ticks
  MaxManualRetries,  \* MAX_MANUAL_JOB_RETRIES
  StartDelays,       \* how far ahead a producer may schedule a new job
  MaxLag,            \* bound: ticks between reading the clock and the statement
  MaxOverruns,       \* bound: ticks on which some handler outlives its lease
  MaxStops,          \* bound: worker processes that crash or shut down
  MaxErrors,         \* bound: failures of the claim or complete statement
  MaxSettleErrors    \* bound: failures of the retry or fail statement

\* What the configuration of a worker is checked for.
Configured ==
  /\ {ClaimLimit, LeaseDuration, MaxAttempts, BaseDelay, MaxDelay} \subseteq Nat \ {0}
  /\ BaseDelay <= MaxDelay

ASSUME ConstantsAssumption ==
  /\ NoWorker \notin Workers
  /\ Configured
  /\ MaxManualRetries \in Nat
  /\ StartDelays \subseteq Nat
  /\ MaxLag \in Nat /\ MaxOverruns \in Nat /\ MaxStops \in Nat
  /\ MaxErrors \in Nat /\ MaxSettleErrors \in Nat

VARIABLES
  row,          \* the table
  running,      \* the executeJob calls in flight, over all processes
  loop,         \* where each process's polling loop is
  pollLag,      \* age of the pollTime a polling loop has read
  review,       \* the failure each operator has on screen
  claims,       \* history: how many times each row was claimed
  failures,     \* history: how many times each row failed
  handled,      \* history: jobs whose handler has returned normally
  overruns, stops, errors, settleErrors   \* what the bounds count

faults == <<overruns, stops, errors, settleErrors>>
history == <<claims, failures, handled>>
vars == <<row, running, loop, pollLag, review, history, faults>>

-----------------------------------------------------------------------------
(* State *)

Status == {"absent", "pending", "processing", "completed", "failed"}

\* last_error and failure_retryable together: both null, or an error and its class.
Failure == {"none", "retryable", "permanent"}

Row == [status: Status, attempts: Nat, manualRetries: 0..MaxManualRetries,
        owner: Workers \union {NoWorker}, leaseLeft: Int, dueIn: Int,
        failure: Failure]

\* One call of executeJob.  claim names the lease it was started for, attempt is
\* the attempt_count it was given; phase is the step it takes next.  awaited says
\* that its polling loop still waits for it in Promise.all.
Execution == [worker: Workers, job: Jobs, claim: Nat, attempt: Nat,
              phase: {"dispatch", "complete", "retry", "fail"},
              failure: Failure, lag: Nat, lease: Int, awaited: BOOLEAN]

\* The generation an operator acknowledges; seen is the failure it was read from.
Review == [job: Jobs, attempts: Nat, failure: Failure, manualRetries: Nat,
           seen: Nat]

TypeOK ==
  /\ row \in [Jobs -> Row]
  /\ running \subseteq Execution
  /\ loop \in [Workers -> {"idle", "polled", "asleep", "down"}]
  /\ pollLag \in [Workers -> Nat]
  /\ review \in [Operators -> Review \union {NoReview}]
  /\ claims \in [Jobs -> Nat] /\ failures \in [Jobs -> Nat]
  /\ handled \subseteq Jobs
  /\ overruns \in Nat /\ stops \in Nat /\ errors \in Nat /\ settleErrors \in Nat

Init ==
  /\ row = [j \in Jobs |->
             [status |-> "absent", attempts |-> 0, manualRetries |-> 0,
              owner |-> NoWorker, leaseLeft |-> 0, dueIn |-> 0,
              failure |-> "none"]]
  /\ running = {}
  /\ loop = [w \in Workers |-> "idle"]
  /\ pollLag = [w \in Workers |-> 0]
  /\ review = [o \in Operators |-> NoReview]
  /\ claims = [j \in Jobs |-> 0] /\ failures = [j \in Jobs |-> 0]
  /\ handled = {}
  /\ overruns = 0 /\ stops = 0 /\ errors = 0 /\ settleErrors = 0

-----------------------------------------------------------------------------
(* Producers *)

\* A request or a handler inserts a job in its own transaction; the unique key
\* (organization, type, resource) with ON CONFLICT DO NOTHING makes a second
\* insert for the same resource a no-op, whatever became of the first.
Enqueue(j) ==
  /\ row[j].status = "absent"
  /\ \E delay \in StartDelays :
       row' = [row EXCEPT ![j].status = "pending", ![j].dueIn = delay]
  /\ UNCHANGED <<running, loop, pollLag, review, history, faults>>

-----------------------------------------------------------------------------
(* The polling loop of a worker *)

\* Promise.all: the loop goes on when every execution it waits for has ended.
BatchDone(w) == \A e \in running : e.worker = w => ~e.awaited

\* The top of the loop: pollTime = now(), then the inspect queries.
Poll(w) ==
  /\ loop[w] = "idle" /\ BatchDone(w)
  /\ loop' = [loop EXCEPT ![w] = "polled"]
  /\ pollLag' = [pollLag EXCEPT ![w] = 0]
  /\ UNCHANGED <<row, running, review, history, faults>>

\* Mutation: rows whose lease ran out are never offered again.
AvailablePendingOnly(w) ==
  {j \in Jobs : row[j].status = "pending" /\ row[j].dueIn <= -pollLag[w]}

\* next_attempt_at <= pollTime, or lease_expires_at <= pollTime.
Available(w) ==
  {j \in Jobs : \/ row[j].status = "pending" /\ row[j].dueIn <= -pollLag[w]
                \/ row[j].status = "processing" /\ row[j].leaseLeft <= -pollLag[w]}

\* The batches ORDER BY next_attempt_at LIMIT ClaimLimit can return.  Rows that are
\* overdue by more than MaxLag are not told apart, nor are equal due times
\* (created_at and id break the tie in the code).
Batches(w) ==
  {batch \in SUBSET Available(w) :
     /\ Cardinality(batch) <= ClaimLimit
     /\ batch # Available(w) => Cardinality(batch) = ClaimLimit
     /\ \A j \in batch, k \in Available(w) \ batch : row[j].dueIn <= row[k].dueIn}

\* The UPDATE of the claim transaction.  last_error and failure_retryable stay.
LeaseTo(w, batch) ==
  /\ row' = [j \in Jobs |->
       IF j \in batch
       THEN [row[j] EXCEPT !.status = "processing", !.attempts = @ + 1,
                           !.owner = w, !.leaseLeft = LeaseDuration - pollLag[w]]
       ELSE row[j]]
  /\ claims' = [j \in Jobs |-> IF j \in batch THEN claims[j] + 1 ELSE claims[j]]

StartedBy(w, batch) ==
  {[worker |-> w, job |-> j, claim |-> claims[j] + 1,
    attempt |-> row[j].attempts + 1, phase |-> "dispatch", failure |-> "none",
    lag |-> 0, lease |-> LeaseDuration - pollLag[w], awaited |-> TRUE] : j \in batch}

\* claim() returns: the loop sleeps for the poll interval if nothing is due and
\* dispatches the batch otherwise.
Claim(w) ==
  /\ loop[w] = "polled"
  /\ \E batch \in Batches(w) :
       /\ loop' = [loop EXCEPT ![w] = IF batch = {} THEN "asleep" ELSE "idle"]
       /\ LeaseTo(w, batch)
       /\ running' = running \union StartedBy(w, batch)
  /\ UNCHANGED <<pollLag, review, failures, handled, faults>>

\* inspect() or claim() throws; the loop logs and sleeps.  The transaction may
\* have committed before its answer was lost: the rows are leased to nobody.
ClaimThrows(w) ==
  /\ loop[w] = "polled" /\ errors < MaxErrors
  /\ errors' = errors + 1
  /\ loop' = [loop EXCEPT ![w] = "asleep"]
  /\ \/ UNCHANGED <<row, claims>>
     \/ \E batch \in Batches(w) : LeaseTo(w, batch)
  /\ UNCHANGED <<running, pollLag, review, failures, handled,
                 overruns, stops, settleErrors>>

\* The process is gone, and with it every execution it had in flight.
Leave(w) ==
  /\ stops < MaxStops /\ stops' = stops + 1
  /\ loop' = [loop EXCEPT ![w] = "down"]
  /\ running' = {e \in running : e.worker # w}
  /\ UNCHANGED <<row, pollLag, review, history, overruns, errors, settleErrors>>

\* The abort signal cuts the sleep short and is seen at the top of the loop, after
\* the batch; closing the database then ends whatever an earlier, rejected
\* Promise.all left behind.
Shutdown(w) == loop[w] \in {"idle", "asleep"} /\ BatchDone(w) /\ Leave(w)

Crash(w) == loop[w] # "down" /\ Leave(w)

-----------------------------------------------------------------------------
(* executeJob *)

\* Mutation: an unexpired lease is enough, whoever owns it.
HoldsLeaseOfAnyone(e) ==
  row[e.job].status = "processing" /\ row[e.job].leaseLeft > -e.lag

\* The WHERE clause of complete, fail and retry: the row is processing, leased to
\* this worker id, and the lease outlives the clock value e has read.
HoldsLease(e) ==
  /\ row[e.job].status = "processing"
  /\ row[e.job].owner = e.worker
  /\ row[e.job].leaseLeft > -e.lag

Becomes(e, next) == running' = (running \ {e}) \union {next}

\* Mutation: the attempt that spends the budget is retried too.
CaughtOffByOne(e, failure) ==
  Becomes(e, [e EXCEPT !.failure = failure, !.lag = 0,
                       !.phase = IF failure = "retryable" /\ e.attempt <= MaxAttempts
                                 THEN "retry" ELSE "fail"])

\* The catch block: classify, read the clock, choose between retry and fail.
Caught(e, failure) ==
  Becomes(e, [e EXCEPT !.failure = failure, !.lag = 0,
                       !.phase = IF failure = "retryable" /\ e.attempt < MaxAttempts
                                 THEN "retry" ELSE "fail"])

\* The delays retryDelayMs can draw: half the capped exponential delay, and up to
\* as much again of jitter.
RetryDelays(attempt) ==
  LET exponent == IF attempt - 1 < 30 THEN attempt - 1 ELSE 30
      doubled == BaseDelay * 2^exponent
      capped == IF doubled < MaxDelay THEN doubled ELSE MaxDelay
      half == (capped + 1) \div 2
  IN  {d \in 1..MaxDelay : half <= d /\ d < 2 * half}

\* The three updates an execution may end with, when it holds the lease.
Released(e) == [row[e.job] EXCEPT !.owner = NoWorker, !.leaseLeft = 0]

CompletedRow(e) == [Released(e) EXCEPT !.status = "completed", !.failure = "none"]

RetriedRow(e, delay) ==
  [Released(e) EXCEPT !.status = "pending", !.failure = "retryable",
                      !.dueIn = delay - e.lag]

FailedRow(e) == [Released(e) EXCEPT !.status = "failed", !.failure = e.failure]

\* Mutation: the update finds the row by its id alone.
SetCompleteUnfenced(e) == row' = [row EXCEPT ![e.job] = CompletedRow(e)]

\* UPDATE ... WHERE: no row matches and nothing changes once the lease is lost.
SetComplete(e) ==
  row' = IF HoldsLease(e) THEN [row EXCEPT ![e.job] = CompletedRow(e)] ELSE row

SetRetry(e) ==
  IF HoldsLease(e)
  THEN \E delay \in RetryDelays(e.attempt) :
         row' = [row EXCEPT ![e.job] = RetriedRow(e, delay)]
  ELSE UNCHANGED row

SetFail(e) ==
  IF HoldsLease(e)
  THEN /\ row' = [row EXCEPT ![e.job] = FailedRow(e)]
       /\ failures' = [failures EXCEPT ![e.job] = @ + 1]
  ELSE UNCHANGED <<row, failures>>

HandlerReturns(e) ==
  /\ e.phase = "dispatch"
  /\ Becomes(e, [e EXCEPT !.phase = "complete", !.lag = 0])
  /\ handled' = handled \union {e.job}
  /\ UNCHANGED <<row, loop, pollLag, review, claims, failures, faults>>

\* A JobHandlerError of either class, or any other error (retryable).
HandlerThrows(e) ==
  /\ e.phase = "dispatch"
  /\ \E failure \in {"retryable", "permanent"} : Caught(e, failure)
  /\ UNCHANGED <<row, loop, pollLag, review, history, faults>>

Complete(e) ==
  /\ e.phase = "complete"
  /\ SetComplete(e)
  /\ running' = running \ {e}
  /\ UNCHANGED <<loop, pollLag, review, history, faults>>

\* complete() is inside the try: its error is classified like a handler's, even
\* when the update had been committed.
CompleteThrows(e) ==
  /\ e.phase = "complete" /\ errors < MaxErrors
  /\ errors' = errors + 1
  /\ SetComplete(e) \/ UNCHANGED row
  /\ Caught(e, "retryable")
  /\ UNCHANGED <<loop, pollLag, review, history, overruns, stops, settleErrors>>

Retry(e) ==
  /\ e.phase = "retry"
  /\ SetRetry(e)
  /\ running' = running \ {e}
  /\ UNCHANGED <<loop, pollLag, review, history, faults>>

Fail(e) ==
  /\ e.phase = "fail"
  /\ SetFail(e)
  /\ running' = running \ {e}
  /\ UNCHANGED <<loop, pollLag, review, claims, handled, faults>>

\* retry() or fail() throws out of the catch block: executeJob rejects and so does
\* Promise.all.  The loop logs, sleeps and polls again while the other executions
\* of the batch go on, awaited by nobody.
SettleThrows(e) ==
  /\ e.phase \in {"retry", "fail"} /\ settleErrors < MaxSettleErrors
  /\ settleErrors' = settleErrors + 1
  /\ \/ UNCHANGED <<row, failures>>
     \/ e.phase = "retry" /\ SetRetry(e) /\ UNCHANGED failures
     \/ e.phase = "fail" /\ SetFail(e)
  /\ running' = {IF e.awaited /\ f.worker = e.worker
                 THEN [f EXCEPT !.awaited = FALSE] ELSE f : f \in running \ {e}}
  /\ loop' = IF e.awaited THEN [loop EXCEPT ![e.worker] = "asleep"] ELSE loop
  /\ UNCHANGED <<pollLag, review, claims, handled, overruns, stops, errors>>

-----------------------------------------------------------------------------
(* Operators *)

\* listFailedJobs and findFailedJob show only failed jobs.
Inspect(o, j) ==
  /\ row[j].status = "failed"
  /\ review' = [review EXCEPT ![o] =
       [job |-> j, attempts |-> row[j].attempts, failure |-> row[j].failure,
        manualRetries |-> row[j].manualRetries, seen |-> failures[j]]]
  /\ UNCHANGED <<row, running, loop, pollLag, history, faults>>

Reopen(j) ==
  row' = [row EXCEPT ![j].status = "pending", ![j].attempts = 0,
                     ![j].failure = "none", ![j].dueIn = 0,
                     ![j].manualRetries = @ + 1]

\* Mutation: a retry of any failure with the same attempt count and error is taken.
RetryFailedJobAgain(o) ==
  /\ review[o] # NoReview
  /\ LET j == review[o].job IN
       /\ row[j].status = "failed" /\ row[j].failure = "retryable"
       /\ row[j].attempts = review[o].attempts /\ row[j].failure = review[o].failure
       /\ row[j].manualRetries < MaxManualRetries
       /\ Reopen(j)
  /\ UNCHANGED <<running, loop, pollLag, review, history, faults>>

\* Mutation: the cap on manual retries is not looked at.
RetryFailedJobUncapped(o) ==
  /\ review[o] # NoReview
  /\ LET j == review[o].job IN
       /\ row[j].status = "failed" /\ row[j].failure = "retryable"
       /\ row[j].attempts = review[o].attempts /\ row[j].failure = review[o].failure
       /\ row[j].manualRetries = review[o].manualRetries
       /\ Reopen(j)
  /\ UNCHANGED <<running, loop, pollLag, review, history, faults>>

\* The acknowledged generation must be the row's; anything else is a conflict,
\* not_retryable or retry_limit and changes nothing.  A request may be sent twice.
RetryFailedJob(o) ==
  /\ review[o] # NoReview
  /\ LET j == review[o].job IN
       /\ row[j].status = "failed"
       /\ row[j].failure = "retryable"
       /\ row[j].attempts = review[o].attempts
       /\ row[j].failure = review[o].failure
       /\ row[j].manualRetries = review[o].manualRetries
       /\ row[j].manualRetries < MaxManualRetries
       /\ Reopen(j)
  /\ UNCHANGED <<running, loop, pollLag, review, history, faults>>

-----------------------------------------------------------------------------
(* Time *)

HasClock(e) == e.phase # "dispatch"

\* Rows whose lease runs out on the next tick under an execution still at work.
Overrunning ==
  {j \in Jobs : /\ row[j].status = "processing" /\ row[j].leaseLeft = 1
                /\ \E e \in running : e.job = j /\ e.claim = claims[j]}

CountDown(n) == IF n > -MaxLag THEN n - 1 ELSE n

\* One unit of time, the poll interval: sleeping loops wake up.
Tick ==
  /\ \A w \in Workers : loop[w] = "polled" => pollLag[w] < MaxLag
  /\ \A e \in running : HasClock(e) => e.lag < MaxLag
  /\ Overrunning # {} => overruns < MaxOverruns
  /\ overruns' = IF Overrunning # {} THEN overruns + 1 ELSE overruns
  /\ row' = [j \in Jobs |->
       [row[j] EXCEPT !.dueIn = CountDown(@),
                      !.leaseLeft = IF row[j].status = "processing"
                                    THEN CountDown(@) ELSE @]]
  /\ pollLag' = [w \in Workers |->
       IF loop[w] = "polled" THEN pollLag[w] + 1 ELSE pollLag[w]]
  /\ running' = {[e EXCEPT !.lag = IF HasClock(e) THEN @ + 1 ELSE @,
                           !.lease = CountDown(@)] : e \in running}
  /\ loop' = [w \in Workers |-> IF loop[w] = "asleep" THEN "idle" ELSE loop[w]]
  /\ UNCHANGED <<review, history, stops, errors, settleErrors>>

-----------------------------------------------------------------------------
(* Specification *)

\* The next step of one execution that does not fail in the database.
Advance(e) ==
  \/ HandlerReturns(e)
  \/ HandlerThrows(e)
  \/ Complete(e)
  \/ Retry(e)
  \/ Fail(e)

Next ==
  \/ \E j \in Jobs : Enqueue(j)
  \/ \E w \in Workers : Poll(w) \/ Claim(w) \/ ClaimThrows(w) \/ Shutdown(w) \/ Crash(w)
  \/ \E e \in running : Advance(e) \/ CompleteThrows(e) \/ SettleThrows(e)
  \/ \E o \in Operators : RetryFailedJob(o) \/ \E j \in Jobs : Inspect(o, j)
  \/ Tick

Spec == Init /\ [][Next]_vars

\* Time passes, an idle loop polls, a polled loop gets its answer and a handler
\* ends.  Nothing else is owed: not a request, not a failure, not an operator.
Fairness ==
  /\ WF_vars(Tick)
  /\ \A w \in Workers : WF_vars(Poll(w)) /\ WF_vars(Claim(w))
  /\ \A w \in Workers, j \in Jobs :
       WF_vars(\E e \in running : e.worker = w /\ e.job = j /\ Advance(e))

FairSpec == Spec /\ Fairness

-----------------------------------------------------------------------------
(* Properties *)

\* The CHECK constraints of the table: a row that broke one would make every
\* statement of its transaction fail.  A row has an owner exactly while it is
\* processing, and a settled row shows a failure exactly when it failed.
TableChecks ==
  \A j \in Jobs :
    /\ row[j].status = "processing" <=> row[j].owner # NoWorker
    /\ row[j].status = "completed" => row[j].failure = "none"
    /\ row[j].status = "failed" => row[j].failure # "none"

\* Two handlers never work on one job while both were told that they hold its
\* lease: a second execution starts only after the first one's lease ran out or
\* its outcome was recorded.  The database fences by worker id, so this needs
\* every process to wait for its own executions before it claims again.
LeaseIsExclusive ==
  \A e, f \in running :
    e.job = f.job /\ e.lease > 0 /\ f.lease > 0 => e = f

\* An execution whose lease ran out and was claimed again cannot record its outcome
\* any more: the row belongs to the later claim, whichever process made it.
FormerOwnerIsRejected ==
  [][\A e \in running :
       /\ e.claim # claims[e.job]
       /\ \A f \in running' : f.job = e.job => f.claim # e.claim
       => row'[e.job] = row[e.job]]_vars

\* The automatic budget: a job waits for another attempt only if it has one left,
\* and is handed to the operators as retryable only once it has none.
AttemptBudget ==
  \A j \in Jobs :
    /\ row[j].status = "pending" => row[j].attempts < MaxAttempts
    /\ row[j].status = "failed" /\ row[j].failure = "retryable"
         => row[j].attempts >= MaxAttempts

\* A job is recorded as completed only if its handler did return: neither a lost
\* lease nor a statement that failed half way completes a job nobody carried out.
CompletedWasHandled ==
  \A j \in Jobs : row[j].status = "completed" => j \in handled

\* An outcome is final.  No late execution, second claim or operator changes a
\* completed job or one that failed for good, and a retryable failure is reopened
\* only by an operator, which starts a new generation.
OutcomeIsFinal ==
  [][\A j \in Jobs :
       /\ row[j].status = "completed" \/ row[j].failure = "permanent"
            => row'[j].status = row[j].status
       /\ row[j].status = "failed" /\ row'[j].status # "failed"
            => row'[j].manualRetries = row[j].manualRetries + 1]_vars

\* An operator restarts the failure it looked at: an old screen, or a request sent
\* twice, never restarts a later failure of the same job, even when that one has
\* the same attempt count and error code.
OperatorRetriesWhatItSaw ==
  [][\A o \in Operators :
       RetryFailedJob(o) => review[o].seen = failures[review[o].job]]_vars

-----------------------------------------------------------------------------
(* What the queue promises, whatever the workers do *)

Outcome(j) ==
  IF row[j].status \in {"pending", "processing"} THEN "open"
  ELSE IF row[j].status = "failed" THEN row[j].failure
  ELSE row[j].status

Lifecycle == INSTANCE JobLifecycle
  WITH outcome <- [j \in Jobs |-> Outcome(j)],
       generation <- [j \in Jobs |-> row[j].manualRetries],
       MaxGenerations <- MaxManualRetries

\* Seen from outside, a job settles once per generation and is reopened only after
\* a retryable failure, no more often than the cap: leases, takeovers and retries
\* are invisible.
ImplementsLifecycle == Lifecycle!Spec

\* Every job is eventually settled, although workers crash or stop while holding
\* leases, handlers outlive their lease and outcomes are lost: finitely often
\* each, and never with the last worker.
EveryJobSettles == Lifecycle!FairSpec
=============================================================================
