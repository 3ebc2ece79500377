--------------------------- MODULE JobQueueProofs ---------------------------
(* Theorems about JobQueue, for every set of jobs, workers and operators and *)
(* every value of the limits.                                                *)
EXTENDS JobQueue, TLAPS

-----------------------------------------------------------------------------
(* Type correctness *)

LEMMA InitType == Init => TypeOK
  BY ConstantsAssumption DEF Configured, Init, TypeOK, Row, Status, Failure

\* Updating fields of an execution or of a row with values of the fields' types
\* gives an execution or a row: one lemma for each shape of update.
LEMMA CatchUpdate ==
  ASSUME NEW e \in Execution, NEW f \in Failure,
         NEW p \in {"dispatch", "complete", "retry", "fail"}
  PROVE  [e EXCEPT !.failure = f, !.lag = 0, !.phase = p] \in Execution
  BY DEF Execution

LEMMA TickUpdate ==
  ASSUME NEW e \in Execution, NEW n \in Nat, NEW l \in Int
  PROVE  [e EXCEPT !.lag = n, !.lease = l] \in Execution
  BY DEF Execution

LEMMA ReturnUpdate ==
  ASSUME NEW e \in Execution
  PROVE  [e EXCEPT !.phase = "complete", !.lag = 0] \in Execution
  BY DEF Execution

LEMMA AbandonUpdate ==
  ASSUME NEW e \in Execution
  PROVE  [e EXCEPT !.awaited = FALSE] \in Execution
  BY Zenon DEF Execution

LEMMA ReleaseUpdate ==
  ASSUME NEW r \in Row, NEW o \in Workers \union {NoWorker}, NEW l \in Int
  PROVE  [r EXCEPT !.owner = o, !.leaseLeft = l] \in Row
  BY DEF Row

LEMMA SettleUpdate ==
  ASSUME NEW r \in Row, NEW s \in Status, NEW f \in Failure
  PROVE  [r EXCEPT !.status = s, !.failure = f] \in Row
  BY DEF Row

LEMMA RescheduleUpdate ==
  ASSUME NEW r \in Row, NEW s \in Status, NEW f \in Failure, NEW d \in Int
  PROVE  [r EXCEPT !.status = s, !.failure = f, !.dueIn = d] \in Row
  BY DEF Row

LEMMA AgeUpdate ==
  ASSUME NEW r \in Row, NEW d \in Int, NEW l \in Int
  PROVE  [r EXCEPT !.dueIn = d, !.leaseLeft = l] \in Row
  BY DEF Row

LEMMA LeaseUpdate ==
  ASSUME NEW r \in Row, NEW w \in Workers, NEW a \in Nat, NEW l \in Int
  PROVE  [r EXCEPT !.status = "processing", !.attempts = a, !.owner = w,
                   !.leaseLeft = l] \in Row
  BY DEF Row, Status

LEMMA ScheduleUpdate ==
  ASSUME NEW r \in Row, NEW d \in Int
  PROVE  [r EXCEPT !.status = "pending", !.dueIn = d] \in Row
  BY DEF Row, Status

LEMMA CaughtType ==
  ASSUME NEW e \in Execution, NEW failure \in {"retryable", "permanent"}, TypeOK,
         Caught(e, failure)
  PROVE  running' \subseteq Execution
  <1> DEFINE p == IF failure = "retryable" /\ e.attempt < MaxAttempts
                  THEN "retry" ELSE "fail"
  <1>1. p \in {"dispatch", "complete", "retry", "fail"} /\ failure \in Failure
    BY DEF Failure
  <1>2. [e EXCEPT !.failure = failure, !.lag = 0, !.phase = p] \in Execution
    <2> HIDE DEF p
    <2>. QED BY <1>1, CatchUpdate
  <1>. QED
    BY <1>2 DEF TypeOK, Caught, Becomes

LEMMA DelayType == \A attempt : RetryDelays(attempt) \subseteq Int
  BY ConstantsAssumption DEF Configured, RetryDelays

LEMMA SettledRowType ==
  ASSUME TypeOK, NEW e \in running
  PROVE  /\ SetComplete(e) => row' \in [Jobs -> Row]
         /\ SetRetry(e) => row' \in [Jobs -> Row]
         /\ SetFail(e) => row' \in [Jobs -> Row] /\ failures' \in [Jobs -> Nat]
  <1>1. e \in Execution /\ row[e.job] \in Row
    BY DEF TypeOK, Execution
  <1>2. Released(e) \in Row
    <2>1. NoWorker \in Workers \union {NoWorker} /\ 0 \in Int
      OBVIOUS
    <2>. QED BY <1>1, <2>1, ReleaseUpdate DEF Released
  <1>3. CompletedRow(e) \in Row
    <2>1. "completed" \in Status /\ "none" \in Failure
      BY DEF Status, Failure
    <2>. QED BY <1>2, <2>1, SettleUpdate DEF CompletedRow
  <1>4. ASSUME NEW delay \in RetryDelays(e.attempt)
        PROVE  RetriedRow(e, delay) \in Row
    <2>1. "pending" \in Status /\ "retryable" \in Failure
      BY DEF Status, Failure
    <2>2. delay - e.lag \in Int
      BY <1>1, DelayType DEF Execution
    <2>. QED BY <1>2, <2>1, <2>2, RescheduleUpdate DEF RetriedRow
  <1>8. FailedRow(e) \in Row
    <2>1. "failed" \in Status /\ e.failure \in Failure
      BY <1>1 DEF Status, Execution
    <2>. QED BY <1>2, <2>1, SettleUpdate DEF FailedRow
  <1>5. SetComplete(e) => row' \in [Jobs -> Row]
    BY <1>1, <1>3 DEF SetComplete, TypeOK
  <1>6. SetRetry(e) => row' \in [Jobs -> Row]
    BY <1>1, <1>4 DEF SetRetry, TypeOK
  <1>7. SetFail(e) => row' \in [Jobs -> Row] /\ failures' \in [Jobs -> Nat]
    BY <1>1, <1>8 DEF SetFail, TypeOK, Execution
  <1>. QED
    BY <1>5, <1>6, <1>7

LEMMA LeaseToType ==
  ASSUME TypeOK, NEW w \in Workers, NEW batch \in Batches(w), LeaseTo(w, batch)
  PROVE  /\ row' \in [Jobs -> Row]
         /\ claims' \in [Jobs -> Nat]
         /\ StartedBy(w, batch) \subseteq Execution
  <1>1. batch \subseteq Jobs
    BY DEF Batches, Available
  <1>2. LeaseDuration - pollLag[w] \in Int
    BY ConstantsAssumption DEF Configured, TypeOK
  <1>3. ASSUME NEW j \in Jobs
        PROVE  [row[j] EXCEPT !.status = "processing", !.attempts = @ + 1,
                              !.owner = w, !.leaseLeft = LeaseDuration - pollLag[w]] \in Row
    <2>1. row[j] \in Row /\ row[j].attempts + 1 \in Nat
      BY DEF TypeOK, Row
    <2>. QED BY <1>2, <2>1, LeaseUpdate
  <1>4. row' \in [Jobs -> Row]
    <2>1. row \in [Jobs -> Row]
      BY DEF TypeOK
    <2>. QED BY <1>3, <2>1 DEF LeaseTo
  <1>5. claims' \in [Jobs -> Nat]
    <2>1. claims \in [Jobs -> Nat]
      BY DEF TypeOK
    <2>2. claims' = [j \in Jobs |-> IF j \in batch THEN claims[j] + 1 ELSE claims[j]]
      BY DEF LeaseTo
    <2>. QED BY <2>1, <2>2
  <1>6. StartedBy(w, batch) \subseteq Execution
    <2> SUFFICES ASSUME NEW j \in batch
                 PROVE  [worker |-> w, job |-> j, claim |-> claims[j] + 1,
                         attempt |-> row[j].attempts + 1, phase |-> "dispatch",
                         failure |-> "none", lag |-> 0,
                         lease |-> LeaseDuration - pollLag[w],
                         awaited |-> TRUE] \in Execution
      BY DEF StartedBy
    <2>1. row[j].attempts \in Nat /\ claims[j] \in Nat
      BY <1>1 DEF TypeOK, Row
    <2>. QED
      BY <1>1, <1>2, <2>1 DEF Execution, Failure
  <1>. QED
    BY <1>4, <1>5, <1>6

LEMMA NextType == TypeOK /\ [Next]_vars => TypeOK'
  <1> SUFFICES ASSUME TypeOK, [Next]_vars PROVE TypeOK'
    OBVIOUS
  <1>1. ASSUME NEW j \in Jobs, Enqueue(j) PROVE TypeOK'
    <2>1. PICK delay \in StartDelays :
            row' = [row EXCEPT ![j].status = "pending", ![j].dueIn = delay]
      BY <1>1 DEF Enqueue
    <2>2. [row[j] EXCEPT !.status = "pending", !.dueIn = delay] \in Row
      <3>1. row[j] \in Row /\ delay \in Int
        BY ConstantsAssumption DEF Configured, TypeOK
      <3>. QED BY <3>1, ScheduleUpdate
    <2>3. row' \in [Jobs -> Row]
      BY <2>1, <2>2 DEF TypeOK
    <2>. QED
      BY <1>1, <2>3 DEF Enqueue, TypeOK, history, faults
  <1>2. ASSUME NEW w \in Workers, Poll(w) PROVE TypeOK'
    BY <1>2 DEF Poll, TypeOK, history, faults
  <1>3. ASSUME NEW w \in Workers, Claim(w) PROVE TypeOK'
    <2>1. PICK batch \in Batches(w) :
            /\ loop' = [loop EXCEPT ![w] = IF batch = {} THEN "asleep" ELSE "idle"]
            /\ LeaseTo(w, batch)
            /\ running' = running \union StartedBy(w, batch)
      BY <1>3 DEF Claim
    <2>2. row' \in [Jobs -> Row] /\ claims' \in [Jobs -> Nat]
            /\ running' \subseteq Execution
      BY <2>1, LeaseToType DEF TypeOK
    <2>. QED
      BY <1>3, <2>1, <2>2 DEF Claim, TypeOK, faults
  <1>4. ASSUME NEW w \in Workers, ClaimThrows(w) PROVE TypeOK'
    <2>1. row' \in [Jobs -> Row] /\ claims' \in [Jobs -> Nat]
      BY <1>4, LeaseToType DEF ClaimThrows, TypeOK
    <2>. QED
      BY <1>4, <2>1 DEF ClaimThrows, TypeOK
  <1>5. ASSUME NEW w \in Workers, Leave(w) PROVE TypeOK'
    BY <1>5 DEF Leave, TypeOK, history
  <1>6. ASSUME NEW e \in running, HandlerReturns(e) PROVE TypeOK'
    <2>1. e \in Execution /\ e.job \in Jobs
      BY DEF TypeOK, Execution
    <2>2. [e EXCEPT !.phase = "complete", !.lag = 0] \in Execution
      BY <2>1, ReturnUpdate
    <2>. QED
      BY <1>6, <2>1, <2>2 DEF HandlerReturns, Becomes, TypeOK, faults
  <1>7. ASSUME NEW e \in running, HandlerThrows(e) PROVE TypeOK'
    <2>1. running' \subseteq Execution
      BY <1>7, CaughtType DEF HandlerThrows, TypeOK
    <2>. QED
      BY <1>7, <2>1 DEF HandlerThrows, TypeOK, history, faults
  <1>8. ASSUME NEW e \in running, Complete(e) PROVE TypeOK'
    BY <1>8, SettledRowType DEF Complete, TypeOK, history, faults
  <1>9. ASSUME NEW e \in running, CompleteThrows(e) PROVE TypeOK'
    <2>1. running' \subseteq Execution
      BY <1>9, CaughtType DEF CompleteThrows, TypeOK
    <2>2. row' \in [Jobs -> Row]
      BY <1>9, SettledRowType DEF CompleteThrows, TypeOK
    <2>. QED
      BY <1>9, <2>1, <2>2 DEF CompleteThrows, TypeOK, history
  <1>10. ASSUME NEW e \in running, Retry(e) PROVE TypeOK'
    BY <1>10, SettledRowType DEF Retry, TypeOK, history, faults
  <1>11. ASSUME NEW e \in running, Fail(e) PROVE TypeOK'
    BY <1>11, SettledRowType DEF Fail, TypeOK, faults
  <1>12. ASSUME NEW e \in running, SettleThrows(e) PROVE TypeOK'
    <2>1. row' \in [Jobs -> Row] /\ failures' \in [Jobs -> Nat]
      BY <1>12, SettledRowType DEF SettleThrows, TypeOK
    <2>2. running' \subseteq Execution
      <3>1. \A f \in running : f \in Execution /\ [f EXCEPT !.awaited = FALSE] \in Execution
        BY AbandonUpdate DEF TypeOK
      <3>. QED
        BY <1>12, <3>1 DEF SettleThrows
    <2>3. loop' \in [Workers -> {"idle", "polled", "asleep", "down"}]
      BY <1>12 DEF SettleThrows, TypeOK
    <2>. QED
      BY <1>12, <2>1, <2>2, <2>3 DEF SettleThrows, TypeOK
  <1>13. ASSUME NEW o \in Operators, RetryFailedJob(o) PROVE TypeOK'
    <2> DEFINE j == review[o].job
    <2>1. j \in Jobs
      BY <1>13 DEF RetryFailedJob, Reopen, TypeOK, Review
    <2>2. [row[j] EXCEPT !.status = "pending", !.attempts = 0, !.failure = "none",
                         !.dueIn = 0, !.manualRetries = @ + 1] \in Row
      BY <1>13, <2>1, ConstantsAssumption
      DEF Configured, RetryFailedJob, Reopen, TypeOK, Row, Status, Failure
    <2>3. row' \in [Jobs -> Row]
      BY <1>13, <2>1, <2>2 DEF RetryFailedJob, Reopen, TypeOK
    <2>. QED
      BY <1>13, <2>3 DEF RetryFailedJob, Reopen, TypeOK, history, faults
  <1>14. ASSUME NEW o \in Operators, NEW j \in Jobs, Inspect(o, j) PROVE TypeOK'
    <2>1. [job |-> j, attempts |-> row[j].attempts, failure |-> row[j].failure,
           manualRetries |-> row[j].manualRetries, seen |-> failures[j]] \in Review
      BY ConstantsAssumption DEF Configured, TypeOK, Row, Review
    <2>2. review' \in [Operators -> Review \union {NoReview}]
      BY <1>14, <2>1 DEF Inspect, TypeOK
    <2>. QED
      BY <1>14, <2>2 DEF Inspect, TypeOK, history, faults
  <1>15. ASSUME Tick PROVE TypeOK'
    <2>1. \A n \in Int : CountDown(n) \in Int
      BY ConstantsAssumption DEF Configured, CountDown
    <2>2. row' \in [Jobs -> Row]
      <3>1. ASSUME NEW j \in Jobs
            PROVE  [row[j] EXCEPT !.dueIn = CountDown(@),
                                  !.leaseLeft = IF row[j].status = "processing"
                                                THEN CountDown(@) ELSE @] \in Row
        <4>1. /\ row[j] \in Row
              /\ row[j].dueIn \in Int /\ row[j].leaseLeft \in Int
          BY DEF TypeOK, Row
        <4>2. /\ CountDown(row[j].dueIn) \in Int
              /\ (IF row[j].status = "processing" THEN CountDown(row[j].leaseLeft)
                  ELSE row[j].leaseLeft) \in Int
          BY <4>1, <2>1
        <4>. QED BY <4>1, <4>2, AgeUpdate
      <3>. QED BY <1>15, <3>1 DEF Tick
    <2>3. running' \subseteq Execution
      <3>1. ASSUME NEW e \in running
            PROVE  [e EXCEPT !.lag = IF HasClock(e) THEN @ + 1 ELSE @,
                             !.lease = CountDown(@)] \in Execution
        <4>1. e \in Execution /\ e.lag \in Nat /\ e.lease \in Int
          BY DEF TypeOK, Execution
        <4>2. /\ (IF HasClock(e) THEN e.lag + 1 ELSE e.lag) \in Nat
              /\ CountDown(e.lease) \in Int
          BY <4>1, <2>1
        <4>. QED BY <4>1, <4>2, TickUpdate
      <3>. QED BY <1>15, <3>1 DEF Tick
    <2>4. pollLag' \in [Workers -> Nat]
      <3>1. pollLag \in [Workers -> Nat]
        BY DEF TypeOK
      <3>2. pollLag' = [w \in Workers |->
                         IF loop[w] = "polled" THEN pollLag[w] + 1 ELSE pollLag[w]]
        BY <1>15 DEF Tick
      <3>. QED BY <3>1, <3>2
    <2>5. loop' \in [Workers -> {"idle", "polled", "asleep", "down"}]
      <3>1. loop \in [Workers -> {"idle", "polled", "asleep", "down"}]
        BY DEF TypeOK
      <3>2. loop' = [w \in Workers |-> IF loop[w] = "asleep" THEN "idle" ELSE loop[w]]
        BY <1>15 DEF Tick
      <3>. QED BY <3>1, <3>2
    <2>6. overruns' \in Nat
      <3>1. overruns \in Nat
        BY DEF TypeOK
      <3>2. overruns' = IF Overrunning # {} THEN overruns + 1 ELSE overruns
        BY <1>15 DEF Tick
      <3>. QED BY <3>1, <3>2
    <2>. QED
      <3>1. UNCHANGED <<review, history, stops, errors, settleErrors>>
        BY <1>15 DEF Tick
      <3>. QED
        BY <2>2, <2>3, <2>4, <2>5, <2>6, <3>1 DEF TypeOK, history
  <1>16. CASE UNCHANGED vars
    BY <1>16 DEF vars, history, faults, TypeOK
  <1>. QED
    BY <1>1, <1>2, <1>3, <1>4, <1>5, <1>6, <1>7, <1>8, <1>9, <1>10, <1>11, <1>12,
       <1>13, <1>14, <1>15, <1>16
    DEF Next, Advance, Shutdown, Crash

\* Every reachable state of the queue is well typed, whatever the bounds: in
\* particular manual_retry_count never exceeds the cap its CHECK constraint states.
THEOREM TypeCorrect == Spec => []TypeOK
  BY InitType, NextType, PTL DEF Spec

-----------------------------------------------------------------------------
(* The records of the queue agree with the executions in flight *)

\* What the catch block has established about an execution by the time it settles.
PhaseInv ==
  \A e \in running :
    /\ e.phase = "complete" => e.job \in handled
    /\ e.phase = "retry" => e.attempt < MaxAttempts
    /\ e.phase = "fail" => \/ e.failure = "permanent"
                           \/ e.failure = "retryable" /\ e.attempt >= MaxAttempts

\* A row before its first claim, and the only rows that record a permanent failure.
RowInv ==
  \A j \in Jobs :
    /\ row[j].status = "absent" => row[j].attempts = 0 /\ row[j].failure = "none"
    /\ row[j].failure = "permanent" => row[j].status = "failed"

\* While the generation an operator has read is the row's, the row still shows the
\* failure it was read from: leaving that failure starts a new generation.
ReviewInv ==
  \A o \in Operators :
    review[o] # NoReview =>
      LET r == review[o] IN
        /\ r.manualRetries <= row[r.job].manualRetries
        /\ r.manualRetries = row[r.job].manualRetries =>
             row[r.job].status = "failed" /\ failures[r.job] = r.seen

RecordInv ==
  PhaseInv /\ RowInv /\ ReviewInv /\ TableChecks /\ CompletedWasHandled

-----------------------------------------------------------------------------
(* Fencing, when no process abandons a batch *)

Holds(e) == row[e.job].status = "processing" /\ row[e.job].owner = e.worker

\* A process has at most one batch in flight, so its worker id names one claim.
OneBatch ==
  /\ \A e \in running : e.awaited
  /\ \A w \in Workers : loop[w] \in {"polled", "asleep"} =>
       \A e \in running : e.worker # w

\* Executions are identified by the claim that started them, and the one that holds
\* the row, or whose lease still runs, is that of the last claim.
ClaimInv ==
  /\ \A e \in running : e.claim <= claims[e.job]
  /\ \A e, f \in running : e.job = f.job /\ e.claim = f.claim => e = f
  /\ \A e \in running : Holds(e) =>
       e.claim = claims[e.job] /\ e.attempt = row[e.job].attempts
  /\ \A e \in running : e.lease > 0 =>
       /\ e.claim = claims[e.job]
       /\ \/ row[e.job].status = "completed"
          \/ Holds(e) /\ row[e.job].leaseLeft = e.lease

FencingInv == OneBatch /\ ClaimInv /\ AttemptBudget

-----------------------------------------------------------------------------
(* What one step can do to a row *)

Kept(j) ==
  /\ row'[j].status = row[j].status /\ row'[j].attempts = row[j].attempts
  /\ row'[j].manualRetries = row[j].manualRetries
  /\ row'[j].owner = row[j].owner /\ row'[j].failure = row[j].failure
  /\ failures'[j] = failures[j]

Leased(j) ==
  /\ row[j].status \in {"pending", "processing"} /\ row'[j].status = "processing"
  /\ row'[j].owner \in Workers /\ row'[j].failure = row[j].failure
  /\ row'[j].manualRetries = row[j].manualRetries /\ failures'[j] = failures[j]

Enqueued(j) ==
  /\ row[j].status = "absent" /\ row'[j].status = "pending"
  /\ row'[j].attempts = row[j].attempts
  /\ row'[j].manualRetries = row[j].manualRetries
  /\ row'[j].owner = row[j].owner /\ row'[j].failure = row[j].failure
  /\ failures'[j] = failures[j]

SettledBy(j, e) ==
  /\ e.job = j /\ Holds(e)
  /\ row'[j].owner = NoWorker /\ row'[j].attempts = row[j].attempts
  /\ row'[j].manualRetries = row[j].manualRetries
  /\ \/ /\ e.phase = "complete" /\ row'[j].status = "completed"
        /\ row'[j].failure = "none" /\ failures'[j] = failures[j]
     \/ /\ e.phase = "retry" /\ row'[j].status = "pending"
        /\ row'[j].failure = "retryable" /\ failures'[j] = failures[j]
     \/ /\ e.phase = "fail" /\ row'[j].status = "failed"
        /\ row'[j].failure = e.failure /\ failures'[j] = failures[j] + 1

Reopened(j) ==
  /\ row[j].status = "failed" /\ row[j].failure = "retryable"
  /\ row[j].manualRetries < MaxManualRetries
  /\ row'[j].status = "pending" /\ row'[j].attempts = 0
  /\ row'[j].failure = "none" /\ row'[j].owner = row[j].owner
  /\ row'[j].manualRetries = row[j].manualRetries + 1
  /\ failures'[j] = failures[j]

\* A step leases a batch, or changes the standing of at most one row.
RowStep ==
  \/ \A j \in Jobs : Kept(j) \/ Leased(j)
  \/ \E j \in Jobs :
       /\ Enqueued(j) \/ Reopened(j) \/ \E e \in running : SettledBy(j, e)
       /\ \A k \in Jobs \ {j} : Kept(k)

LEMMA KeptRows ==
  ASSUME UNCHANGED <<row, failures>>
  PROVE  RowStep
  BY DEF RowStep, Kept

LEMMA LeaseToSteps ==
  ASSUME TypeOK, NEW w \in Workers, NEW batch \in Batches(w), LeaseTo(w, batch),
         UNCHANGED failures
  PROVE  RowStep
  <1>1. \A j \in batch : row[j].status \in {"pending", "processing"}
    BY DEF Batches, Available
  <1>2. ASSUME NEW j \in Jobs PROVE Kept(j) \/ Leased(j)
    <2>1. CASE j \in batch
      <3>1. row'[j] = [row[j] EXCEPT !.status = "processing", !.attempts = @ + 1,
                             !.owner = w, !.leaseLeft = LeaseDuration - pollLag[w]]
        BY <2>1 DEF LeaseTo
      <3>2. row[j] \in Row
        BY DEF TypeOK
      <3>. QED
        BY <1>1, <2>1, <3>1, <3>2 DEF Leased, Row
    <2>2. CASE j \notin batch
      BY <2>2 DEF LeaseTo, Kept
    <2>. QED
      BY <2>1, <2>2
  <1>. QED
    BY <1>2 DEF RowStep

LEMMA SettleSteps ==
  ASSUME TypeOK, NEW e \in running
  PROVE  /\ e.phase = "complete" /\ SetComplete(e) /\ UNCHANGED failures => RowStep
         /\ e.phase = "retry" /\ SetRetry(e) /\ UNCHANGED failures => RowStep
         /\ e.phase = "fail" /\ SetFail(e) => RowStep
  <1> DEFINE j == e.job
  <1>1. j \in Jobs /\ row[j] \in Row /\ row \in [Jobs -> Row]
          /\ failures \in [Jobs -> Nat]
    BY DEF TypeOK, Execution
  <1>2. ASSUME ~HoldsLease(e)
        PROVE  /\ SetComplete(e) => UNCHANGED row
               /\ SetRetry(e) => UNCHANGED row
               /\ SetFail(e) => UNCHANGED <<row, failures>>
    BY <1>2 DEF SetComplete, SetRetry, SetFail
  <1>3. HoldsLease(e) => Holds(e)
    BY DEF HoldsLease, Holds
  <1>4. ASSUME NEW new, row' = [row EXCEPT ![j] = new],
               \A k \in Jobs \ {j} : failures'[k] = failures[k]
        PROVE  row'[j] = new /\ \A k \in Jobs \ {j} : Kept(k)
    BY <1>1, <1>4 DEF Kept
  <1>5. ASSUME e.phase = "complete", SetComplete(e), UNCHANGED failures, HoldsLease(e)
        PROVE  RowStep
    <2>1. row' = [row EXCEPT ![j] = CompletedRow(e)]
      BY <1>5 DEF SetComplete
    <2>2. row'[j] = CompletedRow(e) /\ \A k \in Jobs \ {j} : Kept(k)
      <3> HIDE DEF j
      <3>. QED BY <1>4, <1>5, <2>1
    <2>3. SettledBy(j, e)
      BY <1>1, <1>3, <1>5, <2>2 DEF SettledBy, CompletedRow, Released, Row
    <2>. QED
      BY <1>1, <2>2, <2>3 DEF RowStep
  <1>6. ASSUME e.phase = "retry", SetRetry(e), UNCHANGED failures, HoldsLease(e)
        PROVE  RowStep
    <2>1. PICK delay \in RetryDelays(e.attempt) :
            row' = [row EXCEPT ![j] = RetriedRow(e, delay)]
      BY <1>6 DEF SetRetry
    <2>2. row'[j] = RetriedRow(e, delay) /\ \A k \in Jobs \ {j} : Kept(k)
      <3> HIDE DEF j
      <3>. QED BY <1>4, <1>6, <2>1
    <2>3. SettledBy(j, e)
      BY <1>1, <1>3, <1>6, <2>2 DEF SettledBy, RetriedRow, Released, Row
    <2>. QED
      BY <1>1, <2>2, <2>3 DEF RowStep
  <1>7. ASSUME e.phase = "fail", SetFail(e), HoldsLease(e)
        PROVE  RowStep
    <2>1. /\ row' = [row EXCEPT ![j] = FailedRow(e)]
          /\ failures' = [failures EXCEPT ![j] = failures[j] + 1]
      BY <1>7 DEF SetFail
    <2>2. row'[j] = FailedRow(e) /\ \A k \in Jobs \ {j} : Kept(k)
      <3>1. \A k \in Jobs \ {j} : failures'[k] = failures[k]
        BY <1>1, <2>1
      <3> HIDE DEF j
      <3>. QED BY <1>4, <2>1, <3>1
    <2>3. failures'[j] = failures[j] + 1
      BY <1>1, <2>1
    <2>4. SettledBy(j, e)
      BY <1>1, <1>3, <1>7, <2>2, <2>3 DEF SettledBy, FailedRow, Released, Row
    <2>. QED
      BY <1>1, <2>2, <2>4 DEF RowStep
  <1>. QED
    BY <1>2, <1>5, <1>6, <1>7, KeptRows

LEMMA RowSteps == TypeOK /\ [Next]_vars => RowStep
  <1> SUFFICES ASSUME TypeOK, [Next]_vars PROVE RowStep
    OBVIOUS
  <1>1. ASSUME NEW j \in Jobs, Enqueue(j) PROVE RowStep
    <2>1. PICK delay \in StartDelays :
            row' = [row EXCEPT ![j].status = "pending", ![j].dueIn = delay]
      BY <1>1 DEF Enqueue
    <2>2. row[j].status = "absent" /\ UNCHANGED failures
      BY <1>1 DEF Enqueue, history
    <2>3. row \in [Jobs -> Row] /\ row[j] \in Row
      BY DEF TypeOK
    <2>4. Enqueued(j)
      BY <2>1, <2>2, <2>3 DEF Enqueued, Row
    <2>5. \A k \in Jobs \ {j} : Kept(k)
      BY <2>1, <2>2, <2>3 DEF Kept
    <2>. QED
      BY <2>4, <2>5 DEF RowStep
  <1>2. ASSUME NEW w \in Workers, Poll(w) \/ Leave(w) PROVE RowStep
    BY <1>2, KeptRows DEF Poll, Leave, history
  <1>3. ASSUME NEW w \in Workers, Claim(w) \/ ClaimThrows(w) PROVE RowStep
    BY <1>3, KeptRows, LeaseToSteps DEF Claim, ClaimThrows
  <1>4. ASSUME NEW e \in running, HandlerReturns(e) \/ HandlerThrows(e)
        PROVE  RowStep
    BY <1>4, KeptRows DEF HandlerReturns, HandlerThrows, history
  <1>5. ASSUME NEW e \in running, Complete(e) \/ CompleteThrows(e) PROVE RowStep
    BY <1>5, KeptRows, SettleSteps DEF Complete, CompleteThrows, history
  <1>6. ASSUME NEW e \in running, Retry(e) PROVE RowStep
    BY <1>6, SettleSteps DEF Retry, history
  <1>7. ASSUME NEW e \in running, Fail(e) PROVE RowStep
    BY <1>7, SettleSteps DEF Fail
  <1>8. ASSUME NEW e \in running, SettleThrows(e) PROVE RowStep
    BY <1>8, KeptRows, SettleSteps DEF SettleThrows
  <1>9. ASSUME NEW o \in Operators, RetryFailedJob(o) PROVE RowStep
    <2> DEFINE j == review[o].job
    <2>1. j \in Jobs
      BY <1>9 DEF RetryFailedJob, Reopen, TypeOK, Review
    <2>2. row \in [Jobs -> Row] /\ row[j] \in Row
      BY <2>1 DEF TypeOK
    <2>3. /\ row' = [row EXCEPT ![j].status = "pending", ![j].attempts = 0,
                                ![j].failure = "none", ![j].dueIn = 0,
                                ![j].manualRetries = @ + 1]
          /\ row[j].status = "failed" /\ row[j].failure = "retryable"
          /\ row[j].manualRetries < MaxManualRetries
          /\ UNCHANGED failures
      BY <1>9 DEF RetryFailedJob, Reopen, history
    <2> HIDE DEF j
    <2>4. Reopened(j)
      BY <2>1, <2>2, <2>3 DEF Reopened, Row
    <2>5. \A k \in Jobs \ {j} : Kept(k)
      BY <2>1, <2>2, <2>3 DEF Kept
    <2>. QED
      BY <2>1, <2>4, <2>5 DEF RowStep
  <1>10. ASSUME NEW o \in Operators, NEW j \in Jobs, Inspect(o, j) PROVE RowStep
    BY <1>10, KeptRows DEF Inspect, history
  <1>11. ASSUME Tick PROVE RowStep
    <2>1. row' = [j \in Jobs |->
            [row[j] EXCEPT !.dueIn = CountDown(@),
                           !.leaseLeft = IF row[j].status = "processing"
                                         THEN CountDown(@) ELSE @]]
      BY <1>11 DEF Tick
    <2>2. UNCHANGED failures
      BY <1>11 DEF Tick, history
    <2>3. ASSUME NEW j \in Jobs PROVE Kept(j)
      <3>1. row[j] \in Row
        BY DEF TypeOK
      <3>. QED
        BY <2>1, <2>2, <3>1 DEF Kept, Row
    <2>. QED
      BY <2>3 DEF RowStep
  <1>12. CASE UNCHANGED vars
    BY <1>12, KeptRows DEF vars, history
  <1>. QED
    BY <1>1, <1>2, <1>3, <1>4, <1>5, <1>6, <1>7, <1>8, <1>9, <1>10, <1>11, <1>12
    DEF Next, Advance, Shutdown, Crash

-----------------------------------------------------------------------------
(* What one step can do to an execution *)

\* e is what the step makes of f: the same call, in the same phase or in one its
\* handler or its catch block has just chosen.
Follows(f, e) ==
  /\ e.worker = f.worker /\ e.job = f.job
  /\ e.claim = f.claim /\ e.attempt = f.attempt
  /\ \/ e.phase = f.phase /\ e.failure = f.failure
     \/ e.phase = "complete" /\ e.job \in handled'
     \/ e.phase = "retry" /\ e.attempt < MaxAttempts
     \/ e.phase = "fail" /\ e.failure = "permanent"
     \/ e.phase = "fail" /\ e.failure = "retryable" /\ e.attempt >= MaxAttempts

ExecutionStep ==
  /\ handled \subseteq handled'
  /\ \A e \in running' : \/ e.phase = "dispatch"
                         \/ \E f \in running : Follows(f, e)

LEMMA CaughtFollows ==
  ASSUME TypeOK, NEW f \in running, NEW failure \in {"retryable", "permanent"},
         Caught(f, failure)
  PROVE  \A e \in running' : \E g \in running : Follows(g, e)
  <1> DEFINE next == [f EXCEPT !.failure = failure, !.lag = 0,
                               !.phase = IF failure = "retryable" /\ f.attempt < MaxAttempts
                                         THEN "retry" ELSE "fail"]
  <1>1. f \in Execution /\ f.attempt \in Nat
    BY DEF TypeOK, Execution
  <1>2. /\ next.worker = f.worker /\ next.job = f.job /\ next.claim = f.claim
        /\ next.attempt = f.attempt /\ next.failure = failure
        /\ next.phase = IF failure = "retryable" /\ f.attempt < MaxAttempts
                        THEN "retry" ELSE "fail"
    BY <1>1 DEF Execution
  <1>3. Follows(f, next)
    <2> HIDE DEF next
    <2>. QED BY <1>1, <1>2, ConstantsAssumption DEF Configured, Follows
  <1>4. running' = (running \ {f}) \union {next}
    BY DEF Caught, Becomes
  <1>5. \A g \in running : Follows(g, g)
    BY DEF Follows
  <1>. QED
    <2> HIDE DEF next
    <2>. QED BY <1>3, <1>4, <1>5

LEMMA ExecutionSteps == TypeOK /\ [Next]_vars => ExecutionStep
  <1> SUFFICES ASSUME TypeOK, [Next]_vars PROVE ExecutionStep
    OBVIOUS
  <1>1. \A g \in running : Follows(g, g)
    BY DEF Follows
  <1>2. ASSUME running' \subseteq running, UNCHANGED handled PROVE ExecutionStep
    BY <1>1, <1>2 DEF ExecutionStep
  <1>3. ASSUME NEW w \in Workers, Claim(w) PROVE ExecutionStep
    <2>1. PICK batch : running' = running \union StartedBy(w, batch)
      BY <1>3 DEF Claim
    <2>2. \A e \in StartedBy(w, batch) : e.phase = "dispatch"
      BY DEF StartedBy
    <2>. QED
      BY <1>1, <1>3, <2>1, <2>2 DEF Claim, ExecutionStep
  <1>4. ASSUME NEW f \in running, HandlerReturns(f) PROVE ExecutionStep
    <2> DEFINE next == [f EXCEPT !.phase = "complete", !.lag = 0]
    <2>1. f \in Execution
      BY DEF TypeOK
    <2>2. /\ next.worker = f.worker /\ next.job = f.job /\ next.claim = f.claim
          /\ next.attempt = f.attempt /\ next.phase = "complete"
      BY <2>1 DEF Execution
    <2>3. running' = (running \ {f}) \union {next} /\ handled' = handled \union {f.job}
      BY <1>4 DEF HandlerReturns, Becomes
    <2> HIDE DEF next
    <2>4. Follows(f, next)
      BY <2>2, <2>3 DEF Follows
    <2>. QED
      BY <1>1, <2>3, <2>4 DEF ExecutionStep
  <1>5. ASSUME NEW f \in running, HandlerThrows(f) \/ CompleteThrows(f)
        PROVE  ExecutionStep
    BY <1>5, CaughtFollows DEF HandlerThrows, CompleteThrows, history, ExecutionStep
  <1>6. ASSUME NEW f \in running, Complete(f) \/ Retry(f) \/ Fail(f)
        PROVE  ExecutionStep
    BY <1>2, <1>6 DEF Complete, Retry, Fail, history
  <1>7. ASSUME NEW f \in running, SettleThrows(f) PROVE ExecutionStep
    <2>1. ASSUME NEW e \in running' PROVE \E g \in running : Follows(g, e)
      <3>1. PICK g \in running : e = IF f.awaited /\ g.worker = f.worker
                                     THEN [g EXCEPT !.awaited = FALSE] ELSE g
        BY <1>7, <2>1 DEF SettleThrows
      <3>2. g \in Execution
        BY DEF TypeOK
      <3>3. Follows(g, e)
        BY <3>1, <3>2 DEF Follows, Execution
      <3>. QED BY <3>3
    <2>. QED
      BY <1>7, <2>1 DEF SettleThrows, ExecutionStep
  <1>8. ASSUME Tick PROVE ExecutionStep
    <2>1. ASSUME NEW e \in running' PROVE \E g \in running : Follows(g, e)
      <3>1. PICK g \in running :
              e = [g EXCEPT !.lag = IF HasClock(g) THEN @ + 1 ELSE @,
                            !.lease = CountDown(@)]
        BY <1>8, <2>1 DEF Tick
      <3>2. g \in Execution
        BY DEF TypeOK
      <3>3. Follows(g, e)
        BY <3>1, <3>2 DEF Follows, Execution
      <3>. QED BY <3>3
    <2>. QED
      BY <1>8, <2>1 DEF Tick, history, ExecutionStep
  <1>9. ASSUME NEW j \in Jobs, Enqueue(j) PROVE ExecutionStep
    BY <1>2, <1>9 DEF Enqueue, history
  <1>10. ASSUME NEW w \in Workers, Poll(w) \/ ClaimThrows(w) \/ Leave(w)
         PROVE  ExecutionStep
    BY <1>2, <1>10 DEF Poll, ClaimThrows, Leave, history
  <1>11. ASSUME NEW o \in Operators, RetryFailedJob(o) \/ \E j \in Jobs : Inspect(o, j)
         PROVE  ExecutionStep
    BY <1>2, <1>11 DEF RetryFailedJob, Reopen, Inspect, history
  <1>12. CASE UNCHANGED vars
    BY <1>2, <1>12 DEF vars, history
  <1>. QED
    BY <1>3, <1>4, <1>5, <1>6, <1>7, <1>8, <1>9, <1>10, <1>11, <1>12
    DEF Next, Advance, Shutdown, Crash

-----------------------------------------------------------------------------
(* The record invariant *)

LEMMA InitRecord == Init => RecordInv
  BY DEF Init, RecordInv, PhaseInv, RowInv, ReviewInv, TableChecks,
         CompletedWasHandled

LEMMA ReviewSteps ==
  TypeOK /\ [Next]_vars =>
    \A o \in Operators :
      \/ review'[o] = review[o]
      \/ \E j \in Jobs : /\ row[j].status = "failed" /\ UNCHANGED <<row, failures>>
                         /\ review'[o] = [job |-> j, attempts |-> row[j].attempts,
                                          failure |-> row[j].failure,
                                          manualRetries |-> row[j].manualRetries,
                                          seen |-> failures[j]]
  <1> SUFFICES ASSUME TypeOK, [Next]_vars, NEW o \in Operators,
                      review'[o] # review[o]
               PROVE  \E j \in Jobs :
                        /\ row[j].status = "failed" /\ UNCHANGED <<row, failures>>
                        /\ review'[o] = [job |-> j, attempts |-> row[j].attempts,
                                         failure |-> row[j].failure,
                                         manualRetries |-> row[j].manualRetries,
                                         seen |-> failures[j]]
    OBVIOUS
  <1>1. PICK p \in Operators, j \in Jobs : Inspect(p, j)
    BY DEF Next, vars, Advance, Shutdown, Crash, Leave, Enqueue, Poll, Claim,
           ClaimThrows, HandlerReturns, HandlerThrows, Complete, CompleteThrows,
           Retry, Fail, SettleThrows, RetryFailedJob, Reopen, Tick
  <1>2. p = o
    BY <1>1 DEF Inspect, TypeOK
  <1>. QED
    BY <1>1, <1>2 DEF Inspect, TypeOK, history

LEMMA NextRecord == TypeOK /\ RecordInv /\ [Next]_vars => RecordInv'
  <1> SUFFICES ASSUME TypeOK, RecordInv, [Next]_vars PROVE RecordInv'
    OBVIOUS
  <1>1. RowStep /\ ExecutionStep
    BY RowSteps, ExecutionSteps
  <1>2. PhaseInv'
    <2>1. ASSUME NEW e \in running'
          PROVE  /\ e.phase = "complete" => e.job \in handled'
                 /\ e.phase = "retry" => e.attempt < MaxAttempts
                 /\ e.phase = "fail" =>
                      \/ e.failure = "permanent"
                      \/ e.failure = "retryable" /\ e.attempt >= MaxAttempts
      <3>1. CASE e.phase = "dispatch"
        BY <3>1
      <3>2. CASE \E f \in running : Follows(f, e)
        BY <1>1, <3>2 DEF Follows, ExecutionStep, RecordInv, PhaseInv
      <3>. QED
        BY <1>1, <3>1, <3>2 DEF ExecutionStep
    <2>. QED BY <2>1 DEF PhaseInv
  <1>3. ASSUME NEW j \in Jobs
        PROVE  Kept(j) \/ Leased(j) \/ Enqueued(j) \/ Reopened(j)
                 \/ \E e \in running : SettledBy(j, e)
    BY <1>1 DEF RowStep
  <1>4. \A j \in Jobs : failures[j] \in Nat /\ row[j] \in Row
    BY DEF TypeOK
  <1>5. RowInv'
    <2>1. ASSUME NEW j \in Jobs
          PROVE  /\ row'[j].status = "absent" =>
                      row'[j].attempts = 0 /\ row'[j].failure = "none"
                 /\ row'[j].failure = "permanent" => row'[j].status = "failed"
      BY <1>3 DEF RecordInv, RowInv, Kept, Leased, Enqueued, Reopened, SettledBy
    <2>. QED BY <2>1 DEF RowInv
  <1>6. TableChecks'
    <2>1. ASSUME NEW j \in Jobs
          PROVE  /\ row'[j].status = "processing" <=> row'[j].owner # NoWorker
                 /\ row'[j].status = "completed" => row'[j].failure = "none"
                 /\ row'[j].status = "failed" => row'[j].failure # "none"
      BY <1>3, ConstantsAssumption
      DEF Configured, RecordInv, TableChecks, PhaseInv, Kept, Leased, Enqueued, Reopened,
          SettledBy, Holds
    <2>. QED BY <2>1 DEF TableChecks
  <1>7. CompletedWasHandled'
    <2>1. ASSUME NEW j \in Jobs, row'[j].status = "completed" PROVE j \in handled'
      BY <1>1, <1>3, <2>1
      DEF RecordInv, CompletedWasHandled, PhaseInv, ExecutionStep, Kept, Leased,
          Enqueued, Reopened, SettledBy
    <2>. QED BY <2>1 DEF CompletedWasHandled
  <1>8. ReviewInv'
    <2>1. ASSUME NEW o \in Operators, review'[o] # NoReview
          PROVE  LET r == review'[o] IN
                   /\ r.manualRetries <= row'[r.job].manualRetries
                   /\ r.manualRetries = row'[r.job].manualRetries =>
                        row'[r.job].status = "failed" /\ failures'[r.job] = r.seen
      <3>1. CASE review'[o] = review[o]
        <4> DEFINE r == review[o]
        <4>1. r \in Review /\ r.job \in Jobs /\ r.manualRetries \in Nat
          BY <2>1, <3>1 DEF TypeOK, Review
        <4>2. row[r.job].manualRetries \in Nat
          BY <1>4, <4>1, ConstantsAssumption DEF Configured, Row
        <4>3. /\ r.manualRetries <= row[r.job].manualRetries
              /\ r.manualRetries = row[r.job].manualRetries =>
                   row[r.job].status = "failed" /\ failures[r.job] = r.seen
          BY <2>1, <3>1 DEF RecordInv, ReviewInv
        <4> HIDE DEF r
        <4>4. /\ r.manualRetries <= row'[r.job].manualRetries
              /\ r.manualRetries = row'[r.job].manualRetries =>
                   row'[r.job].status = "failed" /\ failures'[r.job] = r.seen
          BY <1>3, <4>1, <4>2, <4>3
          DEF Kept, Leased, Enqueued, Reopened, SettledBy, Holds
        <4>. QED
          BY <3>1, <4>4 DEF r
      <3>2. CASE \E j \in Jobs :
                   /\ row[j].status = "failed" /\ UNCHANGED <<row, failures>>
                   /\ review'[o] = [job |-> j, attempts |-> row[j].attempts,
                                    failure |-> row[j].failure,
                                    manualRetries |-> row[j].manualRetries,
                                    seen |-> failures[j]]
        <4>1. PICK j \in Jobs :
                /\ row[j].status = "failed" /\ UNCHANGED <<row, failures>>
                /\ review'[o] = [job |-> j, attempts |-> row[j].attempts,
                                 failure |-> row[j].failure,
                                 manualRetries |-> row[j].manualRetries,
                                 seen |-> failures[j]]
          BY <3>2
        <4>2. row[j].manualRetries \in Nat
          BY <1>4, ConstantsAssumption DEF Configured, Row
        <4>. QED
          BY <4>1, <4>2
      <3>. QED
        BY <3>1, <3>2, ReviewSteps
    <2>. QED BY <2>1 DEF ReviewInv
  <1>. QED
    BY <1>2, <1>5, <1>6, <1>7, <1>8 DEF RecordInv

LEMMA RecordCorrect == Spec => [](TypeOK /\ RecordInv)
  <1>1. TypeOK /\ RecordInv /\ [Next]_vars => (TypeOK /\ RecordInv)'
    BY NextType, NextRecord
  <1>. QED
    BY InitType, InitRecord, <1>1, PTL DEF Spec

\* No statement of the workers or the operators leaves a row its CHECK constraints
\* reject, with any number of crashes, overruns and database errors.
THEOREM TableChecksHold == Spec => []TableChecks
  BY RecordCorrect, PTL DEF RecordInv

\* Only a job whose handler returned is ever recorded as completed.
THEOREM CompletedHandled == Spec => []CompletedWasHandled
  BY RecordCorrect, PTL DEF RecordInv

-----------------------------------------------------------------------------
(* Outcomes and generations *)

\* An outcome is final: a completed or permanently failed row never changes its
\* status again and a retryable failure is left only with a new generation.
THEOREM OutcomesAreFinal == Spec => OutcomeIsFinal
  <1>1. ASSUME TypeOK, RecordInv, [Next]_vars, NEW j \in Jobs
        PROVE  /\ row[j].status = "completed" \/ row[j].failure = "permanent"
                    => row'[j].status = row[j].status
               /\ row[j].status = "failed" /\ row'[j].status # "failed"
                    => row'[j].manualRetries = row[j].manualRetries + 1
    <2>1. Kept(j) \/ Leased(j) \/ Enqueued(j) \/ Reopened(j)
            \/ \E e \in running : SettledBy(j, e)
      BY <1>1, RowSteps DEF RowStep
    <2>2. row[j].failure = "permanent" => row[j].status = "failed"
      BY <1>1 DEF RecordInv, RowInv
    <2>. QED
      BY <2>1, <2>2 DEF Kept, Leased, Enqueued, Reopened, SettledBy, Holds
  <1>2. TypeOK /\ RecordInv /\ [Next]_vars =>
          [\A j \in Jobs :
             /\ row[j].status = "completed" \/ row[j].failure = "permanent"
                  => row'[j].status = row[j].status
             /\ row[j].status = "failed" /\ row'[j].status # "failed"
                  => row'[j].manualRetries = row[j].manualRetries + 1]_vars
    BY <1>1
  <1>. QED
    BY RecordCorrect, <1>2, PTL DEF Spec, OutcomeIsFinal

\* A manual retry restarts the very failure its operator was shown.
THEOREM OperatorsRetryWhatTheySaw == Spec => OperatorRetriesWhatItSaw
  <1>1. ASSUME TypeOK, RecordInv, NEW o \in Operators, RetryFailedJob(o)
        PROVE  review[o].seen = failures[review[o].job]
    BY <1>1 DEF RecordInv, ReviewInv, RetryFailedJob, Reopen
  <1>2. TypeOK /\ RecordInv /\ [Next]_vars =>
          [\A o \in Operators :
             RetryFailedJob(o) => review[o].seen = failures[review[o].job]]_vars
    BY <1>1
  <1>. QED
    BY RecordCorrect, <1>2, PTL DEF Spec, OperatorRetriesWhatItSaw

-----------------------------------------------------------------------------
(* Refinement: what a producer sees is a JobLifecycle *)

LEMMA LifecycleInit == Init => Lifecycle!Init
  BY DEF Init, Lifecycle!Init, Outcome

LEMMA LifecycleStep ==
  TypeOK /\ RecordInv /\ [Next]_vars => [Lifecycle!Next]_(Lifecycle!vars)
  <1> SUFFICES ASSUME TypeOK, RecordInv, [Next]_vars
               PROVE  [Lifecycle!Next]_(Lifecycle!vars)
    OBVIOUS
  <1> DEFINE now == [j \in Jobs |-> Outcome(j)]
             then == [j \in Jobs |-> Outcome(j)']
             gen == [j \in Jobs |-> row[j].manualRetries]
             gen2 == [j \in Jobs |-> row'[j].manualRetries]
  <1>1. RowStep
    BY RowSteps
  <1>2. \A k \in Jobs : Kept(k) =>
          Outcome(k)' = Outcome(k) /\ row'[k].manualRetries = row[k].manualRetries
    BY DEF Kept, Outcome
  <1>3. \A k \in Jobs : Leased(k) =>
          Outcome(k)' = Outcome(k) /\ row'[k].manualRetries = row[k].manualRetries
    BY DEF Leased, Outcome
  <1>4. CASE \A j \in Jobs : Kept(j) \/ Leased(j)
    BY <1>2, <1>3, <1>4 DEF Lifecycle!vars
  <1>5. ASSUME NEW j \in Jobs, \A k \in Jobs \ {j} : Kept(k),
               Enqueued(j) \/ Reopened(j) \/ \E e \in running : SettledBy(j, e)
        PROVE  [Lifecycle!Next]_(Lifecycle!vars)
    <2>1. \A k \in Jobs \ {j} :
            Outcome(k)' = Outcome(k) /\ row'[k].manualRetries = row[k].manualRetries
      BY <1>2, <1>5
    <2>2. /\ then = [now EXCEPT ![j] = Outcome(j)']
          /\ gen2 = [gen EXCEPT ![j] = row'[j].manualRetries]
      BY <2>1
    <2>3. CASE Enqueued(j)
      <3>1. /\ Outcome(j) = "absent" /\ Outcome(j)' = "open"
            /\ row'[j].manualRetries = row[j].manualRetries
        BY <2>3 DEF Enqueued, Outcome
      <3>2. Lifecycle!Accept(j)
        BY <2>2, <3>1 DEF Lifecycle!Accept
      <3>. QED BY <3>2 DEF Lifecycle!Next
    <2>4. CASE Reopened(j)
      <3>1. /\ Outcome(j) = "retryable" /\ Outcome(j)' = "open"
            /\ row'[j].manualRetries = row[j].manualRetries + 1
            /\ row[j].manualRetries < MaxManualRetries
        BY <2>4 DEF Reopened, Outcome
      <3>2. Lifecycle!Reopen(j)
        BY <2>2, <3>1 DEF Lifecycle!Reopen
      <3>. QED BY <3>2 DEF Lifecycle!Next
    <2>5. CASE \E e \in running : SettledBy(j, e)
      <3>1. PICK e \in running : SettledBy(j, e)
        BY <2>5
      <3>2. Outcome(j) = "open" /\ row'[j].manualRetries = row[j].manualRetries
        BY <3>1 DEF SettledBy, Holds, Outcome
      <3>3. e.phase = "fail" => e.failure \in {"retryable", "permanent"}
        BY DEF RecordInv, PhaseInv
      <3>4. Outcome(j)' = "open" \/ Outcome(j)' \in Lifecycle!Settled
        BY <3>1, <3>3 DEF SettledBy, Outcome, Lifecycle!Settled
      <3>5. CASE Outcome(j)' = "open"
        <4>1. then = now /\ gen2 = gen
          BY <2>2, <3>2, <3>5
        <4>. QED BY <4>1 DEF Lifecycle!vars
      <3>6. CASE Outcome(j)' \in Lifecycle!Settled
        <4>1. gen2 = gen
          BY <2>2, <3>2
        <4>2. Lifecycle!Settle(j)
          BY <2>2, <3>2, <3>6, <4>1 DEF Lifecycle!Settle
        <4>. QED BY <4>2 DEF Lifecycle!Next
      <3>. QED BY <3>4, <3>5, <3>6
    <2>. QED BY <1>5, <2>3, <2>4, <2>5
  <1>. QED
    BY <1>1, <1>4, <1>5 DEF RowStep

\* Workers, leases and retries implement the lifecycle a producer sees: one outcome
\* per generation and a bounded number of generations.
THEOREM QueueImplementsLifecycle == Spec => ImplementsLifecycle
  BY RecordCorrect, LifecycleInit, LifecycleStep, PTL
  DEF Spec, ImplementsLifecycle, Lifecycle!Spec

-----------------------------------------------------------------------------
(* Fencing *)

\* Two executions stand for the same claim.
SameClaim(f, e) ==
  /\ e.worker = f.worker /\ e.job = f.job /\ e.claim = f.claim
  /\ e.attempt = f.attempt /\ e.lease = f.lease /\ e.awaited = f.awaited

\* Ending an execution, or moving it to another phase, with the update it makes.
LEMMA SettleKeepsClaims ==
  ASSUME TypeOK, ClaimInv, NEW e \in running, UNCHANGED claims,
         \/ UNCHANGED row
         \/ /\ HoldsLease(e)
            /\ \E new \in Row : /\ row' = [row EXCEPT ![e.job] = new]
                                /\ new.status # "processing",
         \/ running' = running \ {e}
         \/ \E next : /\ running' = (running \ {e}) \union {next}
                      /\ SameClaim(e, next)
                      /\ row'[e.job] = row[e.job] \/ row'[e.job].status = "completed"
  PROVE  ClaimInv'
  <1>1. \A f \in running : f \in Execution /\ f.job \in Jobs
    BY DEF TypeOK, Execution
  <1>2. \A j \in Jobs : j # e.job => row'[j] = row[j]
    BY <1>1 DEF TypeOK
  <1>3. row'[e.job] = row[e.job] \/ (HoldsLease(e) /\ row'[e.job].status # "processing")
    BY <1>1 DEF TypeOK
  <1>4. HoldsLease(e) => Holds(e) /\ e.claim = claims[e.job]
    BY DEF HoldsLease, Holds, ClaimInv
  <1>5. \A f \in running \ {e} : f.job = e.job => f.claim # e.claim
    BY DEF ClaimInv
  <1>6. \A f \in running' : \E g \in running : SameClaim(g, f) /\ (f \in running \ {e} \/ g = e)
    BY DEF SameClaim
  <1>7. \A f \in running' : f.claim <= claims'[f.job]
    BY <1>6 DEF ClaimInv, SameClaim
  <1>8. \A f, g \in running' : f.job = g.job /\ f.claim = g.claim => f = g
    BY <1>5, <1>6 DEF ClaimInv, SameClaim
  <1>9. ASSUME NEW f \in running', Holds(f)'
        PROVE  f.claim = claims'[f.job] /\ f.attempt = row'[f.job].attempts
    <2>1. PICK g \in running : SameClaim(g, f)
      BY <1>6
    <2>2. row'[g.job] = row[g.job]
      BY <1>1, <1>2, <1>3, <1>9, <2>1 DEF Holds, SameClaim
    <2>3. Holds(g)
      BY <1>9, <2>1, <2>2 DEF Holds, SameClaim
    <2>. QED
      BY <2>1, <2>2, <2>3 DEF ClaimInv, SameClaim
  <1>10. ASSUME NEW f \in running', f.lease > 0
         PROVE  /\ f.claim = claims'[f.job]
                /\ \/ row'[f.job].status = "completed"
                   \/ Holds(f)' /\ row'[f.job].leaseLeft = f.lease
    <2>1. PICK g \in running : SameClaim(g, f) /\ (f \in running \ {e} \/ g = e)
      BY <1>6
    <2>2. /\ g.claim = claims[g.job]
          /\ \/ row[g.job].status = "completed"
             \/ Holds(g) /\ row[g.job].leaseLeft = g.lease
      BY <1>10, <2>1 DEF ClaimInv, SameClaim
    <2>3. CASE row'[g.job] = row[g.job]
      BY <2>1, <2>2, <2>3 DEF Holds, SameClaim
    <2>4. CASE row'[g.job] # row[g.job]
      <3>1. g.job = e.job /\ HoldsLease(e)
        BY <1>1, <1>2, <1>3, <2>4
      <3>2. g = e
        BY <1>4, <2>2, <3>1 DEF ClaimInv
      <3>3. f \notin running \ {e}
        BY <1>5, <2>1, <3>2 DEF SameClaim
      <3>4. row'[e.job].status = "completed"
        BY <2>4, <3>2, <3>3
      <3>. QED
        BY <2>1, <2>2, <3>2, <3>4 DEF SameClaim
    <2>. QED BY <2>3, <2>4
  <1>. QED
    BY <1>7, <1>8, <1>9, <1>10 DEF ClaimInv

\* The updates of complete, retry and fail have the shape that lemma asks for.
LEMMA SettleShape ==
  ASSUME TypeOK, NEW e \in running,
         SetComplete(e) \/ SetRetry(e) \/ SetFail(e)
  PROVE  /\ \/ UNCHANGED row
            \/ /\ HoldsLease(e)
               /\ \E new \in Row : /\ row' = [row EXCEPT ![e.job] = new]
                                   /\ new.status # "processing"
         /\ SetComplete(e) => \/ row'[e.job] = row[e.job]
                              \/ row'[e.job].status = "completed"
  <1>1. e.job \in Jobs /\ row[e.job] \in Row /\ row \in [Jobs -> Row]
    BY DEF TypeOK, Execution
  <1>2. row' \in [Jobs -> Row]
    BY SettledRowType
  <1>3. /\ CompletedRow(e).status = "completed" /\ FailedRow(e).status = "failed"
        /\ \A delay : RetriedRow(e, delay).status = "pending"
    BY <1>1 DEF CompletedRow, FailedRow, RetriedRow, Released, Row
  <1>4. \A new : row' = [row EXCEPT ![e.job] = new] => row'[e.job] = new /\ new \in Row
    BY <1>1, <1>2
  <1>. QED
    BY <1>3, <1>4 DEF SetComplete, SetRetry, SetFail

\* Steps that start no execution and touch no row an execution still answers for.
LEMMA FrameKeepsClaims ==
  ASSUME TypeOK, ClaimInv, UNCHANGED claims, running' \subseteq running,
         \A j \in Jobs : \/ row'[j] = row[j]
                         \/ /\ row[j].status \in {"absent", "failed"}
                            /\ row'[j].status # "processing"
  PROVE  ClaimInv'
  <1>1. \A e \in running' : e \in running /\ e.job \in Jobs
    BY DEF TypeOK, Execution
  <1>2. ASSUME NEW e \in running', Holds(e)'
        PROVE  e.claim = claims'[e.job] /\ e.attempt = row'[e.job].attempts
    <2>1. row'[e.job] = row[e.job]
      BY <1>1, <1>2 DEF Holds
    <2>. QED
      BY <1>1, <1>2, <2>1 DEF ClaimInv, Holds
  <1>3. ASSUME NEW e \in running', e.lease > 0
        PROVE  /\ e.claim = claims'[e.job]
               /\ \/ row'[e.job].status = "completed"
                  \/ Holds(e)' /\ row'[e.job].leaseLeft = e.lease
    <2>1. /\ e.claim = claims[e.job]
          /\ \/ row[e.job].status = "completed"
             \/ Holds(e) /\ row[e.job].leaseLeft = e.lease
      BY <1>1, <1>3 DEF ClaimInv
    <2>2. row'[e.job] = row[e.job]
      BY <1>1, <2>1 DEF Holds
    <2>. QED
      BY <2>1, <2>2 DEF Holds
  <1>. QED
    BY <1>1, <1>2, <1>3 DEF ClaimInv

\* A claim takes rows whose last lease has run out, so the executions it overtakes
\* hold neither the rows nor a lease; the new ones hold both.
LEMMA LeaseKeepsClaims ==
  ASSUME TypeOK, ClaimInv, NEW w \in Workers, NEW batch \in Batches(w),
         \A e \in running : e.worker # w, LeaseTo(w, batch),
         running' = running \/ running' = running \union StartedBy(w, batch)
  PROVE  ClaimInv'
  <1>1. batch \subseteq Jobs /\ row \in [Jobs -> Row] /\ pollLag[w] \in Nat
          /\ claims \in [Jobs -> Nat]
    BY DEF TypeOK, Batches, Available
  <1>2. \A e \in running : /\ e.job \in Jobs /\ e.claim \in Nat
                           /\ e.lease \in Int /\ e.worker # w
    BY DEF TypeOK, Execution
  <1>3. ASSUME NEW j \in batch
        PROVE  /\ row'[j].status = "processing" /\ row'[j].owner = w
               /\ row'[j].attempts = row[j].attempts + 1
               /\ row'[j].leaseLeft = LeaseDuration - pollLag[w]
               /\ claims'[j] = claims[j] + 1
    <2>1. row'[j] = [row[j] EXCEPT !.status = "processing", !.attempts = @ + 1,
                                   !.owner = w,
                                   !.leaseLeft = LeaseDuration - pollLag[w]]
      BY <1>1 DEF LeaseTo
    <2>2. row[j] \in Row
      BY <1>1
    <2>. QED
      BY <1>1, <2>1, <2>2 DEF LeaseTo, Row
  <1>4. \A j \in Jobs \ batch : row'[j] = row[j] /\ claims'[j] = claims[j]
    BY DEF LeaseTo
  <1>5. \A e \in running : e.lease > 0 => e.job \notin batch
    <2>1. \A j \in batch : \/ row[j].status = "pending"
                           \/ row[j].status = "processing" /\ row[j].leaseLeft <= 0
      <3>1. \A j \in batch : row[j].leaseLeft \in Int
        BY <1>1 DEF Row
      <3>. QED BY <1>1, <3>1 DEF Batches, Available
    <2>2. \A e \in running : e.lease > 0 =>
            \/ row[e.job].status = "completed"
            \/ row[e.job].status = "processing" /\ row[e.job].leaseLeft = e.lease
      BY DEF ClaimInv, Holds
    <2>. QED BY <1>2, <2>1, <2>2
  <1>6. \A f \in StartedBy(w, batch) :
          /\ f.worker = w /\ f.job \in batch /\ f.claim = claims[f.job] + 1
          /\ f.attempt = row[f.job].attempts + 1
          /\ f.lease = LeaseDuration - pollLag[w]
    BY DEF StartedBy
  <1>7. \A f, g \in StartedBy(w, batch) : f.job = g.job => f = g
    <2> DEFINE started(j) ==
                 [worker |-> w, job |-> j, claim |-> claims[j] + 1,
                  attempt |-> row[j].attempts + 1, phase |-> "dispatch",
                  failure |-> "none", lag |-> 0,
                  lease |-> LeaseDuration - pollLag[w], awaited |-> TRUE]
    <2>1. StartedBy(w, batch) = {started(j) : j \in batch}
      BY DEF StartedBy
    <2>2. \A j \in batch : started(j).job = j
      OBVIOUS
    <2> HIDE DEF started
    <2>. QED BY <2>1, <2>2
  <1>8. \A j \in Jobs : claims[j] \in Nat /\ claims[j] <= claims'[j]
    BY <1>1, <1>3, <1>4
  <1>9. \A e \in running' : e \in running \/ e \in StartedBy(w, batch)
    OBVIOUS
  <1>10. \A e \in running : e.claim <= claims[e.job]
    BY DEF ClaimInv
  <1>11. \A e \in running' : e.claim <= claims'[e.job]
    <2>1. ASSUME NEW e \in running PROVE e.claim <= claims'[e.job]
      <3>1. e.claim \in Nat /\ claims[e.job] \in Nat /\ claims'[e.job] \in Nat
        BY <1>2, <1>8, LeaseToType
      <3>2. e.claim <= claims[e.job] /\ claims[e.job] <= claims'[e.job]
        BY <1>2, <1>8, <1>10
      <3>. QED BY <3>1, <3>2
    <2>2. \A e \in StartedBy(w, batch) : e.claim <= claims'[e.job]
      BY <1>1, <1>3, <1>6
    <2>. QED BY <1>9, <2>1, <2>2
  <1>12. \A e, f \in running' : e.job = f.job /\ e.claim = f.claim => e = f
    <2>1. \A e \in running, f \in StartedBy(w, batch) :
            ~(e.job = f.job /\ e.claim = f.claim)
      <3> SUFFICES ASSUME NEW e \in running, NEW f \in StartedBy(w, batch),
                          e.job = f.job, e.claim = f.claim
                   PROVE  FALSE
        OBVIOUS
      <3>1. e.claim \in Nat /\ claims[e.job] \in Nat /\ e.claim <= claims[e.job]
        BY <1>2, <1>8, <1>10
      <3>2. f.claim = claims[e.job] + 1
        BY <1>6
      <3>. QED BY <3>1, <3>2
    <2>. QED BY <1>7, <1>9, <2>1 DEF ClaimInv
  <1>13. ASSUME NEW e \in running', Holds(e)'
         PROVE  e.claim = claims'[e.job] /\ e.attempt = row'[e.job].attempts
    <2>1. CASE e \in running
      <3>1. e.job \notin batch
        BY <1>2, <1>3, <1>13, <2>1 DEF Holds
      <3>. QED
        BY <1>2, <1>4, <1>13, <2>1, <3>1 DEF ClaimInv, Holds
    <2>2. CASE e \in StartedBy(w, batch)
      BY <1>3, <1>6, <2>2
    <2>. QED BY <1>9, <2>1, <2>2
  <1>14. ASSUME NEW e \in running', e.lease > 0
         PROVE  /\ e.claim = claims'[e.job]
                /\ \/ row'[e.job].status = "completed"
                   \/ Holds(e)' /\ row'[e.job].leaseLeft = e.lease
    <2>1. CASE e \in running
      <3>1. row'[e.job] = row[e.job] /\ claims'[e.job] = claims[e.job]
        BY <1>2, <1>4, <1>5, <1>14, <2>1
      <3>. QED
        BY <1>14, <2>1, <3>1 DEF ClaimInv, Holds
    <2>2. CASE e \in StartedBy(w, batch)
      BY <1>3, <1>6, <2>2 DEF Holds
    <2>. QED BY <1>9, <2>1, <2>2
  <1>. QED
    BY <1>11, <1>12, <1>13, <1>14 DEF ClaimInv

\* A tick moves a lease and the row it was taken on alike.
LEMMA TickKeepsClaims == TypeOK /\ ClaimInv /\ Tick => ClaimInv'
  <1> SUFFICES ASSUME TypeOK, ClaimInv, Tick PROVE ClaimInv'
    OBVIOUS
  <1>1. ASSUME NEW f \in running'
        PROVE  \E g \in running :
                 /\ f.worker = g.worker /\ f.job = g.job /\ f.claim = g.claim
                 /\ f.attempt = g.attempt /\ f.lease = CountDown(g.lease)
                 /\ f = [g EXCEPT !.lag = IF HasClock(g) THEN @ + 1 ELSE @,
                                  !.lease = CountDown(@)]
    <2>1. PICK g \in running :
            f = [g EXCEPT !.lag = IF HasClock(g) THEN @ + 1 ELSE @,
                          !.lease = CountDown(@)]
      BY DEF Tick
    <2>2. g \in Execution
      BY DEF TypeOK
    <2>. QED BY <2>1, <2>2 DEF Execution
  <1>2. ASSUME NEW j \in Jobs
        PROVE  /\ row'[j].status = row[j].status /\ row'[j].owner = row[j].owner
               /\ row'[j].attempts = row[j].attempts
               /\ row[j].status = "processing" =>
                    row'[j].leaseLeft = CountDown(row[j].leaseLeft)
    <2>1. row' = [k \in Jobs |->
            [row[k] EXCEPT !.dueIn = CountDown(@),
                           !.leaseLeft = IF row[k].status = "processing"
                                         THEN CountDown(@) ELSE @]]
      BY DEF Tick
    <2>2. row[j] \in Row
      BY DEF TypeOK
    <2>. QED BY <2>1, <2>2 DEF Row
  <1>3. claims' = claims
    BY DEF Tick, history
  <1>4. \A f \in running : f.job \in Jobs /\ f.lease \in Int
    BY DEF TypeOK, Execution
  <1>5. \A n \in Int : CountDown(n) > 0 => n > 0
    BY ConstantsAssumption DEF Configured, CountDown
  <1>6. \A f \in running' : f.claim <= claims'[f.job]
    BY <1>1, <1>3 DEF ClaimInv
  <1>7. ASSUME NEW f \in running', NEW g \in running', f.job = g.job, f.claim = g.claim
        PROVE  f = g
    <2> DEFINE aged(e) == [e EXCEPT !.lag = IF HasClock(e) THEN @ + 1 ELSE @,
                                    !.lease = CountDown(@)]
    <2>1. PICK a \in running : a.job = f.job /\ a.claim = f.claim /\ f = aged(a)
      BY <1>1
    <2>2. PICK b \in running : b.job = g.job /\ b.claim = g.claim /\ g = aged(b)
      BY <1>1
    <2> HIDE DEF aged
    <2>3. a = b
      BY <1>7, <2>1, <2>2 DEF ClaimInv
    <2>. QED BY <2>1, <2>2, <2>3
  <1>8. ASSUME NEW f \in running', Holds(f)'
        PROVE  f.claim = claims'[f.job] /\ f.attempt = row'[f.job].attempts
    <2>1. PICK g \in running : /\ f.worker = g.worker /\ f.job = g.job
                               /\ f.claim = g.claim /\ f.attempt = g.attempt
      BY <1>1
    <2>2. Holds(g)
      BY <1>2, <1>4, <1>8, <2>1 DEF Holds
    <2>. QED BY <1>2, <1>3, <1>4, <2>1, <2>2 DEF ClaimInv
  <1>9. ASSUME NEW f \in running', f.lease > 0
        PROVE  /\ f.claim = claims'[f.job]
               /\ \/ row'[f.job].status = "completed"
                  \/ Holds(f)' /\ row'[f.job].leaseLeft = f.lease
    <2>1. PICK g \in running : /\ f.worker = g.worker /\ f.job = g.job
                               /\ f.claim = g.claim /\ f.lease = CountDown(g.lease)
      BY <1>1
    <2>2. g.lease > 0
      BY <1>4, <1>5, <1>9, <2>1
    <2>3. /\ g.claim = claims[g.job]
          /\ \/ row[g.job].status = "completed"
             \/ Holds(g) /\ row[g.job].leaseLeft = g.lease
      BY <2>2 DEF ClaimInv
    <2>. QED
      BY <1>2, <1>3, <1>4, <2>1, <2>3 DEF Holds
  <1>. QED
    BY <1>6, <1>7, <1>8, <1>9 DEF ClaimInv

\* Catching an error changes an execution's phase, not the claim it stands for.
LEMMA CaughtSameClaim ==
  ASSUME TypeOK, NEW e \in running, NEW failure, Caught(e, failure)
  PROVE  \E next : running' = (running \ {e}) \union {next} /\ SameClaim(e, next)
  <1> DEFINE p == IF failure = "retryable" /\ e.attempt < MaxAttempts
                  THEN "retry" ELSE "fail"
             next == [e EXCEPT !.failure = failure, !.lag = 0, !.phase = p]
  <1>1. e \in Execution
    BY DEF TypeOK
  <1>2. SameClaim(e, next)
    <2> HIDE DEF p
    <2>. QED BY <1>1 DEF SameClaim, Execution
  <1>3. running' = (running \ {e}) \union {next}
    BY DEF Caught, Becomes
  <1> HIDE DEF next
  <1>. QED
    BY <1>2, <1>3

LEMMA NextClaims ==
  ASSUME MaxSettleErrors = 0, TypeOK, OneBatch, ClaimInv, [Next]_vars
  PROVE  ClaimInv'
  <1>1. ASSUME NEW j \in Jobs, Enqueue(j) PROVE ClaimInv'
    <2>1. PICK delay \in StartDelays :
            row' = [row EXCEPT ![j].status = "pending", ![j].dueIn = delay]
      BY <1>1 DEF Enqueue
    <2>2. row \in [Jobs -> Row] /\ row[j] \in Row /\ row[j].status = "absent"
      BY <1>1 DEF TypeOK, Enqueue
    <2>3. row'[j].status = "pending" /\ \A k \in Jobs \ {j} : row'[k] = row[k]
      BY <2>1, <2>2 DEF Row
    <2>. QED
      BY <1>1, <2>2, <2>3, FrameKeepsClaims DEF Enqueue, history
  <1>2. ASSUME NEW w \in Workers, Poll(w) \/ Leave(w) PROVE ClaimInv'
    BY <1>2, FrameKeepsClaims DEF Poll, Leave, history
  <1>3. ASSUME NEW w \in Workers, Claim(w) \/ ClaimThrows(w) PROVE ClaimInv'
    <2>1. \A e \in running : e.worker # w
      BY <1>3 DEF OneBatch, Claim, ClaimThrows
    <2>. QED
      BY <1>3, <2>1, LeaseKeepsClaims, FrameKeepsClaims DEF Claim, ClaimThrows
  <1>4. ASSUME NEW e \in running, HandlerReturns(e) PROVE ClaimInv'
    <2> DEFINE next == [e EXCEPT !.phase = "complete", !.lag = 0]
    <2>1. e \in Execution
      BY DEF TypeOK
    <2>2. SameClaim(e, next)
      BY <2>1 DEF SameClaim, Execution
    <2>3. running' = (running \ {e}) \union {next}
      BY <1>4 DEF HandlerReturns, Becomes
    <2> HIDE DEF next
    <2>. QED
      BY <1>4, <2>2, <2>3, SettleKeepsClaims DEF HandlerReturns
  <1>5. ASSUME NEW e \in running, HandlerThrows(e) PROVE ClaimInv'
    <2>1. \E next : running' = (running \ {e}) \union {next} /\ SameClaim(e, next)
      BY <1>5, CaughtSameClaim DEF HandlerThrows
    <2>. QED
      BY <1>5, <2>1, SettleKeepsClaims DEF HandlerThrows, history
  <1>6. ASSUME NEW e \in running, CompleteThrows(e) PROVE ClaimInv'
    <2>1. \E next : running' = (running \ {e}) \union {next} /\ SameClaim(e, next)
      BY <1>6, CaughtSameClaim DEF CompleteThrows
    <2>2. UNCHANGED claims /\ (SetComplete(e) \/ UNCHANGED row)
      BY <1>6 DEF CompleteThrows, history
    <2>. QED
      BY <2>1, <2>2, SettleKeepsClaims, SettleShape
  <1>7. ASSUME NEW e \in running, Complete(e) \/ Retry(e) \/ Fail(e) PROVE ClaimInv'
    <2>1. UNCHANGED claims /\ running' = running \ {e}
      BY <1>7 DEF Complete, Retry, Fail, history
    <2>2. SetComplete(e) \/ SetRetry(e) \/ SetFail(e)
      BY <1>7 DEF Complete, Retry, Fail
    <2>. QED
      BY <2>1, <2>2, SettleKeepsClaims, SettleShape
  <1>8. ASSUME NEW e \in running, SettleThrows(e) PROVE ClaimInv'
    BY <1>8 DEF SettleThrows, TypeOK
  <1>9. ASSUME NEW o \in Operators, RetryFailedJob(o) PROVE ClaimInv'
    <2> DEFINE j == review[o].job
    <2>1. j \in Jobs
      BY <1>9 DEF RetryFailedJob, Reopen, TypeOK, Review
    <2>2. row \in [Jobs -> Row] /\ row[j] \in Row
      BY <2>1 DEF TypeOK
    <2>3. /\ row' = [row EXCEPT ![j].status = "pending", ![j].attempts = 0,
                                ![j].failure = "none", ![j].dueIn = 0,
                                ![j].manualRetries = @ + 1]
          /\ row[j].status = "failed" /\ UNCHANGED <<running, claims>>
      BY <1>9 DEF RetryFailedJob, Reopen, history
    <2> HIDE DEF j
    <2>4. row'[j].status = "pending" /\ \A k \in Jobs \ {j} : row'[k] = row[k]
      BY <2>1, <2>2, <2>3 DEF Row
    <2>. QED
      BY <2>3, <2>4, FrameKeepsClaims
  <1>10. ASSUME NEW o \in Operators, NEW j \in Jobs, Inspect(o, j) PROVE ClaimInv'
    BY <1>10, FrameKeepsClaims DEF Inspect, history
  <1>11. ASSUME Tick PROVE ClaimInv'
    BY <1>11, TickKeepsClaims
  <1>12. CASE UNCHANGED vars
    BY <1>12, FrameKeepsClaims DEF vars, history
  <1>. QED
    BY <1>1, <1>2, <1>3, <1>4, <1>5, <1>6, <1>7, <1>8, <1>9, <1>10, <1>11, <1>12
    DEF Next, Advance, Shutdown, Crash

\* A loop claims again only when all it started has ended.
LEMMA NextBatch ==
  ASSUME MaxSettleErrors = 0, TypeOK, OneBatch, [Next]_vars
  PROVE  OneBatch'
  <1>1. ASSUME running' \subseteq running, loop' = loop PROVE OneBatch'
    BY <1>1 DEF OneBatch
  <1>2. ASSUME NEW w \in Workers, Poll(w) PROVE OneBatch'
    <2>1. \A e \in running : e.worker # w
      BY <1>2 DEF Poll, BatchDone, OneBatch
    <2>2. loop' = [loop EXCEPT ![w] = "polled"] /\ running' = running
      BY <1>2 DEF Poll
    <2>. QED BY <2>1, <2>2 DEF OneBatch, TypeOK
  <1>3. ASSUME NEW w \in Workers, Claim(w) PROVE OneBatch'
    <2>1. PICK batch \in Batches(w) :
            /\ loop' = [loop EXCEPT ![w] = IF batch = {} THEN "asleep" ELSE "idle"]
            /\ running' = running \union StartedBy(w, batch)
      BY <1>3 DEF Claim
    <2>2. \A f \in StartedBy(w, batch) : f.worker = w /\ f.awaited /\ batch # {}
      <3>1. \A j \in batch : batch # {}
        OBVIOUS
      <3>. QED BY <3>1 DEF StartedBy
    <2>3. \A e \in running : e.worker # w /\ e.awaited
      BY <1>3 DEF Claim, OneBatch
    <2>4. \A e \in running' : e \in running \/ e \in StartedBy(w, batch)
      BY <2>1
    <2>5. \A e \in running' : e.awaited
      BY <2>2, <2>3, <2>4
    <2>6. ASSUME NEW u \in Workers, loop'[u] \in {"polled", "asleep"},
                 NEW e \in running', e.worker = u
          PROVE  FALSE
      <3>1. CASE u = w
        <4>1. batch = {}
          BY <2>1, <2>6, <3>1 DEF TypeOK
        <4>. QED BY <2>2, <2>3, <2>4, <2>6, <3>1, <4>1
      <3>2. CASE u # w
        BY <2>1, <2>2, <2>4, <2>6, <3>2 DEF OneBatch, TypeOK
      <3>. QED BY <3>1, <3>2
    <2>. QED BY <2>5, <2>6 DEF OneBatch
  <1>4. ASSUME NEW w \in Workers, ClaimThrows(w) PROVE OneBatch'
    BY <1>4 DEF ClaimThrows, OneBatch, TypeOK
  <1>5. ASSUME NEW w \in Workers, Leave(w) PROVE OneBatch'
    BY <1>5 DEF Leave, OneBatch, TypeOK
  <1>6. ASSUME NEW e \in running, loop' = loop,
               \E next : running' = (running \ {e}) \union {next} /\ SameClaim(e, next)
        PROVE  OneBatch'
    BY <1>6 DEF OneBatch, SameClaim
  <1>7. ASSUME NEW e \in running, HandlerReturns(e) PROVE OneBatch'
    <2> DEFINE next == [e EXCEPT !.phase = "complete", !.lag = 0]
    <2>1. e \in Execution
      BY DEF TypeOK
    <2>2. SameClaim(e, next)
      BY <2>1 DEF SameClaim, Execution
    <2>3. running' = (running \ {e}) \union {next} /\ loop' = loop
      BY <1>7 DEF HandlerReturns, Becomes
    <2> HIDE DEF next
    <2>. QED
      BY <1>6, <2>2, <2>3
  <1>8. ASSUME NEW e \in running, HandlerThrows(e) \/ CompleteThrows(e) PROVE OneBatch'
    BY <1>6, <1>8, CaughtSameClaim DEF HandlerThrows, CompleteThrows
  <1>9. ASSUME NEW e \in running, Complete(e) \/ Retry(e) \/ Fail(e) PROVE OneBatch'
    BY <1>1, <1>9 DEF Complete, Retry, Fail
  <1>10. ASSUME NEW e \in running, SettleThrows(e) PROVE OneBatch'
    BY <1>10 DEF SettleThrows, TypeOK
  <1>11. ASSUME Tick PROVE OneBatch'
    <2>1. ASSUME NEW f \in running'
          PROVE  \E g \in running : f.worker = g.worker /\ f.awaited = g.awaited
      <3>1. PICK g \in running :
              f = [g EXCEPT !.lag = IF HasClock(g) THEN @ + 1 ELSE @,
                            !.lease = CountDown(@)]
        BY <1>11 DEF Tick
      <3>2. g \in Execution
        BY DEF TypeOK
      <3>. QED BY <3>1, <3>2 DEF Execution
    <2>2. loop' = [w \in Workers |-> IF loop[w] = "asleep" THEN "idle" ELSE loop[w]]
      BY <1>11 DEF Tick
    <2>. QED BY <2>1, <2>2 DEF OneBatch
  <1>12. ASSUME \/ \E j \in Jobs : Enqueue(j)
                \/ \E o \in Operators : RetryFailedJob(o) \/ \E j \in Jobs : Inspect(o, j)
                \/ UNCHANGED vars
         PROVE  OneBatch'
    BY <1>1, <1>12 DEF Enqueue, RetryFailedJob, Reopen, Inspect, vars
  <1>. QED
    BY <1>2, <1>3, <1>4, <1>5, <1>7, <1>8, <1>9, <1>10, <1>11, <1>12
    DEF Next, Advance, Shutdown, Crash

\* The execution that settles a row was given the attempt count the row still has.
LEMMA NextBudget ==
  ASSUME TypeOK, RecordInv, ClaimInv, AttemptBudget, [Next]_vars
  PROVE  AttemptBudget'
  <1> SUFFICES ASSUME NEW j \in Jobs
               PROVE  /\ row'[j].status = "pending" => row'[j].attempts < MaxAttempts
                      /\ row'[j].status = "failed" /\ row'[j].failure = "retryable"
                           => row'[j].attempts >= MaxAttempts
    BY DEF AttemptBudget
  <1>1. Kept(j) \/ Leased(j) \/ Enqueued(j) \/ Reopened(j)
          \/ \E e \in running : SettledBy(j, e)
    BY RowSteps DEF RowStep
  <1>2. CASE \E e \in running : SettledBy(j, e)
    <2>1. PICK e \in running : SettledBy(j, e)
      BY <1>2
    <2>2. e.attempt = row[j].attempts
      BY <2>1 DEF SettledBy, ClaimInv
    <2>. QED
      BY <2>1, <2>2 DEF SettledBy, RecordInv, PhaseInv
  <1>3. CASE Enqueued(j) \/ Reopened(j)
    BY <1>3, ConstantsAssumption DEF Configured, Enqueued, Reopened, RecordInv, RowInv
  <1>4. CASE Kept(j) \/ Leased(j)
    BY <1>4 DEF Kept, Leased, AttemptBudget
  <1>. QED
    BY <1>1, <1>2, <1>3, <1>4

LEMMA FencingCorrect ==
  ASSUME MaxSettleErrors = 0
  PROVE  Spec => [](TypeOK /\ RecordInv /\ FencingInv)
  <1>1. Init => FencingInv
    BY ConstantsAssumption DEF Configured, Init, FencingInv, OneBatch, ClaimInv, AttemptBudget
  <1>2. TypeOK /\ RecordInv /\ FencingInv /\ [Next]_vars
          => (TypeOK /\ RecordInv /\ FencingInv)'
    BY NextType, NextRecord, NextClaims, NextBatch, NextBudget DEF FencingInv
  <1>. QED
    BY InitType, InitRecord, <1>1, <1>2, PTL DEF Spec

\* While retry() and fail() do not throw, no two executions of a job hold its lease
\* at the same time, however often leases run out, processes crash and answers are lost.
THEOREM LeasesAreExclusive ==
  ASSUME MaxSettleErrors = 0
  PROVE  Spec => []LeaseIsExclusive
  <1>1. FencingInv => LeaseIsExclusive
    BY DEF FencingInv, ClaimInv, LeaseIsExclusive
  <1>. QED
    BY FencingCorrect, <1>1, PTL

\* Under the same condition the automatic budget is kept: an attempt count that
\* outran it by crashes is never waiting for another attempt.
THEOREM BudgetIsKept ==
  ASSUME MaxSettleErrors = 0
  PROVE  Spec => []AttemptBudget
  BY FencingCorrect, PTL DEF FencingInv

\* Under the same condition an expired lease that was claimed again rejects its former
\* owner: the fence by worker id is then as good as one by claim.
THEOREM FormerOwnersAreRejected ==
  ASSUME MaxSettleErrors = 0
  PROVE  Spec => FormerOwnerIsRejected
  <1>1. ASSUME TypeOK, FencingInv, Next, NEW e \in running, e.claim # claims[e.job],
               \A f \in running' : f.job = e.job => f.claim # e.claim
        PROVE  row'[e.job] = row[e.job]
    <2>1. e \notin running' /\ \A f \in running' : ~SameClaim(e, f)
      BY <1>1 DEF SameClaim
    <2>2. ~HoldsLease(e)
      BY <1>1 DEF HoldsLease, Holds, FencingInv, ClaimInv
    <2>3. ASSUME Tick PROVE FALSE
      <3> DEFINE next == [e EXCEPT !.lag = IF HasClock(e) THEN @ + 1 ELSE @,
                                   !.lease = CountDown(@)]
      <3>1. e \in Execution
        BY <1>1 DEF TypeOK
      <3>2. next.job = e.job /\ next.claim = e.claim
        BY <3>1 DEF Execution
      <3>3. next \in running'
        BY <2>3 DEF Tick
      <3>. QED BY <1>1, <3>2, <3>3
    <2>4. ASSUME NEW f \in running, HandlerReturns(f) PROVE row' = row
      BY <2>4 DEF HandlerReturns
    <2>5. ASSUME NEW f \in running, CompleteThrows(f) PROVE FALSE
      BY <1>1, <2>1, <2>5, CaughtSameClaim DEF CompleteThrows
    <2>6. ASSUME NEW f \in running, Complete(f) \/ Retry(f) \/ Fail(f)
          PROVE  row' = row
      <3>1. f = e
        BY <2>1, <2>6 DEF Complete, Retry, Fail
      <3>. QED
        BY <2>2, <2>6, <3>1
        DEF Complete, Retry, Fail, SetComplete, SetRetry, SetFail
    <2>7. ASSUME NEW f \in running, SettleThrows(f) PROVE FALSE
      BY <1>1, <2>7 DEF SettleThrows, TypeOK
    <2>. QED
      BY <1>1, <2>1, <2>3, <2>4, <2>5, <2>6, <2>7
      DEF Next, Advance, Shutdown, Crash, Leave, Enqueue, Poll, Claim, ClaimThrows,
          HandlerThrows, RetryFailedJob, Reopen, Inspect
  <1>2. TypeOK /\ FencingInv /\ [Next]_vars =>
          [\A e \in running :
             /\ e.claim # claims[e.job]
             /\ \A f \in running' : f.job = e.job => f.claim # e.claim
             => row'[e.job] = row[e.job]]_vars
    BY <1>1
  <1>. QED
    BY FencingCorrect, <1>2, PTL DEF Spec, FormerOwnerIsRejected
=============================================================================
