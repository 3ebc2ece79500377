-------------------------- MODULE UsageAggregation --------------------------
(***************************************************************************)
(* Usage events, their corrections, and the hourly buckets derived from    *)
(* them: the API that accepts events, the worker's jobs that process one   *)
(* event, rebuild the buckets of a meter version and reconcile them with   *)
(* the events, and the retention of event properties.                      *)
(*                                                                         *)
(* A job's handler is a transaction at READ COMMITTED.  It reads the       *)
(* events of a bucket in one statement and writes the bucket in a later    *)
(* one; it locks the bucket's row when it writes it and not when it reads  *)
(* the events.  Accepting an event is one step: its only lock is the key   *)
(* of its event, or the event it corrects, and it reads nothing earlier    *)
(* that it uses later but the clock.                                       *)
(*                                                                         *)
(* A bucket stands for one row of one meter version, customer, hour and    *)
(* combination of dimensions.  Its value is the set of events it counts:   *)
(* quantities are taken to be such that two sets never add up to the same. *)
(***************************************************************************)
EXTENDS Integers, Sequences

CONSTANTS
  Events,        \* usage events, by their key
  Buckets,       \* rows of usage_buckets
  Workers,       \* handlers that may be running at the same time
  Run,           \* a reconciliation run, and its job
  Rebuild,       \* the rebuild of the meter version, and its job
  None,          \* no event, bucket, time or session
  Settings,      \* what clients send, how the meter is defined, what operators do
  RetentionAge,  \* age at which the properties of an event are removed
  MaxLag,        \* age of a request's clock value when its transaction commits
  MaxAttempts,   \* attempts after which a retryable failure fails the job
  Horizon,       \* bound: the last moment of the clock
  MaxLost        \* bound: transactions and outcomes lost with their process

Jobs == Events \union {Run, Rebuild}

\* sent are the events of the clients, of is the event that an event corrects, reversals
\* are the corrections that replace it by nothing, bucket is where the meter counts an
\* event (None when its filters exclude it).  erased says what the meter makes of an
\* event without properties: "counted" without filters, dimensions and value, "skipped"
\* when a filter or a dimension excludes it, "rejected" when its value is missing.
\* occurs says what operators, retention and failures add.
Setting ==
  [sent: SUBSET Events, of: [Events -> Events \union {None}], reversals: SUBSET Events,
   bucket: [Events -> Buckets \union {None}],
   erased: {"counted", "skipped", "rejected"},
   occurs: SUBSET {"retain", "rebuild", "reconcile", "repair", "loss"}]

ASSUME ConstantsAssumption ==
  /\ None \notin Events \union Buckets \union Nat
  /\ \A S \in SUBSET Events : S # None
  /\ Run \notin Events /\ Rebuild \notin Events /\ Run # Rebuild
  /\ Settings \subseteq Setting
  /\ \A s \in Settings : \A e \in s.reversals :
       s.of[e] # None /\ s.bucket[e] = s.bucket[s.of[e]]
  /\ RetentionAge \in Nat /\ MaxLag \in Nat /\ MaxAttempts \in Nat
  /\ Horizon \in Nat /\ MaxLost \in Nat

VARIABLES
  now,        \* the clock
  setting,    \* one of Settings, for good
  received,   \* received_at of each stored event
  redacted,   \* events whose properties were removed
  run,        \* the run is "open" until its transaction is committed
  job,        \* the jobs: one for each stored event, one for a run, one for a rebuild
  attempts,   \* how often each was claimed, kept as long as it is open
  watermark,  \* input_watermark of the run
  bucket,     \* the committed rows, {} when there is none
  session,    \* the handlers at work
  lost,       \* what MaxLost counts
  raced       \* history: rows last written by a transaction that ran beside another
              \* one on the same row, or by a repair that newer events preceded

vars == <<now, setting, received, redacted, run, job, attempts, watermark, bucket, session,
          lost, raced>>
stored == <<received, redacted, run>>

-----------------------------------------------------------------------------
(* State *)

\* Values for some of the buckets.
Values == [Buckets -> {None} \union SUBSET Events]

NoValues == [b \in Buckets |-> None]

Given(values) == {b \in Buckets : values[b] # None}

\* event is the one being processed, left those a rebuild has yet to process, todo the
\* buckets still to be read, plan the values read and not yet written, written the
\* uncommitted writes and so the rows that are locked.  shared is history: the rows
\* another session worked on at the same time.
Session ==
  [task: Jobs, event: Events \union {None}, left: SUBSET Events,
   todo: Seq(Buckets), plan: Values, written: Values, shared: SUBSET Buckets, phase: {"between", "open", "compare", "committed"}]

TypeOK ==
  /\ now \in Nat /\ lost \in Nat
  /\ setting \in Settings
  /\ received \in [Events -> Nat \union {None}]
  /\ redacted \subseteq Events
  /\ run \in {"open", "completed"}
  /\ job \in [Jobs -> {"none", "queued", "done", "failed", "exhausted"}]
  /\ attempts \in [Jobs -> Nat]
  /\ watermark \in Nat \union {None}
  /\ bucket \in [Buckets -> SUBSET Events]
  /\ session \in [Workers -> Session \union {None}]
  /\ raced \subseteq Buckets

Init ==
  /\ now = 0 /\ lost = 0
  /\ setting \in Settings
  /\ received = [e \in Events |-> None]
  /\ redacted = {} /\ run = "open"
  /\ job = [j \in Jobs |-> "none"]
  /\ attempts = [j \in Jobs |-> 0]
  /\ watermark = None
  /\ bucket = [b \in Buckets |-> {}]
  /\ session = [w \in Workers |-> None]
  /\ raced = {}

-----------------------------------------------------------------------------
(* Effective events and their aggregate *)

Stored == {e \in Events : received[e] # None}

\* Mutant: a correction does not suppress the event it corrects.
EffectiveAtUncorrected(w) ==
  {e \in Stored : received[e] <= w /\ e \notin setting.reversals}

\* The terminal, billable events of each correction chain, as of a watermark.
EffectiveAt(w) ==
  {e \in Stored :
     /\ received[e] <= w
     /\ e \notin setting.reversals
     /\ ~\E c \in Stored : setting.of[c] = e /\ received[c] <= w}

Effective == EffectiveAt(now)

Within(S, b) == {e \in S : setting.bucket[e] = b}

\* What aggregateBucket makes of a set of events: those without properties may be
\* skipped silently, or make it throw.
Aggregate(S, b) ==
  {e \in Within(S, b) : e \in redacted => setting.erased = "counted"}

AggregateThrows(S, b) ==
  setting.erased = "rejected" /\ Within(S, b) \intersect redacted # {}

\* Mutant: only the new event's bucket is rebuilt.
AffectedByNewOnly(e) == IF setting.bucket[e] = None THEN <<>> ELSE <<setting.bucket[e]>>

\* Mutant: a meter is rebuilt although its filters exclude the event.
AffectedUnfiltered(e) ==
  IF setting.of[e] = None THEN <<setting.bucket[e]>>
  ELSE <<setting.bucket[e], setting.bucket[setting.of[e]]>>

\* The buckets that processing an event rebuilds: its own, and that of the event it
\* corrects.
Affected(e) ==
  LET corrected == setting.of[e]
      own == IF setting.bucket[e] = None THEN <<>> ELSE <<setting.bucket[e]>>
  IN IF \/ corrected = None \/ setting.bucket[corrected] \in {None, setting.bucket[e]}
     THEN own
     ELSE Append(own, setting.bucket[corrected])

\* The event's properties, or those of the event it corrects, are gone.
SourceRedacted(e) == e \in redacted \/ setting.of[e] \in redacted

-----------------------------------------------------------------------------
(* The API: accepting events and corrections.  A duplicate finds its event and its    *)
(* job; what is refused leaves nothing. *)

\* A correction needs a stored event that has its properties and no correction yet;
\* an event needs a new key.
Acceptable(e) ==
  LET corrected == setting.of[e]
  IN /\ e \in setting.sent \ Stored
     /\ corrected # None =>
          /\ corrected \in Stored \ redacted
          /\ ~\E c \in Stored : setting.of[c] = corrected

\* Mutant: the job of the event is inserted after the transaction, and lost.
AcceptWithoutJob(e) ==
  /\ Acceptable(e)
  /\ \E at \in now - MaxLag..now : at >= 0 /\ received' = [received EXCEPT ![e] = at]
  /\ UNCHANGED <<now, setting, redacted, run, job, attempts, watermark, bucket, session,
                 lost, raced>>

\* The event and its job.  The service has read its clock before the transaction.
Accept(e) ==
  /\ Acceptable(e)
  /\ \E at \in now - MaxLag..now : at >= 0 /\ received' = [received EXCEPT ![e] = at]
  /\ job' = [job EXCEPT ![e] = "queued"]
  /\ UNCHANGED <<now, setting, redacted, run, attempts, watermark, bucket, session, lost,
                 raced>>

-----------------------------------------------------------------------------
(* Operators and retention *)

\* An administrator asks for a run; its watermark is the time of the request.
CreateRun ==
  /\ setting.occurs \intersect {"reconcile", "repair"} # {}
  /\ job[Run] = "none"
  /\ watermark' = now
  /\ job' = [job EXCEPT ![Run] = "queued"]
  /\ UNCHANGED <<now, setting, stored, attempts, bucket, session, lost, raced>>

\* Publishing the meter version queues the rebuild of its range.
QueueRebuild ==
  /\ "rebuild" \in setting.occurs
  /\ job[Rebuild] = "none"
  /\ job' = [job EXCEPT ![Rebuild] = "queued"]
  /\ UNCHANGED <<now, setting, stored, attempts, watermark, bucket, session, lost, raced>>

\* Mutant: retention does not ask whether an event was processed.
EligibleUnprocessed ==
  {e \in Stored \ redacted : received[e] + RetentionAge <= now}

\* Events whose own job is completed and that are old enough.
Eligible ==
  {e \in Stored \ redacted : job[e] = "done" /\ received[e] + RetentionAge <= now}

Redact ==
  /\ "retain" \in setting.occurs
  /\ Eligible # {}
  /\ redacted' = redacted \union Eligible
  /\ UNCHANGED <<now, setting, received, run, job, attempts, watermark, bucket, session,
                 lost, raced>>

-----------------------------------------------------------------------------
(* Handlers *)

\* The worker is given the lease of a job that no other handler works on.
Claims(w, j) ==
  /\ session[w] = None
  /\ job[j] = "queued"
  /\ \A o \in Workers : session[o] # None => session[o].task # j

Claimed(j) == attempts' = [attempts EXCEPT ![j] = @ + 1] /\ UNCHANGED job

Opened(j) ==
  [task |-> j, event |-> None, left |-> {}, todo |-> <<>>, plan |-> NoValues,
   written |-> NoValues, shared |-> {}, phase |-> "between"]

Processing(s, e) == [s EXCEPT !.event = e, !.todo = Affected(e), !.phase = "open"]

Settle(w, j, outcome) ==
  /\ job' = [job EXCEPT ![j] = outcome]
  /\ attempts' = [attempts EXCEPT ![j] = 0]
  /\ session' = [session EXCEPT ![w] = None]

\* A permanent failure: the transaction is rolled back and the job is failed.
FailPermanently(w, j) == Settle(w, j, "failed")

\* The job of an event: read the event, and the event it corrects.
BeginEvent(w, e) ==
  /\ Claims(w, e)
  /\ IF SourceRedacted(e)
     THEN FailPermanently(w, e)
     ELSE /\ session' = [session EXCEPT ![w] = Processing(Opened(e), e)]
          /\ Claimed(e)
  /\ UNCHANGED <<now, setting, stored, watermark, bucket, lost, raced>>

\* A rebuild looks for redacted events once, then takes the page of its events.
BeginRebuild(w) ==
  /\ Claims(w, Rebuild)
  /\ IF redacted # {}
     THEN FailPermanently(w, Rebuild)
     ELSE /\ session' = [session EXCEPT ![w] = [Opened(Rebuild) EXCEPT !.left = Stored]]
          /\ Claimed(Rebuild)
  /\ UNCHANGED <<now, setting, stored, watermark, bucket, lost, raced>>

\* The next event of a rebuild, in a transaction of its own.
RebuildNext(w) ==
  /\ session[w] # None /\ session[w].phase = "between"
  /\ \E e \in session[w].left :
       IF SourceRedacted(e)
       THEN FailPermanently(w, Rebuild)
       ELSE /\ session' = [session EXCEPT
                             ![w] = [Processing(session[w], e) EXCEPT !.left = @ \ {e}]]
            /\ UNCHANGED <<job, attempts>>
  /\ UNCHANGED <<now, setting, stored, watermark, bucket, lost, raced>>

\* The rows a session works on.
Touches(o, b) ==
  session[o] # None /\ b \in Given(session[o].plan) \union Given(session[o].written)

\* What the sessions know of each other once w has read the events of the rows B.
Shared(w, B) ==
  LET met == {b \in B : \E o \in Workers \ {w} : Touches(o, b)}
  IN [o \in Workers |->
        IF session[o] = None THEN None
        ELSE [session[o] EXCEPT
                !.shared = @ \union IF o = w THEN met ELSE {b \in met : Touches(o, b)}]]

\* Read the effective events of the next bucket.
Read(w) ==
  /\ session[w] # None /\ session[w].phase = "open"
  /\ session[w].plan = NoValues /\ session[w].todo # <<>>
  /\ LET b == Head(session[w].todo)
     IN IF AggregateThrows(Effective, b)
        THEN FailPermanently(w, session[w].task)
        ELSE /\ session' = [Shared(w, {b}) EXCEPT
                              ![w].todo = Tail(@),
                              ![w].plan[b] = Aggregate(Effective, b)]
             /\ UNCHANGED <<job, attempts>>
  /\ UNCHANGED <<now, setting, stored, watermark, bucket, lost, raced>>

\* A run that is completed has nothing left to do.  Any other one computes what the
\* buckets should be as of its watermark.
BeginRun(w) ==
  LET events == EffectiveAt(watermark)
  IN /\ Claims(w, Run)
     /\ IF run = "completed"
        THEN /\ session' = [session EXCEPT ![w] = [Opened(Run) EXCEPT !.phase = "committed"]]
             /\ Claimed(Run)
        ELSE IF events \intersect redacted # {}
        THEN FailPermanently(w, Run)
        ELSE /\ session' = [Shared(w, Buckets) EXCEPT
                   ![w] = [Opened(Run) EXCEPT
                             !.plan = [b \in Buckets |-> Aggregate(events, b)],
                             !.shared = {b \in Buckets : \E o \in Workers : Touches(o, b)},
                             !.phase = "compare"]]
             /\ Claimed(Run)
     /\ UNCHANGED <<now, setting, stored, watermark, bucket, lost, raced>>

\* It then reads the buckets; with repair it goes on to write those that differ.
Compare(w) ==
  /\ session[w] # None /\ session[w].phase = "compare"
  /\ LET repaired(b) == "repair" \in setting.occurs /\ session[w].plan[b] # bucket[b]
     IN session' = [session EXCEPT
                      ![w].plan = [b \in Buckets |-> IF repaired(b) THEN @[b] ELSE None],
                      ![w].phase = "open"]
  /\ UNCHANGED <<now, setting, stored, job, attempts, watermark, bucket, lost, raced>>

Locks(o, b) == session[o] # None /\ session[o].written[b] # None

\* A delete that sees no committed row waits for nobody and does nothing.
DeletesNothing(w, b) == session[w].plan[b] = {} /\ bucket[b] = {}

\* Upsert or delete the row: it is locked until the transaction ends.
Write(w, b) ==
  /\ session[w] # None /\ session[w].phase = "open" /\ session[w].plan[b] # None
  /\ \/ /\ DeletesNothing(w, b)
        /\ session' = [session EXCEPT ![w].plan[b] = None]
     \/ /\ ~DeletesNothing(w, b)
        /\ \A o \in Workers : ~Locks(o, b)
        /\ session' = [session EXCEPT
                         ![w].plan[b] = None,
                         ![w].written[b] = session[w].plan[b]]
  /\ UNCHANGED <<now, setting, stored, job, attempts, watermark, bucket, lost, raced>>

\* Events of a bucket, or corrections of its events, that came after the watermark.
Newer(b) ==
  \E e \in Stored : received[e] > watermark /\ b \in {Affected(e)[i] : i \in DOMAIN Affected(e)}

Ready(w) ==
  /\ session[w] # None /\ session[w].phase = "open"
  /\ session[w].plan = NoValues /\ session[w].todo = <<>>

\* The rows become visible, and with them that a run is completed.  A rebuild goes on to
\* its next event.
Commit(w) ==
  /\ Ready(w)
  /\ LET s == session[w]
         rows == Given(s.written)
         disturbed == s.shared \union {b \in rows : s.task = Run /\ Newer(b)}
     IN /\ bucket' = [b \in Buckets |-> IF b \in rows THEN s.written[b] ELSE bucket[b]]
        /\ raced' = (raced \ rows) \union (rows \intersect disturbed)
        /\ session' = [session EXCEPT
             ![w] = [Opened(s.task) EXCEPT
                       !.left = s.left,
                       !.phase = IF s.task = Rebuild THEN "between" ELSE "committed"]]
        /\ run' = IF s.task = Run THEN "completed" ELSE run
  /\ UNCHANGED <<now, setting, received, redacted, job, attempts, watermark, lost>>

\* The handler has returned and its job is completed.
Complete(w) ==
  /\ session[w] # None
  /\ \/ session[w].phase = "committed"
     \/ session[w].phase = "between" /\ session[w].left = {}
  /\ Settle(w, session[w].task, "done")
  /\ UNCHANGED <<now, setting, stored, watermark, bucket, lost, raced>>

\* A process ends, or a connection is lost: what is not committed is rolled back, and
\* the job is claimed again.
Lose(w) ==
  /\ "loss" \in setting.occurs /\ lost < MaxLost /\ session[w] # None
  /\ lost' = lost + 1
  /\ session' = [session EXCEPT ![w] = None]
  /\ UNCHANGED <<now, setting, stored, job, attempts, watermark, bucket, raced>>

\* w waits for a row that o has locked.
WaitsFor(w, o) ==
  /\ session[w] # None /\ session[w].phase = "open"
  /\ \E b \in Given(session[w].plan) : ~DeletesNothing(w, b) /\ Locks(o, b)

\* Two transactions wait for each other.  PostgreSQL rolls one of them back, a failure
\* that the worker retries while the job has attempts left.
BreakDeadlock(w) ==
  /\ \E o \in Workers : WaitsFor(w, o) /\ WaitsFor(o, w)
  /\ LET j == session[w].task
     IN \/ /\ attempts[j] < MaxAttempts
           /\ session' = [session EXCEPT ![w] = None]
           /\ UNCHANGED <<job, attempts>>
        \/ attempts[j] >= MaxAttempts /\ Settle(w, j, "exhausted")
  /\ UNCHANGED <<now, setting, stored, watermark, bucket, lost, raced>>

Tick ==
  /\ now < Horizon
  /\ now' = now + 1
  /\ UNCHANGED <<setting, stored, job, attempts, watermark, bucket, session, lost, raced>>

-----------------------------------------------------------------------------

Begin(w) == BeginRun(w) \/ BeginRebuild(w) \/ \E e \in Events : BeginEvent(w, e)

Proceed(w) ==
  \/ RebuildNext(w) \/ Read(w) \/ Compare(w)
  \/ \E b \in Buckets : Write(w, b)
  \/ Commit(w) \/ Complete(w)

Next ==
  \/ \E e \in Events : Accept(e)
  \/ CreateRun \/ QueueRebuild \/ Redact \/ Tick
  \/ \E w \in Workers : Begin(w) \/ Proceed(w) \/ Lose(w) \/ BreakDeadlock(w)

\* Some worker claims a job when it can, some handler runs on, and a deadlock is
\* broken.  Clients, operators and retention owe nothing.
Fairness ==
  /\ WF_vars(\E w \in Workers : Begin(w))
  /\ WF_vars(\E w \in Workers : Proceed(w))
  /\ WF_vars(\E w \in Workers : BreakDeadlock(w))

Spec == Init /\ [][Next]_vars /\ Fairness

-----------------------------------------------------------------------------
(* Properties *)

\* The events whose processing rebuilds a bucket have all been processed.
Processed(b) ==
  \A e \in Stored : b \in {Affected(e)[i] : i \in DOMAIN Affected(e)} => job[e] = "done"

\* No bucket counts an event together with an event that corrects it, whatever handlers
\* ran beside each other, and whatever watermark a repair restored: a corrected event
\* would be billed twice.
NeverCountedTwice == \A b \in Buckets : \A e, c \in bucket[b] : setting.of[c] # e

\* Once the events of a bucket and their corrections are processed, it is exactly the
\* terminal effective events, unless its last writer ran beside another one or was a
\* repair that newer events preceded.  Losses, deadlocks, retries, rebuilds, runs and
\* redaction do not harm it, and whatever a race has spoiled the next processing heals.
UnracedBucketsAreExact ==
  \A b \in Buckets : Processed(b) /\ b \notin raced => bucket[b] = Within(Effective, b)

\* The same of every bucket: "Current aggregates use only terminal effective events".
ProcessedBucketsAreExact ==
  \A b \in Buckets : Processed(b) => bucket[b] = Within(Effective, b)

\* The processing of an accepted event fails for good only because the event it corrects
\* lost its properties, or an event it is summed with did: never because retention
\* overtook the event itself.
FailsForOlderEventsOnly ==
  \A e \in Events : job[e] = "failed" =>
    \/ setting.of[e] \in redacted
    \/ setting.erased = "rejected" /\ e \notin redacted /\ redacted # {}

\* Every accepted event is processed, or has failed for good.  Corrections,
\* rebuilds and repairs lock the same rows in different orders.
AcceptedEventsSettle ==
  \A e \in Events : e \in Stored ~> job[e] \in {"done", "failed", "exhausted"}

=============================================================================
