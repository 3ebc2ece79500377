-------------------------- MODULE InvoicePreviews ---------------------------
(***************************************************************************)
(* The previews of one subscription period and their exports.  A request   *)
(* of a client starts a series of revisions; an event that is processed    *)
(* later, and a repair, ask for a further one; a job of the worker         *)
(* calculates each from the events; an export pins one of them.            *)
(*                                                                         *)
(* Every handler is a transaction at READ COMMITTED: each statement sees   *)
(* what is committed when it starts, and FOR UPDATE waits for the row.     *)
(* The requests of clients are such transactions too.                      *)
(***************************************************************************)
EXTENDS Integers

CONSTANTS
  Events,        \* usage events of the period, by their key
  Exports,       \* billing exports of the series
  Workers,       \* handlers that may be running at the same time
  Run,           \* a repair of the period, and its job
  Series,        \* the advisory lock of the series
  None,          \* no event, revision, time or session
  Settings,      \* what clients send and operators do
  RetentionAge,  \* age at which the properties of an event are removed
  MaxLag,        \* age of a clock value when its transaction commits
  Horizon,       \* bound: the last moment of the clock
  MaxRevision,   \* bound: revisions of the series
  MaxLost        \* bound: leases and transactions that are lost

Revisions == 1..MaxRevision
Jobs == Events \union Revisions \union Exports \union {Run}

\* sent are the events of the clients, of is the event that an event corrects, reversals
\* are the corrections that replace it by nothing; occurs says what may happen beside.
Setting ==
  [sent: SUBSET Events, of: [Events -> Events \union {None}], reversals: SUBSET Events,
   occurs: SUBSET {"retain", "repair", "export", "unexportable", "loss"}]

ASSUME ConstantsAssumption ==
  /\ None \notin Events \union Nat
  /\ Run \notin Events \union Exports \union Nat \union {None}
  /\ Events \intersect Nat = {} /\ Exports \intersect (Events \union Nat) = {}
  /\ Series \notin Exports \union Nat \union {Run}
  /\ Settings \subseteq Setting
  /\ RetentionAge \in Nat /\ MaxLag \in Nat /\ Horizon \in Nat
  /\ MaxRevision \in Nat \ {0} /\ MaxLost \in Nat

VARIABLES
  now,       \* the clock
  setting,   \* one of Settings, for good
  received,  \* received_at of each stored event
  redacted,  \* events whose properties were removed
  preview,   \* the revisions of the series
  export,    \* the exports
  run,       \* the repair
  job,       \* their jobs, those of the events, and that of the repair
  holder,    \* whose lease on a job is the current one
  session,   \* the handlers at work
  lost       \* what MaxLost counts

vars == <<now, setting, received, redacted, preview, export, run, job, holder,
          session, lost>>
events == <<setting, received, redacted>>
queue == <<job, holder, lost>>

-----------------------------------------------------------------------------
(* State *)

\* counted are the events the lines were calculated from.  cause is who asked for the
\* revision, and seen what was stored when the events were read: history.
Preview ==
  [status: {"pending", "completed", "failed"}, created: Nat, watermark: Nat \union {None},
   counted: SUBSET Events, adjusts: Revisions \union {None},
   cause: Events \union {Run, None}, seen: SUBSET Events]

\* An export that is requested is not committed yet.
Export == [revision: Revisions, status: {"requested", "pending", "completed", "failed"}]

\* at is the clock when the handler began, latest the revision it follows or works on.
Session ==
  [task: Jobs, at: Nat, latest: Revisions \union {None}, adjusts: Revisions \union {None},
   watermark: Nat \union {None}, counted: SUBSET Events, seen: SUBSET Events,
   locks: SUBSET (Revisions \union Exports \union {Run, Series}),
   phase: {"series", "latest", "row", "exports", "insert", "lock", "repair", "watermark",
           "events", "complete", "failing", "ended", "failed"}]

\* None is no row and no session.
ASSUME NoneAssumption == None \notin Preview /\ None \notin Export /\ None \notin Session

TypeOK ==
  /\ now \in Nat /\ lost \in Nat
  /\ setting \in Settings
  /\ received \in [Events -> Nat \union {None}]
  /\ redacted \subseteq Events
  /\ preview \in [Revisions -> Preview \union {None}]
  /\ export \in [Exports -> Export \union {None}]
  /\ run \in {"none", "pending", "completed", "failed"}
  /\ job \in [Jobs -> {"none", "queued", "done", "failed", "exhausted"}]
  /\ holder \in [Jobs -> Workers \union {None}]
  /\ session \in [Workers -> Session \union {None}]

Init ==
  /\ now = 0 /\ lost = 0
  /\ setting \in Settings
  /\ received = [e \in Events |-> None]
  /\ redacted = {}
  /\ preview = [r \in Revisions |-> None]
  /\ export = [x \in Exports |-> None]
  /\ run = "none"
  /\ job = [j \in Jobs |-> "none"]
  /\ holder = [j \in Jobs |-> None]
  /\ session = [w \in Workers |-> None]

Stored == {e \in Events : received[e] # None}

\* The terminal, billable events of each correction chain, as of a watermark.
EffectiveAt(at) ==
  {e \in Stored :
     /\ received[e] <= at
     /\ e \notin setting.reversals
     /\ ~\E c \in Stored : setting.of[c] = e /\ received[c] <= at}

Requested == {r \in Revisions : preview[r] # None}

IsLatest(r) == r \in Requested /\ \A q \in Requested : q <= r

Status(row) ==
  IF row = Run THEN run
  ELSE IF row \in Revisions THEN preview[row].status ELSE export[row].status

-----------------------------------------------------------------------------
(* Clients, operators and retention *)

\* A request has read its clock before it commits.
Clock(at) == at \in Nat /\ now - MaxLag <= at /\ at <= now

\* An event, or a correction of a stored event that has its properties.
Accept(e) ==
  LET corrected == setting.of[e]
  IN /\ e \in setting.sent \ Stored
     /\ corrected # None =>
          /\ corrected \in Stored \ redacted
          /\ ~\E c \in Stored : setting.of[c] = corrected
     /\ \E at \in 0..now : Clock(at) /\ received' = [received EXCEPT ![e] = at]
     /\ job' = [job EXCEPT ![e] = "queued"]
     /\ UNCHANGED <<now, setting, redacted, preview, export, run, holder, session, lost>>

\* Mutant: the clock is left out.
RequestUndated(r, at, adjusts, cause) ==
  /\ preview' = [preview EXCEPT
       ![r] = [status |-> "pending", created |-> None, watermark |-> None, counted |-> {},
               adjusts |-> adjusts, cause |-> cause, seen |-> {}]]
  /\ job' = [job EXCEPT ![r] = "queued"]

\* Mutant: the job is inserted later, and never.
RequestWithoutJob(r, at, adjusts, cause) ==
  /\ preview' = [preview EXCEPT
       ![r] = [status |-> "pending", created |-> at, watermark |-> None, counted |-> {},
               adjusts |-> adjusts, cause |-> cause, seen |-> {}]]
  /\ UNCHANGED job

\* A revision that waits for its calculation, and its job.
Request(r, at, adjusts, cause) ==
  /\ preview' = [preview EXCEPT
       ![r] = [status |-> "pending", created |-> at, watermark |-> None, counted |-> {},
               adjusts |-> adjusts, cause |-> cause, seen |-> {}]]
  /\ job' = [job EXCEPT ![r] = "queued"]

\* A client asks for the preview of the period.
Create ==
  /\ preview[1] = None
  /\ \E at \in 0..now : Clock(at) /\ Request(1, at, None, None)
  /\ UNCHANGED <<now, events, export, run, holder, session, lost>>

\* A client asks for an export: it reads the latest revision without a lock...
ChooseExport(x) ==
  /\ "export" \in setting.occurs /\ export[x] = None
  /\ \E r \in Revisions :
       /\ IsLatest(r) /\ preview[r].status = "completed"
       /\ export' = [export EXCEPT ![x] = [revision |-> r, status |-> "requested"]]
  /\ UNCHANGED <<now, events, preview, run, queue, session>>

\* ... and inserts the export with its job.
CreateExport(x) ==
  /\ export[x] # None /\ export[x].status = "requested"
  /\ export' = [export EXCEPT ![x].status = "pending"]
  /\ job' = [job EXCEPT ![x] = "queued"]
  /\ UNCHANGED <<now, events, preview, run, holder, session, lost>>

\* An administrator asks for a repair.
CreateRun ==
  /\ "repair" \in setting.occurs /\ run = "none"
  /\ run' = "pending"
  /\ job' = [job EXCEPT ![Run] = "queued"]
  /\ UNCHANGED <<now, events, preview, export, holder, session, lost>>

Redact ==
  LET eligible == {e \in Stored \ redacted :
                     job[e] = "done" /\ received[e] + RetentionAge <= now}
  IN /\ "retain" \in setting.occurs /\ eligible # {}
     /\ redacted' = redacted \union eligible
     /\ UNCHANGED <<now, setting, received, preview, export, run, queue, session>>

\* An operator retries a job that has exhausted its attempts.
Retry(j) ==
  /\ job[j] = "exhausted"
  /\ job' = [job EXCEPT ![j] = "queued"]
  /\ UNCHANGED <<now, events, preview, export, run, holder, session, lost>>

Tick ==
  /\ now < Horizon
  /\ now' = now + 1
  /\ UNCHANGED <<events, preview, export, run, queue, session>>

-----------------------------------------------------------------------------
(* Handlers *)

Loses == "loss" \in setting.occurs /\ lost < MaxLost /\ lost' = lost + 1

\* The worker is given the lease of a job that is free, or whose lease has expired under
\* a handler that is still running.
Claims(w, j) ==
  /\ session[w] = None /\ job[j] = "queued"
  /\ \/ holder[j] = None /\ UNCHANGED lost
     \/ holder[j] # None /\ Loses
  /\ holder' = [holder EXCEPT ![j] = w]

Opened(j, phase) ==
  [task |-> j, at |-> now, latest |-> None, adjusts |-> None, watermark |-> None,
   counted |-> {}, seen |-> {}, locks |-> {}, phase |-> phase]

\* The job of an event reads the event and the one it corrects, and rewrites their buckets.
BeginEvent(w, e) ==
  LET redactedSource == e \in redacted \/ setting.of[e] \in redacted
  IN /\ Claims(w, e)
     /\ session' = [session EXCEPT
                      ![w] = Opened(e, IF redactedSource THEN "failed" ELSE "series")]
     /\ UNCHANGED <<now, events, preview, export, run, job>>

\* The job of a revision, an export or the repair.
BeginRow(w, row) ==
  /\ Claims(w, row)
  /\ session' = [session EXCEPT ![w] = Opened(row, "lock")]
  /\ UNCHANGED <<now, events, preview, export, run, job>>

In(w, phase) == session[w] # None /\ session[w].phase = phase

Free(w, lock) == \A o \in Workers \ {w} : session[o] # None => lock \notin session[o].locks

\* The transaction ends, its locks with it, and nothing was written.
Leave(w, phase) == session' = [session EXCEPT ![w].phase = phase, ![w].locks = {}]

\* The transaction of a repair that adds no revision completes the run all the same.
Conclude(w) == run' = IF session[w].task = Run THEN "completed" ELSE run

\* Mutant: the advisory lock is not taken.
LockSeriesNot(w) ==
  /\ In(w, "series")
  /\ IF Requested = {}
     THEN Leave(w, "ended") /\ Conclude(w)
     ELSE session' = [session EXCEPT ![w].phase = "latest"] /\ UNCHANGED run
  /\ UNCHANGED <<now, events, preview, export, queue>>

\* A handler that has rewritten buckets looks for a series of previews, and takes its
\* advisory lock; without one there is nothing left to do.
LockSeries(w) ==
  /\ In(w, "series")
  /\ IF Requested = {}
     THEN Leave(w, "ended") /\ Conclude(w)
     ELSE /\ Free(w, Series)
          /\ session' = [session EXCEPT ![w].phase = "latest",
                                        ![w].locks = @ \union {Series}]
          /\ UNCHANGED run
  /\ UNCHANGED <<now, events, preview, export, queue>>

\* What a revision has covered: its watermark, or its creation as long as it has none.
Covered(r) ==
  IF preview[r].watermark = None THEN preview[r].created ELSE preview[r].watermark

\* Mutant: an event that the latest revision has covered still asks for another one.
FollowsCovered(j, r) == preview[r].status # "pending"

\* A revision in preparation will see the event.  One that is settled has to be followed,
\* by an event if that was received after its watermark.
Follows(j, r) ==
  /\ preview[r].status # "pending"
  /\ j \in Events => Covered(r) < received[j]

\* A repair fails when events of the period have lost their properties, and finds
\* differences or none.
Repair(w) ==
  /\ In(w, "repair")
  /\ \/ redacted # {} /\ Leave(w, "failing") /\ UNCHANGED run
     \/ Leave(w, "ended") /\ Conclude(w)
     \/ session' = [session EXCEPT ![w].phase = "series"] /\ UNCHANGED run
  /\ UNCHANGED <<now, events, preview, export, queue>>

\* The statement that reads the latest revision for update finds it...
FindLatest(w) ==
  /\ In(w, "latest")
  /\ \E r \in Revisions :
       /\ IsLatest(r)
       /\ session' = [session EXCEPT ![w].phase = "row", ![w].latest = r]
  /\ UNCHANGED <<now, events, preview, export, run, queue>>

\* ... and waits for its row.  It then sees what has become of it, and not what has come
\* after it.
LockLatest(w) ==
  LET r == session[w].latest
  IN /\ In(w, "row") /\ Free(w, r)
     /\ IF Follows(session[w].task, r)
        THEN /\ session' = [session EXCEPT ![w].phase = "exports",
                                           ![w].locks = @ \union {r}]
             /\ UNCHANGED run
        ELSE Leave(w, "ended") /\ Conclude(w)
     /\ UNCHANGED <<now, events, preview, export, queue>>

\* An exported revision is not replaced, but adjusted.
ReadExports(w) ==
  /\ In(w, "exports")
  /\ LET r == session[w].latest
         exported == \E x \in Exports :
                       /\ export[x] # None
                       /\ export[x].revision = r /\ export[x].status = "completed"
     IN session' = [session EXCEPT ![w].phase = "insert",
                                   ![w].adjusts = IF exported THEN r ELSE None]
  /\ UNCHANGED <<now, events, preview, export, run, queue>>

\* The revision and its job are inserted and committed.
Append(w) ==
  /\ In(w, "insert") /\ session[w].latest < MaxRevision
  /\ Request(session[w].latest + 1, session[w].at, session[w].adjusts, session[w].task)
  /\ Leave(w, "ended") /\ Conclude(w)
  /\ UNCHANGED <<now, events, export, holder, lost>>

FirstPhase(row) ==
  IF row = Run THEN "repair" ELSE IF row \in Revisions THEN "watermark" ELSE "complete"

\* Mutant: a settled row is not left alone.
LockRowSettled(w) ==
  /\ In(w, "lock")
  /\ LET row == session[w].task
     IN /\ Free(w, row)
        /\ session' = [session EXCEPT
             ![w].locks = {row}, ![w].phase = FirstPhase(row)]
  /\ UNCHANGED <<now, events, preview, export, run, queue>>

\* The handler of a revision, an export or the repair locks its row; a settled one is
\* left alone.
LockRow(w) ==
  /\ In(w, "lock")
  /\ LET row == session[w].task
     IN /\ Free(w, row)
        /\ IF Status(row) # "pending" THEN Leave(w, "ended")
           ELSE session' = [session EXCEPT
                  ![w].locks = {row}, ![w].phase = FirstPhase(row)]
  /\ UNCHANGED <<now, events, preview, export, run, queue>>

\* Mutant: the watermark is the creation of the revision, not of its last event.
ReadWatermarkCreated(w) ==
  /\ In(w, "watermark")
  /\ session' = [session EXCEPT ![w].phase = "events",
                                ![w].watermark = preview[session[w].task].created]
  /\ UNCHANGED <<now, events, preview, export, run, queue>>

\* The watermark is the last receive time so far.
ReadWatermark(w) ==
  /\ In(w, "watermark")
  /\ LET created == preview[session[w].task].created
         last == {at \in {received[e] : e \in Stored} : \A e \in Stored : received[e] <= at}
     IN \E at \in IF Stored = {} THEN {created} ELSE last :
          session' = [session EXCEPT ![w].phase = "events", ![w].watermark = at]
  /\ UNCHANGED <<now, events, preview, export, run, queue>>

\* The lines are calculated from the events; a redacted one fails the revision.
ReadEvents(w) ==
  /\ In(w, "events")
  /\ LET counted == EffectiveAt(session[w].watermark)
     IN IF counted \intersect redacted # {} THEN Leave(w, "failing")
        ELSE session' = [session EXCEPT ![w].phase = "complete", ![w].counted = counted,
                                        ![w].seen = Stored]
  /\ UNCHANGED <<now, events, preview, export, run, queue>>

CompletePreview(w) ==
  LET s == session[w]
  IN /\ In(w, "complete") /\ s.task \in Revisions
     /\ preview' = [preview EXCEPT
          ![s.task] = [@ EXCEPT !.status = "completed", !.watermark = s.watermark,
                                !.counted = s.counted, !.seen = s.seen]]
     /\ Leave(w, "ended")
     /\ UNCHANGED <<now, events, export, run, queue>>

\* The file is built from the lines of the pinned revision, if that is still completed; it
\* may have too many of them or amounts out of range.
CompleteExport(w) ==
  LET x == session[w].task
  IN /\ In(w, "complete") /\ x \in Exports
     /\ IF \/ "unexportable" \in setting.occurs
           \/ preview[export[x].revision].status # "completed"
        THEN Leave(w, "failing") /\ UNCHANGED export
        ELSE Leave(w, "ended") /\ export' = [export EXCEPT ![x].status = "completed"]
     /\ UNCHANGED <<now, events, preview, run, queue>>

FailPreview(row) ==
  /\ row \in Revisions
  /\ preview' = [preview EXCEPT ![row].status = "failed"]
  /\ UNCHANGED <<export, run>>

FailExport(row) ==
  /\ row \in Exports
  /\ export' = [export EXCEPT ![row].status = "failed"]
  /\ UNCHANGED <<preview, run>>

FailRun(row) == row = Run /\ run' = "failed" /\ UNCHANGED <<preview, export>>

\* After a permanent failure a transaction of its own records it, if nobody has settled
\* the row in between.
Fail(w) ==
  LET row == session[w].task
  IN /\ In(w, "failing") /\ Free(w, row)
     /\ IF Status(row) # "pending" THEN UNCHANGED <<preview, export, run>>
        ELSE FailPreview(row) \/ FailExport(row) \/ FailRun(row)
     /\ Leave(w, "failed")
     /\ UNCHANGED <<now, events, queue>>

\* The job ends with its handler, if that still has the lease.
End(w) ==
  /\ In(w, "ended") \/ In(w, "failed")
  /\ LET j == session[w].task
         outcome == IF session[w].phase = "ended" THEN "done" ELSE "failed"
     IN IF holder[j] = w
        THEN job' = [job EXCEPT ![j] = outcome] /\ holder' = [holder EXCEPT ![j] = None]
        ELSE UNCHANGED <<job, holder>>
  /\ session' = [session EXCEPT ![w] = None]
  /\ UNCHANGED <<now, events, preview, export, run, lost>>

\* A process ends, or a connection is lost, and what is not committed with it.  The job
\* is claimed again, unless its attempts are exhausted.
Lose(w) ==
  /\ session[w] # None /\ Loses
  /\ LET j == session[w].task
     IN IF holder[j] = w
        THEN /\ holder' = [holder EXCEPT ![j] = None]
             /\ \E outcome \in {"queued", "exhausted"} : job' = [job EXCEPT ![j] = outcome]
        ELSE UNCHANGED <<job, holder>>
  /\ session' = [session EXCEPT ![w] = None]
  /\ UNCHANGED <<now, events, preview, export, run>>

-----------------------------------------------------------------------------

Begin(w) ==
  \/ \E e \in Events : BeginEvent(w, e)
  \/ \E row \in Revisions \union Exports \union {Run} : BeginRow(w, row)

Proceed(w) ==
  \/ LockSeries(w) \/ FindLatest(w) \/ LockLatest(w) \/ ReadExports(w) \/ Append(w)
  \/ LockRow(w) \/ Repair(w) \/ ReadWatermark(w) \/ ReadEvents(w)
  \/ CompletePreview(w) \/ CompleteExport(w) \/ Fail(w) \/ End(w)

Next ==
  \/ \E e \in Events : Accept(e)
  \/ \E x \in Exports : ChooseExport(x) \/ CreateExport(x)
  \/ Create \/ CreateRun \/ Redact \/ Tick
  \/ \E j \in Jobs : Retry(j)
  \/ \E w \in Workers : Begin(w) \/ Proceed(w) \/ Lose(w)

\* Some worker claims a job when it can, and some handler runs on.
Fairness == WF_vars(\E w \in Workers : Begin(w)) /\ WF_vars(\E w \in Workers : Proceed(w))

Spec == Init /\ [][Next]_vars /\ Fairness

-----------------------------------------------------------------------------
(* Properties *)

\* Handlers of late events and repairs number the revisions without a gap and never ask
\* for one while another waits: only the latest revision can be pending.  And no
\* handler inserts a revision that exists.
OnlyLatestIsPending ==
  /\ \A r \in Requested :
       (r > 1 => r - 1 \in Requested) /\ (preview[r].status = "pending" => IsLatest(r))
  /\ \A w \in Workers : In(w, "insert") => session[w].latest + 1 \notin Requested

AllProcessed == \A e \in Stored : job[e] = "done"

\* "create a new revision when later event processing affects an already-previewed
\* period": when every stored event is processed, a completed latest revision counts the
\* effective events.
ProcessedEventsArePreviewed ==
  \A r \in Requested :
    IsLatest(r) /\ preview[r].status = "completed" /\ AllProcessed
      => preview[r].counted = EffectiveAt(now)

\* Events whose transaction committed with a receive time that a revision had passed.
Behind(r) ==
  {e \in Stored : received[e] <= preview[r].watermark /\ e \notin preview[r].seen}

\* The same, unless an event committed behind the watermark: no other order of events,
\* corrections, repairs, retries and overlapping handlers loses an event.
PreviewsLoseOnlyEventsBehind ==
  \A r \in Requested :
    IsLatest(r) /\ preview[r].status = "completed" /\ AllProcessed /\ Behind(r) = {}
      => preview[r].counted = EffectiveAt(now)

\* A revision that an event has asked for sees more than the one it follows.
RevisionsAdvance ==
  \A r, q \in Requested :
    (/\ q = r + 1 /\ preview[q].cause \in Events
     /\ preview[r].status = "completed" /\ preview[q].status = "completed")
      => preview[r].watermark < preview[q].watermark

Settled(row) == row # None /\ row.status \in {"completed", "failed"}

\* A settled revision or export never changes again, also under a handler that has lost
\* its lease to another one, nor does a settled repair ask for another revision; and an
\* export stays with a revision that is completed.
OutcomesAreFinal ==
  [][/\ run \in {"completed", "failed"} =>
          run' = run /\ \A r \in Revisions :
            preview[r] = None /\ preview'[r] # None => preview'[r].cause # Run
     /\ \A r \in Revisions : Settled(preview[r]) => preview'[r] = preview[r]
     /\ \A x \in Exports : export[x] # None =>
          /\ preview'[export[x].revision].status = "completed"
          /\ Settled(export[x]) => export'[x] = export[x]]_vars

\* Every revision is calculated, or fails, or waits for an operator to retry its job.
RevisionsSettle ==
  \A r \in Revisions :
    r \in Requested ~> (Settled(preview[r]) \/ job[r] = "exhausted")

=============================================================================
