----------------------------- MODULE Retention -----------------------------
(***************************************************************************)
(* The retention of event properties: requests that change the policy of   *)
(* an organization, and the chain of jobs that scan for events it has      *)
(* outlived, run by servers and workers that are told to stop or killed.   *)
(* Time counts in days.                                                    *)
(***************************************************************************)
EXTENDS Runtime, Sequences, FiniteSetsExt

CONSTANTS
  None,
  Requests,    \* requests to change the policy
  Events,      \* usage events
  Settings,    \* inputs and faults of the checked instances
  BatchSize,   \* events that one scan redacts
  MaxAttempts  \* attempts of one job

\* days, by request, is what it asks for.  received is the day on which an event arrives, and
\* corrected are the events that are.  open are the processes that have begun to serve, starts
\* those that may start.  signals and faults are bounds, until ends the clock.
ASSUME RetentionAssumption ==
  /\ BatchSize \in Nat \ {0} /\ MaxAttempts \in Nat \ {0}
  /\ None \notin Processes \union Nat /\ Requests \intersect Workers = {}
  /\ \A s \in Settings :
       /\ DOMAIN s.days \subseteq Requests /\ \A r \in DOMAIN s.days : s.days[r] \in Nat \union {None}
       /\ s.received \in [Events -> Nat] /\ s.corrected \subseteq Events
       /\ s.open \subseteq Processes /\ s.starts \subseteq Processes \ s.open
       /\ {s.signals, s.faults, s.until} \subseteq Nat

VARIABLES
  setting,
  now,
  policy,    \* its version, 0 while there is no row, and its days
  jobs,      \* the enforcement jobs in the order of their insertion
  processed, \* events that are processed
  held,      \* by event: whether another transaction locks its row
  redacted,  \* events without their properties
  request,   \* by request: the server that has it, and how far it is
  run,       \* by worker: how far it is in its loop and in the job it has claimed
  signals,   \* signals that may still be sent
  faults     \* failures that may still happen

data == <<policy, jobs, processed, held, redacted>>
work == <<request, run>>
vars == <<runtimeVars, setting, now, data, work, signals, faults>>

\* A job without a predecessor was queued by a request.
Job(version, due, of) ==
  [version |-> version, due |-> due, of |-> of, status |-> "pending", attempts |-> 0,
   owner |-> None, lapsed |-> FALSE]

Idle == [phase |-> "top", job |-> 0, at |-> 0, cutoff |-> 0]

Init ==
  /\ setting \in Settings
  /\ RuntimeInit(setting.open)
  /\ now = 0
  /\ policy = [version |-> 0, days |-> None] /\ jobs = <<>>
  /\ processed = {} /\ redacted = {} /\ held = [e \in Events |-> "never"]
  /\ request = [r \in Requests |-> [step |-> "idle", server |-> None, saw |-> 0]]
  /\ run = [w \in Workers |-> Idle]
  /\ signals = setting.signals /\ faults = setting.faults

RetentionTypeOK ==
  /\ RuntimeTypeOK
  /\ policy \in [version : Nat, days : Nat \union {None}]
  /\ \A j \in DOMAIN jobs :
       jobs[j] \in [version : 1..policy.version, due : Nat, of : 0..(j - 1),
                    status : {"pending", "processing", "completed", "failed"},
                    attempts : Nat, owner : Workers \union {None}, lapsed : BOOLEAN]
  /\ redacted \subseteq processed /\ processed \subseteq Events
  /\ held \in [Events -> {"never", "held", "released"}]
  /\ request \in [Requests -> [step : {"idle", "received", "locked", "answered", "lost"},
                               server : Servers \union {None}, saw : Nat]]
  /\ run \in [Workers -> [phase : {"top", "claiming", "claimed", "locked", "done", "failed"},
                          job : 0..Len(jobs), at : Nat, cutoff : Int]]

-----------------------------------------------------------------------------
(* The lock of the policy row *)

\* Mutant: a scan reads the policy without its lock.
HoldersWithoutScans == {r \in Requests : request[r].step = "locked" /\ request[r].saw > 0}

\* The requests and workers whose transaction locks it: a row that was not there is not locked.
Holders ==
  {r \in Requests : request[r].step = "locked" /\ request[r].saw > 0}
    \union {w \in Workers : run[w].phase = "locked"}

Free(x) == Holders \subseteq {x}

-----------------------------------------------------------------------------
(* Requests *)

\* Mutant: a request whose transaction has not begun is forgotten.
InFlightLocked(s) == {r \in Requests : request[r].server = s /\ request[r].step = "locked"}

InFlight(s) ==
  {r \in Requests : request[r].server = s /\ request[r].step \in {"received", "locked"}}

Receive(r) ==
  /\ r \in DOMAIN setting.days /\ request[r].step = "idle"
  /\ \E s \in Servers :
       /\ stage[s] = "open"
       /\ request' = [request EXCEPT ![r].step = "received", ![r].server = s]
  /\ UNCHANGED <<runtimeVars, setting, now, data, run, signals, faults>>

LockPolicy(r) ==
  /\ request[r].step = "received" /\ Free(r)
  /\ request' = [request EXCEPT ![r].step = "locked", ![r].saw = policy.version]
  /\ UNCHANGED <<runtimeVars, setting, now, data, run, signals, faults>>

\* The row is inserted or, when it is there by now, updated, and a first scan is queued that is
\* due at once.
UpdatePolicy(r) ==
  LET version == policy.version + 1
      days == setting.days[r]
  IN /\ request[r].step = "locked" /\ Free(r)
     /\ policy' = [version |-> version, days |-> days]
     /\ jobs' = IF days = None THEN jobs ELSE Append(jobs, Job(version, now, 0))
     /\ request' = [request EXCEPT ![r].step = "answered"]
     /\ UNCHANGED <<runtimeVars, setting, now, processed, held, redacted, run, signals, faults>>

-----------------------------------------------------------------------------
(* The loop of a worker *)

At(w, phase) == run' = [run EXCEPT ![w].phase = phase]

\* The signal is looked at before the claim.
Poll(w) ==
  /\ stage[w] = "open" /\ run[w].phase = "top" /\ ~Aborted(w)
  /\ At(w, "claiming")
  /\ UNCHANGED <<runtimeVars, setting, now, data, request, signals, faults>>

\* Mutant: a job whose lease has run out stays with its owner.
ClaimableOnce(j) == jobs[j].status = "pending" /\ jobs[j].due <= now

Claimable(j) ==
  \/ jobs[j].status = "pending" /\ jobs[j].due <= now
  \/ jobs[j].status = "processing" /\ jobs[j].lapsed

Sooner(j, k) ==
  \/ jobs[j].due < jobs[k].due
  \/ jobs[j].due = jobs[k].due /\ j <= k

\* The job that is due first, or none: the worker sleeps until its next poll or a signal.
Claim(w) ==
  LET due == {j \in DOMAIN jobs : Claimable(j)}
  IN /\ run[w].phase = "claiming"
     /\ IF due = {}
        THEN /\ At(w, "top")
             /\ UNCHANGED jobs
        ELSE \E j \in due :
               /\ \A k \in due : Sooner(j, k)
               /\ jobs' = [jobs EXCEPT ![j].status = "processing", ![j].attempts = @ + 1,
                                       ![j].owner = w, ![j].lapsed = FALSE]
               /\ run' = [run EXCEPT ![w].phase = "claimed", ![w].job = j]
     /\ UNCHANGED <<runtimeVars, setting, now, policy, processed, held, redacted, request,
                    signals, faults>>

InForce(version) == policy.version = version /\ policy.days # None

\* A stale scan has nothing to do.  The others keep the lock until they commit.  A signal may
\* come after the handler has looked for one.
LookAtPolicy(w) ==
  /\ run[w].phase = "claimed" /\ Free(w)
  /\ IF InForce(jobs[run[w].job].version)
     THEN run' = [run EXCEPT ![w].phase = "locked", ![w].at = now,
                             ![w].cutoff = now - policy.days]
     ELSE At(w, "done")
  /\ UNCHANGED <<runtimeVars, setting, now, data, request, signals, faults>>

\* Mutant: events that are not processed yet.
EligibleSoon(cutoff) ==
  {e \in Events \ redacted : setting.received[e] <= cutoff /\ held[e] # "held"}

\* Locked rows are skipped.
Eligible(cutoff) ==
  {e \in processed \ redacted : setting.received[e] <= cutoff /\ held[e] # "held"}

\* The events that arrived first.
Batch(cutoff) ==
  LET eligible == Eligible(cutoff)
  IN CHOOSE batch \in kSubset(Min({BatchSize, Cardinality(eligible)}), eligible) :
       \A e \in batch : \A o \in eligible \ batch : setting.received[e] <= setting.received[o]

\* A full batch is followed at once, another one in a day.
NextDue(w) ==
  IF Cardinality(Batch(run[w].cutoff)) = BatchSize THEN run[w].at ELSE run[w].at + 1

Successors(j) == {k \in DOMAIN jobs : jobs[k].of = j}

\* Mutant: each scan queues another one.
ScheduledAgain(w) == Append(jobs, Job(jobs[run[w].job].version, NextDue(w), run[w].job))

\* The job after this one has its id for a resource: it is inserted once.
Scheduled(w) ==
  LET j == run[w].job
  IN IF Successors(j) # {} THEN jobs ELSE Append(jobs, Job(jobs[j].version, NextDue(w), j))

\* The answer of the commit may be lost.
Enforce(w) ==
  /\ run[w].phase = "locked" /\ ~Aborted(w)
  /\ redacted' = redacted \union Batch(run[w].cutoff)
  /\ jobs' = Scheduled(w)
  /\ \/ At(w, "done") /\ UNCHANGED faults
     \/ At(w, "failed") /\ faults > 0 /\ faults' = faults - 1
  /\ UNCHANGED <<runtimeVars, setting, now, policy, processed, held, request, signals>>

\* A scan stops between its statements when its worker is told to, and rolls back.
Interrupt(w) ==
  /\ run[w].phase \in {"claimed", "locked"} /\ Aborted(w)
  /\ At(w, "failed")
  /\ UNCHANGED <<runtimeVars, setting, now, data, request, signals, faults>>

Break(w) ==
  /\ run[w].phase \in {"claimed", "locked"}
  /\ faults > 0 /\ faults' = faults - 1
  /\ At(w, "failed")
  /\ UNCHANGED <<runtimeVars, setting, now, data, request, signals>>

Holds(w, j) == jobs[j].owner = w /\ jobs[j].status = "processing" /\ ~jobs[j].lapsed

Outcome(w) ==
  LET j == run[w].job
  IN IF run[w].phase = "done" THEN "completed"
     ELSE IF jobs[j].attempts < MaxAttempts THEN "pending" ELSE "failed"

\* The outcome is reported by the owner of the lease only.  A retry is due at once.
Settle(w) ==
  LET j == run[w].job
  IN /\ run[w].phase \in {"done", "failed"}
     /\ jobs' = IF Holds(w, j)
                THEN [jobs EXCEPT ![j].status = Outcome(w), ![j].owner = None,
                                  ![j].due = IF Outcome(w) = "pending" THEN now ELSE @]
                ELSE jobs
     /\ run' = [run EXCEPT ![w] = Idle]
     /\ UNCHANGED <<runtimeVars, setting, now, policy, processed, held, redacted, request,
                    signals, faults>>

\* The loop goes on when an outcome cannot be reported.
SettleThrows(w) ==
  /\ run[w].phase \in {"done", "failed"}
  /\ faults > 0 /\ faults' = faults - 1
  /\ run' = [run EXCEPT ![w] = Idle]
  /\ UNCHANGED <<runtimeVars, setting, now, data, request, signals>>

-----------------------------------------------------------------------------
(* Processes *)

\* The transactions of a process end with its connections.
Cut(p) ==
  /\ request' = [r \in Requests |->
       IF r \in InFlight(p) THEN [request[r] EXCEPT !.step = "lost"] ELSE request[r]]
  /\ run' = [w \in Workers |-> IF w = p THEN Idle ELSE run[w]]

Begin(p) ==
  /\ \/ p \in setting.starts /\ Start(p) /\ UNCHANGED faults
     \/ Listen(p) /\ UNCHANGED faults
     \/ StartFails(p) /\ faults > 0 /\ faults' = faults - 1
  /\ UNCHANGED <<setting, now, data, work, signals>>

Signal(p) ==
  /\ signals > 0 /\ signals' = signals - 1
  /\ \E s \in Signals :
       \/ Handle(p, s) /\ UNCHANGED work
       \/ s \notin attached[p] /\ Kill(p) /\ Cut(p)
  /\ UNCHANGED <<setting, now, data, faults>>

\* A failure of the clean-up is a fault.
Failing(failures) ==
  /\ Cardinality(failures) <= faults
  /\ faults' = faults - Cardinality(failures)

\* A listener that stops waits for its requests, a worker for the job it has claimed.
Stop(p) ==
  /\ \/ \E f \in SUBSET {"listener"} :
          /\ f = {} => InFlight(p) = {}
          /\ StopListener(p, f) /\ Failing(f)
     \/ p \in Workers /\ run[p].phase = "top" /\ LeaveLoop(p) /\ UNCHANGED faults
  /\ UNCHANGED <<setting, now, data, work, signals>>

\* What still runs is waited for, and cut off in the end.
Close(p) ==
  /\ \E f \in SUBSET {"close"} : CloseDatabase(p, f) /\ Failing(f)
  /\ Cut(p)
  /\ UNCHANGED <<setting, now, data, signals>>

-----------------------------------------------------------------------------
(* Time, leases and the other transactions *)

Tick ==
  /\ now < setting.until
  /\ now' = now + 1
  /\ UNCHANGED <<runtimeVars, setting, data, work, signals, faults>>

Leased(j) == jobs[j].status = "processing" /\ ~jobs[j].lapsed

\* Nobody executes it any more.
Abandoned(j) == run[jobs[j].owner].job # j

\* The lease of a job that nobody executes runs out, and that of a slow execution may.
Lapse(j) ==
  /\ Leased(j)
  /\ IF Abandoned(j) THEN UNCHANGED faults ELSE faults > 0 /\ faults' = faults - 1
  /\ jobs' = [jobs EXCEPT ![j].lapsed = TRUE]
  /\ UNCHANGED <<runtimeVars, setting, now, policy, processed, held, redacted, work, signals>>

Process(e) ==
  /\ e \notin processed /\ setting.received[e] <= now
  /\ processed' = processed \union {e}
  /\ UNCHANGED <<runtimeVars, setting, now, policy, jobs, held, redacted, work, signals, faults>>

\* A correction locks the event that it corrects.
Hold(e) ==
  /\ e \in setting.corrected /\ setting.received[e] <= now /\ held[e] # "released"
  /\ held' = [held EXCEPT ![e] = IF @ = "never" THEN "held" ELSE "released"]
  /\ UNCHANGED <<runtimeVars, setting, now, policy, jobs, processed, redacted, work, signals,
                 faults>>

-----------------------------------------------------------------------------

Serve(r) == LockPolicy(r) \/ UpdatePolicy(r)

Work(w) ==
  \/ Poll(w) \/ Claim(w) \/ Settle(w)
  \/ LookAtPolicy(w) \/ Enforce(w) \/ Interrupt(w)

Next ==
  \/ Tick
  \/ \E p \in Processes : Begin(p) \/ Signal(p) \/ Stop(p) \/ Close(p)
  \/ \E r \in Requests : Receive(r) \/ Serve(r)
  \/ \E w \in Workers : Work(w) \/ Break(w) \/ SettleThrows(w)
  \/ \E j \in DOMAIN jobs : Lapse(j)
  \/ \E e \in Events : Process(e) \/ Hold(e)

\* What a process has begun goes on, PostgreSQL wakes those who wait for a row in turn, and
\* time passes.  Nobody has to start a process, to send a request or to lock an event.
Fairness ==
  /\ WF_vars(Tick)
  /\ \A p \in Processes : WF_vars(Stop(p) \/ Close(p))
  /\ \A r \in Requests : SF_vars(Serve(r))
  /\ \A w \in Workers : SF_vars(Work(w))
  /\ WF_vars(\E e \in Events : held[e] = "held" /\ Hold(e))
  /\ WF_vars(\E j \in DOMAIN jobs : Leased(j) /\ Abandoned(j) /\ Lapse(j))

Spec == Init /\ [][Next]_vars /\ Fairness

-----------------------------------------------------------------------------
(* Properties *)

Chain == {j \in DOMAIN jobs : jobs[j].version = policy.version}

Heads == {j \in Chain : Successors(j) = {}}

\* While a policy is in force there is one job that will scan next for its version, or has
\* failed and waits for an operator: no crash, lost answer, repeated or interrupted scan ends
\* the chain of scans or splits it.
ScansContinue ==
  policy.days # None =>
    /\ Cardinality(Heads) = 1
    /\ \A j \in Heads : jobs[j].status # "completed"

\* An event loses its properties only after it was processed, when it is as old as the policy
\* says that is in force at that very moment, and not while a correction looks at it.
RedactionsObeyPolicy ==
  [][\A e \in redacted' \ redacted :
       /\ policy.days # None /\ policy' = policy
       /\ e \in processed /\ held[e] # "held"
       /\ setting.received[e] + policy.days <= now]_vars

\* A server that exits with status zero has answered every request that it has received.
GracefulExitsLoseNothing ==
  \A s \in Servers : stage[s] = "exited" /\ ExitStatus(s) = 0 =>
    \A r \in Requests : request[r].server = s => request[r].step = "answered"

Expired(e) ==
  /\ policy.days # None
  /\ e \in processed /\ setting.received[e] + policy.days <= now

\* The next scan has failed for good, is due after the end of the clock, or has no worker.
Excused ==
  \/ \A w \in Workers : stage[w] # "open"
  \/ \E j \in Heads : jobs[j].status = "failed" \/ jobs[j].due > setting.until

\* As long as a worker serves, each event that has outlived the policy loses its properties,
\* although its row may be locked, the batches are small, and workers stop and die.
ExpiredEventsAreRedacted ==
  \A e \in Events : Expired(e) ~> e \in redacted \/ ~Expired(e) \/ Excused
=============================================================================
