---------------------------- MODULE Simulations ----------------------------
(***************************************************************************)
(* Simulations of a candidate plan version against a published one: what a *)
(* request pins, and the run of a worker that reads the definitions once,  *)
(* the events of the customers batch by batch, and writes its results and  *)
(* summary in one transaction, while events arrive and lose their          *)
(* properties, and versions are published and archived.                    *)
(***************************************************************************)
EXTENDS Subscriptions

CONSTANTS
  SimulationIds,  \* simulations
  Events,         \* usage events
  BatchSize,      \* customers whose events one statement reads
  MaxLag          \* age of the receive time of an event when the event is committed

SimulationDefinition(s) ==
  /\ {s.baseline, s.candidate} \subseteq Versions
  /\ s.customers \subseteq Customers
  /\ s.from \in Nat /\ s.to \in Nat /\ s.from < s.to

UsageDefinition(e) ==
  /\ e.customer \in Customers /\ e.type \in STRING /\ e.day \in Nat
  /\ e.value \in Nat \union {None}
  /\ e.kind \in {"event", "replacement", "reversal"} /\ e.of \in Events \union {None}

\* What clients ask for; the rest of what requests do is the work of jobs.
AskDefinition(ask) ==
  \/ MeterAsk(ask) \/ FeatureAsk(ask) \/ PlanAsk(ask) \/ CustomerAsk(ask)
  \/ SubscriptionAsk(ask) \/ ConfigureAsk(ask)
  \/ ask.op = "simulate" /\ ask.on \in SimulationIds

ASSUME SimulationsAssumption ==
  /\ SimulationIds \subseteq Rows /\ SimulationIds \intersect (SubscriptionIds \union Versions) = {}
  /\ None \notin Events /\ IsFiniteSet(Events) /\ IsFiniteSet(Customers)
  /\ BatchSize \in Nat \ {0} /\ MaxLag \in Nat
  /\ \A s \in Settings :
       /\ \A i \in SimulationIds : SimulationDefinition(s.simulation[i])
       /\ \A e \in Events : UsageDefinition(s.usage[e])
       /\ s.sent \subseteq Events /\ s.redactable \subseteq Events
       /\ \A ask \in s.asks : AskDefinition(ask)

VARIABLES
  simulation,  \* by simulation: what it has pinned, its status, and its results
  received,    \* by event: the moment at which it was received
  redacted     \* events without their properties

vars == <<subscriptionVars, simulation, received, redacted>>

-----------------------------------------------------------------------------
(* State *)

Plan(i) == setting.simulation[i]
Usage(e) == setting.usage[e]

Init ==
  /\ SubscriptionsInit
  /\ simulation = [i \in SimulationIds |-> None]
  /\ received = [e \in Events |-> None]
  /\ redacted = {}

Stored == {e \in Events : received[e] # None}

\* Corrections that are received later do not suppress the event they correct.
Effective(watermark) ==
  {e \in Stored :
     /\ received[e] <= watermark /\ Usage(e).kind # "reversal"
     /\ ~\E c \in Stored : Usage(c).of = e /\ received[c] <= watermark}

\* counted are the events a result was calculated from, known those that were stored when the
\* simulation was requested: history.
Result ==
  [baseline: Nat, candidate: Nat, delta: Int, increase: BOOLEAN, excluded: BOOLEAN,
   counted: SUBSET Events]

Summary ==
  [baseline: Nat, candidate: Nat, increased: Nat, decreased: Nat, warned: Nat, unchanged: Nat,
   median: Int, p95: Int]

Simulation ==
  [watermark: Nat, customers: SUBSET Customers, known: SUBSET Events,
   versions: SUBSET MeterVersions, status: {"pending", "completed", "failed"},
   results: [Customers -> Result \union {None}], summary: Summary \union {None}]

ASSUME NoSimulationAssumption == None \notin Simulation /\ None \notin Result

NoResults == [c \in Customers |-> None]

Answered(results) == {c \in Customers : results[c] # None}

BillingTypeOK ==
  /\ SubscriptionsTypeOK
  /\ simulation \in [SimulationIds -> Simulation \union {None}]
  /\ received \in [Events -> Nat \union {None}]
  /\ redacted \subseteq Stored

-----------------------------------------------------------------------------
(* Events *)

\* The receive time is read before the transaction commits.  A correction finds its event.
Store(e) ==
  /\ e \in setting.sent \ Stored
  /\ Usage(e).of # None => Usage(e).of \in Stored /\ \A c \in Stored : Usage(c).of # Usage(e).of
  /\ \E at \in Max({now - MaxLag, 0})..now : received' = [received EXCEPT ![e] = at]
  /\ UNCHANGED <<subscriptionVars, simulation, redacted>>

\* Retention removes the properties of an event.
Redact(e) ==
  /\ e \in (setting.redactable \intersect Stored) \ redacted
  /\ redacted' = redacted \union {e}
  /\ UNCHANGED <<subscriptionVars, simulation, received>>

-----------------------------------------------------------------------------
(* The request *)

\* The watermark is the clock after the versions and the customers have been read.
LookAtPlans(r) ==
  LET i == request[r].ask.on
      baseline == Plan(i).baseline
      candidate == Plan(i).candidate
      cohort == IF Plan(i).customers = {} THEN Known ELSE Plan(i).customers
  IN /\ Reads(r, "simulate")
     /\ version[baseline] = "published" /\ version[candidate] \in {"draft", "published"}
     /\ Definition(baseline).currency = Definition(candidate).currency
     /\ cohort # {} /\ cohort \subseteq Known
     /\ Keep(r, [watermark |-> now, customers |-> cohort, known |-> Stored, versions |-> {},
                 status |-> "pending", results |-> NoResults, summary |-> None])
     /\ UNCHANGED <<now, setting, catalog, billing, simulation, received, redacted>>

\* The run and its job are inserted together.
Simulate(r) ==
  LET i == request[r].ask.on
  IN /\ Writes(r, "simulate")
     /\ simulation[i] = None
     /\ Free({Plan(i).baseline, Plan(i).candidate}, r)
     /\ simulation' = [simulation EXCEPT ![i] = request[r].read]
     /\ Finish(r)
     /\ UNCHANGED <<now, setting, catalog, billing, received, redacted>>

-----------------------------------------------------------------------------
(* The run of a worker *)

ClaimSimulation(r) ==
  \E i \in SimulationIds :
    /\ simulation[i] # None /\ simulation[i].status = "pending"
    /\ Receive(r, [op |-> "run", on |-> i], <<i>>)
    /\ UNCHANGED <<billing, simulation, received, redacted>>

\* Meters the two versions charge by.
MetersOf(i) ==
  {setting.meterOf[f] : f \in FeaturesOf(Plan(i).baseline) \union FeaturesOf(Plan(i).candidate)}
    \ {None}

Period(i) == [from |-> Plan(i).from, to |-> Plan(i).to]

\* todo are the customers whose events are not read yet.
LoadDefinitions(r) ==
  LET i == request[r].ask.on
  IN /\ Reads(r, "run")
     /\ simulation[i].status = "pending"
     /\ Keep(r, [versions |-> {m \in MeterVersions :
                                 /\ meterVersion[m] = "published" /\ Measure(m).meter \in MetersOf(i)
                                 /\ IntervalsOverlap(Measure(m), Period(i))},
                 todo |-> simulation[i].customers, results |-> NoResults, failed |-> FALSE])
     /\ UNCHANGED <<now, setting, catalog, billing, simulation, received, redacted>>

\* Mutant: the events are those effective by now.
EventsByNow(i, customers, versions) ==
  {e \in Effective(now) : /\ Usage(e).customer \in customers
                          /\ Usage(e).type \in {Measure(m).type : m \in versions}
                          /\ Plan(i).from <= Usage(e).day /\ Usage(e).day < Plan(i).to}

\* The events of some customers in the period, as of the watermark.
EventsOf(i, customers, versions) ==
  {e \in Effective(simulation[i].watermark) :
     /\ Usage(e).customer \in customers
     /\ Usage(e).type \in {Measure(m).type : m \in versions}
     /\ Plan(i).from <= Usage(e).day /\ Usage(e).day < Plan(i).to}

\* The events a meter counts while its versions are in force.
Counted(m, versions, events) ==
  {e \in events : \E v \in versions :
     /\ Measure(v).meter = m /\ Measure(v).type = Usage(e).type
     /\ Measure(v).from <= Usage(e).day /\ Before(Usage(e).day, Measure(v).to)}

\* What a component counts of the events of a customer.
CountedBy(component, versions, events) ==
  LET m == IF component.feature = None THEN None ELSE setting.meterOf[component.feature]
  IN IF m = None THEN {} ELSE Counted(m, versions, events)

Quantity(events) == SumFunction([e \in events |-> Usage(e).value])

\* The quantity of each component of a plan version.
Quantities(v, versions, events) ==
  LET components == Definition(v).components
  IN [i \in DOMAIN components |-> Quantity(CountedBy(components[i], versions, events))]

Price(v, versions, events) ==
  Subtotal(Definition(v).components, Quantities(v, versions, events))

\* A value that some component needs and that is no number excludes the customer.
Unusable(i, versions, events) ==
  \E v \in {Plan(i).baseline, Plan(i).candidate} : \E c \in Components(v) :
    \E e \in CountedBy(c, versions, events) : Usage(e).value = None

Excluded(events) ==
  [baseline |-> 0, candidate |-> 0, delta |-> 0, increase |-> FALSE, excluded |-> TRUE,
   counted |-> events]

\* An increase of so many percent, of an amount that is not zero, is warned of.
Compare(baseline, candidate, events) ==
  [baseline |-> baseline, candidate |-> candidate, delta |-> candidate - baseline,
   increase |-> baseline # 0 /\ 100 * (candidate - baseline) >= setting.threshold * baseline,
   excluded |-> FALSE, counted |-> events]

ResultOf(i, versions, events) ==
  IF Unusable(i, versions, events) THEN Excluded(events)
  ELSE Compare(Price(Plan(i).baseline, versions, events),
               Price(Plan(i).candidate, versions, events), events)

\* One statement reads the events of the next customers, whose order is that of their ids.
ReadBatch(r) ==
  LET i == request[r].ask.on
      run == request[r].read
  IN /\ Writes(r, "run") /\ ~run.failed
     /\ \E batch \in kSubset(Min({BatchSize, Cardinality(run.todo)}), run.todo) :
          LET events == EventsOf(i, batch, run.versions)
              Own(c) == {e \in events : Usage(e).customer = c}
          IN /\ batch # {}
             /\ IF events \intersect redacted # {}
                THEN request' = [request EXCEPT ![r].locks = {}, ![r].read.failed = TRUE]
                ELSE Keep(r, [run EXCEPT
                       !.todo = @ \ batch,
                       !.results = [c \in Customers |->
                                      IF c \in batch THEN ResultOf(i, run.versions, Own(c)) ELSE @[c]]])
     /\ UNCHANGED <<now, setting, catalog, billing, simulation, received, redacted>>

\* The delta at some percent of the way through the sorted deltas.
Percentile(results, included, percent) ==
  LET Smaller(c) == {o \in included : results[o].delta < results[c].delta}
      last == ((Cardinality(included) - 1) * percent) \div 100
  IN IF included = {} THEN 0
     ELSE Max({results[c].delta : c \in {o \in included : Cardinality(Smaller(o)) <= last}})

\* No change counts as an increase, too: zero is positive to the library.
Summarize(results) ==
  LET included == {c \in Answered(results) : ~results[c].excluded}
      Total(Of(_)) == SumFunction([c \in included |-> Of(results[c])])
  IN [baseline |-> Total(LAMBDA x : x.baseline), candidate |-> Total(LAMBDA x : x.candidate),
      increased |-> Cardinality({c \in included : results[c].delta >= 0}),
      decreased |-> Cardinality({c \in included : results[c].delta < 0}),
      unchanged |-> Cardinality({c \in included : results[c].delta = 0}),
      warned |-> Cardinality({c \in included : results[c].increase}),
      median |-> Percentile(results, included, 50), p95 |-> Percentile(results, included, 95)]

CompleteRun(r) ==
  LET i == request[r].ask.on
      run == request[r].read
  IN /\ Writes(r, "run") /\ ~run.failed /\ run.todo = {}
     /\ simulation' = [simulation EXCEPT
          ![i].status = "completed", ![i].versions = run.versions,
          ![i].results = run.results, ![i].summary = Summarize(run.results)]
     /\ Finish(r)
     /\ UNCHANGED <<now, setting, catalog, billing, received, redacted>>

\* After the rollback the handler marks a simulation that is still pending.
FailRun(r) ==
  LET i == request[r].ask.on
  IN /\ Writes(r, "run") /\ request[r].read.failed
     /\ Free({i}, r)
     /\ simulation' = [simulation EXCEPT
          ![i].status = IF @ = "pending" THEN "failed" ELSE @]
     /\ Finish(r)
     /\ UNCHANGED <<now, setting, catalog, billing, received, redacted>>

-----------------------------------------------------------------------------

SimulationRows == CatalogRows \union Sold \union {i \in SimulationIds : simulation[i] # None}

Ask(r) ==
  \E ask \in setting.asks : Receivable(ask) /\ Receive(r, ask, SaleRows(ask))

SimulationStep(r) ==
  \/ LookAtPlans(r) \/ Simulate(r)
  \/ LoadDefinitions(r) \/ ReadBatch(r) \/ CompleteRun(r) \/ FailRun(r)

Others == <<simulation, received, redacted>>

Work(r) ==
  \/ /\ Take(r, SimulationRows) \/ Abort(r) \/ CatalogStep(r)
     /\ UNCHANGED <<billing, Others>>
  \/ SubscriptionStep(r) /\ UNCHANGED Others
  \/ SimulationStep(r)

Next ==
  \/ Tick /\ UNCHANGED <<billing, Others>>
  \/ RetryRenewal /\ UNCHANGED Others
  \/ \E e \in Events : Store(e) \/ Redact(e)
  \/ \E r \in Requests : Ask(r) /\ UNCHANGED <<billing, Others>>
  \/ \E r \in Requests : ClaimRenewal(r) /\ UNCHANGED Others
  \/ \E r \in Requests : ClaimSimulation(r)
  \/ \E r \in Open : Work(r)

Spec == Init /\ [][Next]_vars

-----------------------------------------------------------------------------
(* Properties *)

\* The events of a customer in the period of a simulation.
InPeriod(i, c) ==
  {e \in Stored : /\ Usage(e).customer = c
                  /\ Plan(i).from <= Usage(e).day /\ Usage(e).day < Plan(i).to}

CorrectedBy(events, e) == \E c \in events : Usage(c).of = e

\* Of the events received at the watermark or before, those stored when the simulation was
\* requested are counted unless they were corrected, and never with their correction.
CountsTheSnapshot(i, c) ==
  LET s == simulation[i]
      counted == s.results[c].counted
      behind == {e \in Stored : received[e] <= s.watermark}
      types == {Measure(m).type : m \in s.versions}
  IN /\ counted \subseteq InPeriod(i, c) \intersect behind
     /\ \A e \in counted : Usage(e).kind # "reversal" /\ ~CorrectedBy(s.known \union counted, e)
     /\ \A e \in (s.known \intersect InPeriod(i, c)) \ counted :
          Usage(e).kind = "reversal" \/ CorrectedBy(behind, e) \/ Usage(e).type \notin types

\* The price of the counted events, unit by unit and rounded line by line.
FairPrice(i, v, c) ==
  LET s == simulation[i]
  IN FairSubtotal(Definition(v).components,
                  Quantities(v, s.versions, s.results[c].counted))

\* A completed simulation has one result for each customer it was requested for, whatever was
\* stored, corrected, redacted or published while it ran and however often it was begun: an
\* amount is the fair price of the snapshot that its watermark pins, and the summary adds up
\* the results.
SimulationsAreExact ==
  \A i \in SimulationIds : simulation[i] # None /\ simulation[i].status = "completed" =>
    LET s == simulation[i]
        included == {c \in s.customers : ~s.results[c].excluded}
        Fair(v) == SumFunction([c \in included |-> FairPrice(i, v, c)])
    IN /\ Answered(s.results) = s.customers
       /\ \A c \in s.customers : CountsTheSnapshot(i, c)
       /\ \A c \in included : /\ s.results[c].baseline = FairPrice(i, Plan(i).baseline, c)
                               /\ s.results[c].candidate = FairPrice(i, Plan(i).candidate, c)
       /\ s.summary.baseline = Fair(Plan(i).baseline)
       /\ s.summary.candidate = Fair(Plan(i).candidate)
=============================================================================
