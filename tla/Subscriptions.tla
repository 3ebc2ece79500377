--------------------------- MODULE Subscriptions ---------------------------
(***************************************************************************)
(* Subscriptions and the entitlements they renew: the sale and the         *)
(* cancellation of a subscription, entitlements configured by hand, and    *)
(* the jobs that refresh the entitlements of a subscription, each of which *)
(* queues the next.                                                        *)
(*                                                                         *)
(* The clock counts days of a calendar whose months differ in length.      *)
(***************************************************************************)
EXTENDS Catalog

CONSTANTS
  SubscriptionIds,  \* subscriptions
  MonthLengths      \* the lengths of the months, the first of which begins at 0

SaleDefinition(s) ==
  /\ s.customer \in Customers /\ s.version \in Versions
  /\ s.start \in Nat /\ s.anchor \in 0..s.start
  /\ s.end \in Nat \union {None} /\ (s.end # None => s.end > s.start)

SubscriptionAsk(ask) ==
  \/ ask.op = "subscribe" /\ ask.on \in SubscriptionIds
  \/ ask.op = "cancel" /\ ask.on \in SubscriptionIds /\ ask.of \in Nat

ConfigureAsk(ask) ==
  /\ ask.op = "configure" /\ ask.on \in Customers /\ ask.of \in Features
  /\ ask.from \in Nat /\ ask.to \in Nat /\ ask.from < ask.to

ASSUME SubscriptionsAssumption ==
  /\ SubscriptionIds \subseteq Rows
  /\ SubscriptionIds \intersect (Plans \union Versions \union Meters \union MeterVersions
                                 \union Features \union Customers) = {}
  /\ MonthLengths \in Seq(Nat \ {0})
  /\ \A s \in Settings : \A i \in SubscriptionIds : SaleDefinition(s.sale[i])

VARIABLES
  subscription,  \* by subscription: its end, and whether it is canceled
  entitlement,   \* the entitlements, those of subscriptions and the others
  renewal        \* the jobs that refresh entitlements

billing == <<subscription, entitlement, renewal>>
subscriptionVars == <<catalogVars, billing>>

-----------------------------------------------------------------------------
(* Billing periods *)

FirstDay(month) == SumFunctionOnSet(MonthLengths, 1..(month - 1))

MonthOf(day) ==
  CHOOSE m \in DOMAIN MonthLengths : FirstDay(m) <= day /\ day < FirstDay(m + 1)

\* Days the calendar has.
Days == 0..(FirstDay(Len(MonthLengths) + 1) - 1)

\* The calendar goes a month further than the clock and the sales.
ASSUME CalendarAssumption ==
  /\ Horizon < FirstDay(Len(MonthLengths))
  /\ \A s \in Settings : \A i \in SubscriptionIds : s.sale[i].start < FirstDay(Len(MonthLengths))

\* Mutant: a day that the month does not have spills over into the next.
AfterMonthsSpilling(anchor, months) ==
  FirstDay(MonthOf(anchor) + months) + anchor - FirstDay(MonthOf(anchor))

\* The day of the anchor in a later month, or the last day of a month that is too short.
AfterMonths(anchor, months) ==
  LET month == MonthOf(anchor) + months
      day == anchor - FirstDay(MonthOf(anchor))
  IN FirstDay(month) + Min({day, MonthLengths[month] - 1})

\* The period of a subscription at a moment, and when the next cycle starts.
PeriodAt(at, anchor, start, end) ==
  LET guess == MonthOf(at) - MonthOf(anchor)
      months == IF AfterMonths(anchor, guess) > at THEN guess - 1 ELSE guess
      next == AfterMonths(anchor, months + 1)
  IN [start |-> Max({AfterMonths(anchor, months), start}),
      end |-> IF end = None THEN next ELSE Min({next, end}),
      next |-> next]

-----------------------------------------------------------------------------
(* State *)

Sale(s) == setting.sale[s]

Subscription == [end: Nat \union {None}, canceled: BOOLEAN]

\* What a refresh job has found, and whether it is through.
Reading ==
  [state: {"done", "failed"}]
    \union [state: {"open", "done", "failed"}, end: Nat \union {None},
            period: [start: Nat, end: Nat, next: Nat]]

ASSUME NoSubscriptionAssumption == None \notin Subscription \union Reading

Entitlement ==
  [customer: Customers, feature: Features, from: Nat, to: Nat, of: SubscriptionIds \union {None}]

\* A job that met a conflict has failed for good, one that ran out of attempts has not.
Renewal == [of: SubscriptionIds, at: Nat, state: {"queued", "done", "failed", "exhausted"}]

SubscriptionsInit ==
  /\ CatalogInit
  /\ subscription = [s \in SubscriptionIds |-> None]
  /\ entitlement = {}
  /\ renewal = {}

SubscriptionsTypeOK ==
  /\ CatalogTypeOK
  /\ subscription \in [SubscriptionIds -> Subscription \union {None}]
  /\ entitlement \subseteq Entitlement
  /\ renewal \subseteq Renewal

Sold == {s \in SubscriptionIds : subscription[s] # None}

\* The features of a version that its subscriptions are entitled to.
Entitled(v) == {c.feature : c \in {d \in Components(v) : d.entitled}}

\* Unique: customer, feature, first and last moment.
Clashes(e, set) ==
  \E o \in set : [o EXCEPT !.of = None] = [e EXCEPT !.of = None]

Granted(s, period) ==
  {[customer |-> Sale(s).customer, feature |-> f, from |-> period.start, to |-> period.end, of |-> s]
     : f \in Entitled(Sale(s).version)}

\* The job of the next cycle, unless the subscription ends before or there is one.
NextRenewal(s, period, end) ==
  {[of |-> s, at |-> period.next, state |-> "queued"] :
     x \in {y \in {1} : /\ Before(period.next, end)
                        /\ \A j \in renewal : j.of = s => j.at # period.next}}

\* Subscriptions of the customer in the same slot that are in force in between.
InSlot(s, from, to) ==
  {o \in Sold \ {s} :
     /\ Sale(o).customer = Sale(s).customer /\ Sale(o).slot = Sale(s).slot
     /\ Before(from, subscription[o].end) /\ Before(Sale(o).start, to)}

-----------------------------------------------------------------------------
(* Sale and cancellation *)

\* The version and the plan are read without a lock.
LookAtVersion(r) ==
  LET s == request[r].ask.on
      v == Sale(s).version
  IN /\ Reads(r, "subscribe")
     /\ version[v] = "published" /\ plan[Definition(v).plan] = "active"
     /\ Sale(s).start >= Definition(v).from
     /\ InSlot(s, Sale(s).start, Sale(s).end) = {}
     /\ Keep(r, v)
     /\ UNCHANGED <<now, setting, catalog, billing>>

\* The exclusion constraint of the slot and the unique entitlements hold, or nothing is done.
Subscribe(r) ==
  LET s == request[r].ask.on
      period == PeriodAt(Sale(s).start, Sale(s).anchor, Sale(s).start, Sale(s).end)
      first == Granted(s, period)
  IN /\ Writes(r, "subscribe")
     /\ subscription[s] = None
     /\ Free({request[r].read} \union Entitled(Sale(s).version), r)
     /\ InSlot(s, Sale(s).start, Sale(s).end) = {}
     /\ \A e \in first : ~Clashes(e, entitlement)
     /\ subscription' = [subscription EXCEPT ![s] = [end |-> Sale(s).end, canceled |-> FALSE]]
     /\ entitlement' = entitlement \union first
     /\ renewal' = renewal \union (IF first = {} THEN {} ELSE NextRenewal(s, period, Sale(s).end))
     /\ Finish(r)
     /\ UNCHANGED <<now, setting, catalog>>

\* Mutant: they are clipped to the end there was.
ClipToOldEnd(s, end) ==
  {IF e.of = s /\ e.from < end /\ e.to > end THEN [e EXCEPT !.to = subscription[s].end] ELSE e
     : e \in entitlement}

\* The entitlements of the period in which a subscription ends, and the others.
Clip(s, end) ==
  {IF e.of = s /\ e.from < end /\ e.to > end THEN [e EXCEPT !.to = end] ELSE e : e \in entitlement}

\* The new end may be later than the one there was; it is not earlier than the call.
Cancel(r) ==
  LET s == request[r].ask.on
      end == request[r].ask.of
  IN /\ Reads(r, "cancel")
     /\ end >= request[r].at
     /\ end > Sale(s).start
     /\ ~subscription[s].canceled
     /\ InSlot(s, Sale(s).start, end) = {}
     /\ Cardinality({[e EXCEPT !.of = None] : e \in Clip(s, end)}) = Cardinality(entitlement)
     /\ subscription' = [subscription EXCEPT ![s] = [end |-> end, canceled |-> TRUE]]
     /\ entitlement' = Clip(s, end)
     /\ Finish(r)
     /\ UNCHANGED <<now, setting, catalog, renewal>>

\* An entitlement configured by hand: nothing of the feature may overlap it.
Configure(r) ==
  LET ask == request[r].ask
      e == [customer |-> ask.on, feature |-> ask.of, from |-> ask.from, to |-> ask.to, of |-> None]
  IN /\ Reads(r, "configure")
     /\ \A o \in entitlement :
          o.customer = e.customer /\ o.feature = e.feature => ~IntervalsOverlap(o, e)
     /\ entitlement' = entitlement \union {e}
     /\ Finish(r)
     /\ UNCHANGED <<now, setting, catalog, subscription, renewal>>

-----------------------------------------------------------------------------
(* Renewal *)

\* Mutant: the subscription is read without a lock.
ClaimRenewalUnlocked(r) ==
  \E j \in renewal :
    /\ j.state = "queued" /\ j.at <= now
    /\ Receive(r, [op |-> "refresh", on |-> j.of, of |-> j.at], <<>>)
    /\ UNCHANGED billing

\* A worker claims a job that is due; so may another one when the lease of the first is over.
ClaimRenewal(r) ==
  \E j \in renewal :
    /\ j.state = "queued" /\ j.at <= now
    /\ Receive(r, [op |-> "refresh", on |-> j.of, of |-> j.at], <<j.of, Sale(j.of).customer>>)
    /\ UNCHANGED billing

Settled(r, state) ==
  {IF j.of = request[r].ask.on /\ j.at = request[r].ask.of /\ j.state = "queued"
   THEN [j EXCEPT !.state = state] ELSE j : j \in renewal}

\* A moment outside the subscription needs no renewal.
ReadSubscription(r) ==
  LET s == request[r].ask.on
      at == request[r].ask.of
      end == subscription[s].end
      period == PeriodAt(at, Sale(s).anchor, Sale(s).start, end)
  IN /\ Reads(r, "refresh")
     /\ IF at < Sale(s).start \/ ~Before(at, end) THEN Keep(r, [state |-> "done"])
        ELSE IF period.start # at THEN Keep(r, [state |-> "failed"])
        ELSE Keep(r, [state |-> "open", period |-> period, end |-> end])
     /\ UNCHANGED <<now, setting, catalog, billing>>

\* Entitlements that are there already, of this subscription or not.
Taken(new) == {e \in new : Clashes(e, entitlement)}

\* Mutant: those that a repetition of the job finds are in its way.
ForeignOrOwn(new) == Taken(new)

Foreign(new) == Taken(new) \ entitlement

\* The transaction commits what it has inserted, of components in any order, when it meets an
\* entitlement that is not of this subscription.
Refresh(r) ==
  LET s == request[r].ask.on
      found == request[r].read
      new == Granted(s, found.period)
  IN /\ Writes(r, "refresh") /\ found.state = "open"
     /\ Free(Entitled(Sale(s).version), r)
     /\ IF Foreign(new) = {}
        THEN /\ entitlement' = entitlement \union new
             /\ renewal' = renewal \union NextRenewal(s, found.period, found.end)
        ELSE /\ \E some \in SUBSET (new \ Taken(new)) : entitlement' = entitlement \union some
             /\ UNCHANGED renewal
     /\ request' = [request EXCEPT ![r].locks = {}, ![r].read.state =
                      IF Foreign(new) = {} THEN "done" ELSE "failed"]
     /\ UNCHANGED <<now, setting, catalog, subscription>>

\* Mutant: a job that has met a conflict is completed.
SettleAsDone(r) ==
  /\ Writes(r, "refresh") /\ request[r].read.state # "open"
  /\ renewal' = Settled(r, "done")
  /\ Finish(r)
  /\ UNCHANGED <<now, setting, catalog, subscription, entitlement>>

\* The handler returns, or fails for good, and the queue is told.
Settle(r) ==
  /\ Writes(r, "refresh") /\ request[r].read.state # "open"
  /\ renewal' = Settled(r, request[r].read.state)
  /\ Finish(r)
  /\ UNCHANGED <<now, setting, catalog, subscription, entitlement>>

\* The last attempt fails, or its answer is lost, for a reason that may pass.
Exhaust(r) ==
  /\ request[r].ask.op = "refresh"
  /\ renewal' = Settled(r, "exhausted")
  /\ Finish(r)
  /\ UNCHANGED <<now, setting, catalog, subscription, entitlement>>

\* An operator retries such a job; one that has failed for good is refused.
RetryRenewal ==
  \E j \in renewal :
    /\ j.state = "exhausted"
    /\ renewal' = (renewal \ {j}) \union {[j EXCEPT !.state = "queued"]}
    /\ UNCHANGED <<catalogVars, subscription, entitlement>>

-----------------------------------------------------------------------------

SaleRows(ask) ==
  LET sale == Sale(ask.on)
  IN CASE ask.op = "subscribe" -> <<sale.customer>>
       [] ask.op = "cancel" ->
            <<ask.on, sale.customer, sale.version, Definition(sale.version).plan>>
       [] ask.op = "configure" -> <<ask.on, ask.of>>
       [] OTHER -> RowsOf(ask)

SubscriptionStep(r) ==
  \/ LookAtVersion(r) \/ Subscribe(r) \/ Cancel(r) \/ Configure(r)
  \/ ReadSubscription(r) \/ Refresh(r) \/ Settle(r) \/ Exhaust(r)

-----------------------------------------------------------------------------
(* Properties *)

\* Whether a day is that of the anchor, in its own month, or the last one of a shorter month.
Anniversary(anchor, day) ==
  LET wanted == anchor - FirstDay(MonthOf(anchor))
      last == MonthLengths[MonthOf(day)] - 1
  IN day - FirstDay(MonthOf(day)) = IF wanted > last THEN last ELSE wanted

LiesWell(e) ==
  LET end == subscription[e.of].end
  IN /\ e.from >= Sale(e.of).start
     /\ e.from = Sale(e.of).start \/ Anniversary(Sale(e.of).anchor, e.from)
     /\ end # None => e.to <= end \/ e.from >= end

NewOnesBeginBeforeTheEnd ==
  \A e \in entitlement' \ entitlement : e.of # None => Before(e.from, subscription'[e.of].end)

\* An entitlement of a subscription begins with it, or later on an anniversary of its anchor,
\* and does not run across its end.  None is made that begins at the end or after it: what
\* does so was there when the subscription was canceled.
EntitlementsFitSubscription ==
  /\ [](\A e \in entitlement : e.of # None => LiesWell(e))
  /\ [][NewOnesBeginBeforeTheEnd]_subscriptionVars

\* Somebody else has entitled the customer to a feature of the subscription from a day on.
Forestalled(s, day) ==
  \E e \in entitlement : /\ e.customer = Sale(s).customer /\ e.of # s /\ e.from = day
                         /\ e.feature \in Entitled(Sale(s).version)

\* Renewals of a subscription that are to be made, or have failed: an operator sees those.
Due(s) == {j.at : j \in {k \in renewal : k.of = s /\ k.state # "done"}}

\* What the chain of a subscription covers: all of it until the next renewal that is to be made.
ChainsAreWhole ==
  \A s \in Sold : \A f \in Entitled(Sale(s).version) : \A day \in Days :
    /\ Sale(s).start <= day
    /\ Before(day, subscription[s].end) /\ Before(day, Sale(s).end)
    /\ \A due \in Due(s) : day < due
    => \E e \in entitlement : e.of = s /\ e.feature = f /\ e.from <= day /\ day < e.to

\* A subscription entitles to its features at every moment, until the renewal that is to be made
\* next, or until it ends: no commit, conflict or repetition of a job breaks the chain, and
\* a renewal fails only when somebody else's entitlement is in its way.  A cancellation that
\* moves the end of a fixed term to a later moment extends the subscription and not the chain:
\* the term that was sold is what counts.
RenewalsContinue ==
  ChainsAreWhole /\ \A j \in renewal : j.state = "failed" => Forestalled(j.of, j.at)
=============================================================================
