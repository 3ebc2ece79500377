------------------------------ MODULE Catalog ------------------------------
(***************************************************************************)
(* What an organization sells and to whom: meters and plans with their     *)
(* versions, features, customers and their subjects.                       *)
(*                                                                         *)
(* A request is one transaction at READ COMMITTED.  It locks the rows it   *)
(* is about one after the other (FOR UPDATE, in the order of its query),   *)
(* decides, and writes; nothing of it is seen before.  A row that refers   *)
(* to another waits until nobody else has locked that one.  Subscriptions  *)
(* and Simulations extend this module with requests of their own.          *)
(***************************************************************************)
EXTENDS Pricing

CONSTANTS
  Plans, Versions,          \* plans, and their versions
  Meters, MeterVersions,    \* meters, and their versions
  Features,
  Customers, Subjects,      \* customers are known by the first of their subjects
  Rows,                     \* rows of these and other tables, which requests lock
  Requests,                 \* requests that may run at the same time
  Settings,                 \* what there is to begin with, and what is asked for
  Horizon                   \* bound: the last moment of every clock

\* What the requests that create versions say.
ComponentDefinition(c) ==
  /\ PriceDefinition(c.price) /\ c.parts \in Nat \ {0}
  /\ c.feature \in Features \union {None} /\ c.entitled \in BOOLEAN
  /\ c.entitled => c.feature # None

VersionDefinition(v) ==
  /\ v.plan \in Plans /\ v.from \in Nat /\ v.currency \in STRING
  /\ v.components # <<>> /\ IsFiniteSet(DOMAIN v.components)
  /\ \A i \in DOMAIN v.components : ComponentDefinition(v.components[i])

MeterVersionDefinition(m) ==
  /\ m.meter \in Meters /\ m.from \in Nat /\ m.to \in Nat \union {None}
  /\ m.to # None => m.to > m.from

\* What may be asked: a request names the row that it makes, or that it is about, as on.
MeterAsk(ask) ==
  \/ ask.op \in {"create meter", "archive meter"} /\ ask.on \in Meters
  \/ ask.op \in {"create meter version", "publish meter version"} /\ ask.on \in MeterVersions

FeatureAsk(ask) == ask.op = "create feature" /\ ask.on \in Features

\* A version may be made as a copy of another one.
PlanAsk(ask) ==
  \/ ask.op \in {"create plan", "archive plan"} /\ ask.on \in Plans
  \/ ask.op = "create version" /\ ask.on \in Versions /\ ask.of \in Versions \union {None}
  \/ ask.op \in {"publish version", "archive version"} /\ ask.on \in Versions

CustomerAsk(ask) ==
  \/ ask.op = "create customer" /\ ask.on \in Customers /\ ask.of \subseteq Subjects
  \/ ask.op = "attach subject" /\ ask.on \in Subjects /\ ask.of \in Customers

Before(moment, end) == end # None => moment < end

IntervalsOverlap(a, b) == Before(a.from, b.to) /\ Before(b.from, a.to)

\* What there is to begin with has been created by requests, too.
BeginsWell(s) ==
  /\ Subjects \intersect s.existing \subseteq Customers
  /\ \A v \in Versions \intersect s.existing : \A i \in DOMAIN s.version[v].components :
       ValidPrice(s.version[v].components[i].price)
  /\ \A m, o \in MeterVersions \intersect s.existing \intersect s.published :
       m # o /\ s.meterVersion[m].meter = s.meterVersion[o].meter =>
         ~IntervalsOverlap(s.meterVersion[m], s.meterVersion[o])

ASSUME CatalogAssumption ==
  /\ Plans \union Versions \union Meters \union MeterVersions \union Features \union Customers
       \subseteq Rows
  /\ Versions \intersect (Plans \union Meters \union MeterVersions \union Features
                            \union Customers) = {}
  /\ Customers \subseteq Subjects
  /\ None \notin Rows \union Subjects \union Nat
  /\ None \notin {"draft", "active", "published", "archived"}
  /\ Horizon \in Nat
  /\ \A s \in Settings :
       /\ \A v \in Versions : VersionDefinition(s.version[v])
       /\ \A m \in MeterVersions : MeterVersionDefinition(s.meterVersion[m])
       /\ s.meterOf \in [Features -> Meters \union {None}]
       /\ s.until \in 0..Horizon
       /\ s.existing \subseteq Rows /\ s.published \subseteq Versions \union MeterVersions
       /\ BeginsWell(s)

VARIABLES
  now,           \* the clock
  setting,       \* one of Settings, for good
  plan,          \* by plan: its status
  version,       \* by plan version: its status
  meter,         \* by meter: its status
  meterVersion,  \* by meter version: its status
  feature,       \* the features there are
  subject,       \* by subject: its customer
  rebuild,       \* meter versions with a job that rebuilds their aggregates
  request        \* the requests that are at work

catalog == <<plan, version, meter, meterVersion, feature, subject, rebuild>>
catalogVars == <<now, setting, catalog, request>>

-----------------------------------------------------------------------------
(* State *)

Definition(v) == setting.version[v]
Measure(m) == setting.meterVersion[m]

Status(rows, published, s) ==
  [row \in rows |-> IF row \notin s.existing THEN None
                    ELSE IF row \in s.published THEN published ELSE "draft"]

CatalogInit ==
  /\ now = 0
  /\ setting \in Settings
  /\ plan = [p \in Plans |-> IF p \in setting.existing THEN "active" ELSE None]
  /\ version = Status(Versions, "published", setting)
  /\ meterVersion = Status(MeterVersions, "published", setting)
  /\ meter = [m \in Meters |->
                IF m \notin setting.existing THEN None
                ELSE IF \E v \in MeterVersions : meterVersion[v] = "published" /\ Measure(v).meter = m
                     THEN "active" ELSE "draft"]
  /\ feature = Features \intersect setting.existing
  /\ subject = [s \in Subjects |-> IF s \in setting.existing THEN s ELSE None]
  /\ rebuild = {}
  /\ request = [r \in Requests |-> None]

CatalogTypeOK ==
  /\ now \in Nat
  /\ setting \in Settings
  /\ plan \in [Plans -> {"active", "archived", None}]
  /\ version \in [Versions -> {"draft", "published", "archived", None}]
  /\ meter \in [Meters -> {"draft", "active", "archived", None}]
  /\ meterVersion \in [MeterVersions -> {"draft", "published", None}]
  /\ feature \subseteq Features
  /\ subject \in [Subjects -> Customers \union {None}]
  /\ rebuild \subseteq MeterVersions
  /\ \A r \in Requests : request[r] # None =>
       /\ request[r].at \in Nat
       /\ request[r].rows \in Seq(Rows) /\ request[r].locks \subseteq Rows

Open == {r \in Requests : request[r] # None}

\* The first subject of a customer is inserted with it.
Known == {c \in Customers : subject[c] = c}

CatalogRows ==
  {p \in Plans : plan[p] # None} \union {v \in Versions : version[v] # None}
  \union {m \in Meters : meter[m] # None} \union {m \in MeterVersions : meterVersion[m] # None}
  \union feature \union Known

\* No other transaction has locked any of the rows.
Free(rows, r) == \A o \in Open \ {r} : request[o].locks \intersect rows = {}

-----------------------------------------------------------------------------
(* The steps of any request *)

\* Mutant: a meter is not locked while one of its versions is published.
RowsOfVersionsOnly(ask) ==
  CASE ask.op \in {"archive plan", "archive meter"} -> <<ask.on>>
    [] ask.op = "create version" -> <<Definition(ask.on).plan>>
    [] ask.op \in {"publish version", "archive version"} -> <<Definition(ask.on).plan, ask.on>>
    [] ask.op = "create meter version" -> <<Measure(ask.on).meter>>
    [] ask.op = "publish meter version" -> <<ask.on>>
    [] OTHER -> <<>>

\* The rows a request locks, in the order of the tables in its query.
RowsOf(ask) ==
  CASE ask.op \in {"archive plan", "archive meter"} -> <<ask.on>>
    [] ask.op = "create version" -> <<Definition(ask.on).plan>>
    [] ask.op \in {"publish version", "archive version"} -> <<Definition(ask.on).plan, ask.on>>
    [] ask.op = "create meter version" -> <<Measure(ask.on).meter>>
    [] ask.op = "publish meter version" -> <<Measure(ask.on).meter, ask.on>>
    [] OTHER -> <<>>

\* at is the clock when the request came, read what it read before it writes.
Receive(r, ask, rows) ==
  /\ r \notin Open
  /\ request' = [request EXCEPT
       ![r] = [ask |-> ask, at |-> now, rows |-> rows, locks |-> {}, read |-> None]]
  /\ UNCHANGED <<now, setting, catalog>>

\* A copy of a version is asked for when that one is published; it was read before.
Receivable(ask) == ask.op = "create version" /\ ask.of # None => version[ask.of] = "published"

\* FOR UPDATE waits for the next row, if the query finds what it is about.
Take(r, rows) ==
  /\ request[r].rows # <<>>
  /\ {request[r].rows[i] : i \in DOMAIN request[r].rows} \subseteq rows
  /\ Free({Head(request[r].rows)}, r)
  /\ request' = [request EXCEPT ![r].rows = Tail(@), ![r].locks = @ \union {Head(request[r].rows)}]
  /\ UNCHANGED <<now, setting, catalog>>

\* A refusal, an answer, a lost connection, or the victim of a deadlock.
Finish(r) == request' = [request EXCEPT ![r] = None]

Abort(r) == Finish(r) /\ UNCHANGED <<now, setting, catalog>>

\* The request holds what it locks, and has yet to read or to write.
Reads(r, op) ==
  /\ request[r].ask.op = op /\ request[r].rows = <<>> /\ request[r].read = None

Writes(r, op) == request[r].ask.op = op /\ request[r].read # None

Keep(r, found) == request' = [request EXCEPT ![r].read = found]

-----------------------------------------------------------------------------
(* Meters *)

Meter(r, m, status) == meter' = [meter EXCEPT ![m] = status]

CreateMeter(r) ==
  LET m == request[r].ask.on
  IN /\ Reads(r, "create meter")
     /\ meter[m] = None
     /\ Meter(r, m, "draft")
     /\ Finish(r)
     /\ UNCHANGED <<now, setting, plan, version, meterVersion, feature, subject, rebuild>>

ArchiveMeter(r) ==
  /\ Reads(r, "archive meter")
  /\ Meter(r, request[r].ask.on, "archived")
  /\ Finish(r)
  /\ UNCHANGED <<now, setting, plan, version, meterVersion, feature, subject, rebuild>>

CreateMeterVersion(r) ==
  LET m == request[r].ask.on
  IN /\ Reads(r, "create meter version")
     /\ meterVersion[m] = None
     /\ meter[Measure(m).meter] # "archived"
     /\ meterVersion' = [meterVersion EXCEPT ![m] = "draft"]
     /\ Finish(r)
     /\ UNCHANGED <<now, setting, plan, version, meter, feature, subject, rebuild>>

\* The published versions that one of the same meter may not overlap.
Rivals(m) ==
  {o \in MeterVersions \ {m} :
     meterVersion[o] = "published" /\ Measure(o).meter = Measure(m).meter}

LookForOverlap(r) ==
  LET m == request[r].ask.on
  IN /\ Reads(r, "publish meter version")
     /\ meter[Measure(m).meter] # "archived"
     /\ \A o \in Rivals(m) : ~IntervalsOverlap(Measure(o), Measure(m))
     /\ Keep(r, meterVersion[m])
     /\ UNCHANGED <<now, setting, catalog>>

\* The rebuild is asked for again, and found, when the version was published before.
PublishMeterVersion(r) ==
  LET m == request[r].ask.on
  IN /\ Writes(r, "publish meter version")
     /\ IF request[r].read = "draft"
        THEN /\ meterVersion' = [meterVersion EXCEPT ![m] = "published"]
             /\ Meter(r, Measure(m).meter, "active")
        ELSE UNCHANGED <<meterVersion, meter>>
     /\ rebuild' = rebuild \union {m}
     /\ Finish(r)
     /\ UNCHANGED <<now, setting, plan, version, feature, subject>>

-----------------------------------------------------------------------------
(* Features and plans *)

CreateFeature(r) ==
  LET f == request[r].ask.on
      m == setting.meterOf[f]
  IN /\ Reads(r, "create feature")
     /\ f \notin feature
     /\ m # None => meter[m] # None /\ Free({m}, r)
     /\ feature' = feature \union {f}
     /\ Finish(r)
     /\ UNCHANGED <<now, setting, plan, version, meter, meterVersion, subject, rebuild>>

CreatePlan(r) ==
  LET p == request[r].ask.on
  IN /\ Reads(r, "create plan")
     /\ plan[p] = None
     /\ plan' = [plan EXCEPT ![p] = "active"]
     /\ Finish(r)
     /\ UNCHANGED <<now, setting, version, meter, meterVersion, feature, subject, rebuild>>

ArchivePlan(r) ==
  /\ Reads(r, "archive plan")
  /\ plan' = [plan EXCEPT ![request[r].ask.on] = "archived"]
  /\ Finish(r)
  /\ UNCHANGED <<now, setting, version, meter, meterVersion, feature, subject, rebuild>>

Components(v) ==
  LET components == Definition(v).components
  IN {components[i] : i \in DOMAIN components}

FeaturesOf(v) == {c.feature : c \in Components(v)} \ {None}

\* The versions of a plan are numbered under its lock: a version is its number.
CreateVersion(r) ==
  LET v == request[r].ask.on
  IN /\ Reads(r, "create version")
     /\ version[v] = None
     /\ plan[Definition(v).plan] = "active"
     /\ \A c \in Components(v) : ValidPrice(c.price)
     /\ FeaturesOf(v) \subseteq feature
     /\ \A c \in Components(v) : c.price.model # "flat" =>
          c.feature # None /\ setting.meterOf[c.feature] # None
     /\ Free(FeaturesOf(v), r)
     /\ version' = [version EXCEPT ![v] = "draft"]
     /\ Finish(r)
     /\ UNCHANGED <<now, setting, plan, meter, meterVersion, feature, subject, rebuild>>

SetVersion(r, v, status) ==
  /\ version' = [version EXCEPT ![v] = status]
  /\ Finish(r)
  /\ UNCHANGED <<now, setting, plan, meter, meterVersion, feature, subject, rebuild>>

PublishVersion(r) ==
  LET v == request[r].ask.on
  IN /\ Reads(r, "publish version")
     /\ plan[Definition(v).plan] = "active" /\ version[v] # "archived"
     /\ SetVersion(r, v, "published")

ArchiveVersion(r) ==
  LET v == request[r].ask.on
  IN /\ Reads(r, "archive version")
     /\ version[v] # "draft"
     /\ SetVersion(r, v, "archived")

-----------------------------------------------------------------------------
(* Customers *)

\* A customer is inserted with its subjects, or not at all.
CreateCustomer(r) ==
  LET subjects == {request[r].ask.on} \union request[r].ask.of
  IN /\ Reads(r, "create customer")
     /\ \A s \in subjects : subject[s] = None
     /\ subject' = [s \in Subjects |-> IF s \in subjects THEN request[r].ask.on ELSE subject[s]]
     /\ Finish(r)
     /\ UNCHANGED <<now, setting, plan, version, meter, meterVersion, feature, rebuild>>

AttachSubject(r) ==
  LET c == request[r].ask.of
  IN /\ Reads(r, "attach subject")
     /\ c \in Known /\ Free({c}, r)
     /\ subject[request[r].ask.on] = None
     /\ subject' = [subject EXCEPT ![request[r].ask.on] = c]
     /\ Finish(r)
     /\ UNCHANGED <<now, setting, plan, version, meter, meterVersion, feature, rebuild>>

-----------------------------------------------------------------------------

CatalogStep(r) ==
  \/ CreateMeter(r) \/ ArchiveMeter(r)
  \/ CreateMeterVersion(r) \/ LookForOverlap(r) \/ PublishMeterVersion(r)
  \/ CreateFeature(r)
  \/ CreatePlan(r) \/ ArchivePlan(r)
  \/ CreateVersion(r) \/ PublishVersion(r) \/ ArchiveVersion(r)
  \/ CreateCustomer(r) \/ AttachSubject(r)

Tick ==
  /\ now < setting.until
  /\ now' = now + 1
  /\ UNCHANGED <<setting, catalog, request>>

-----------------------------------------------------------------------------
(* Properties *)

\* Two published versions of a meter are never in force at one moment: the processor and the
\* simulations would count an event under both, or under either of them.
PublishedMeterVersionsDoNotOverlap ==
  \A m, o \in MeterVersions :
    /\ m # o /\ Measure(m).meter = Measure(o).meter
    /\ meterVersion[m] = "published" /\ meterVersion[o] = "published"
    => ~IntervalsOverlap(Measure(m), Measure(o))
=============================================================================
