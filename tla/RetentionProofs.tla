--------------------------- MODULE RetentionProofs ---------------------------
(***************************************************************************)
(* Theorems about Retention: types, the chain of scans, the policy that    *)
(* every redaction obeys, and the requests of servers that exit in order.  *)
(***************************************************************************)
EXTENDS Retention, SetLemmas, SequenceTheorems

-----------------------------------------------------------------------------
(* The events that arrived first *)

LEMMA First ==
  ASSUME NEW S, S # {}, NEW f \in [S -> Nat]
  PROVE  \E x \in S : \A y \in S : f[x] <= f[y]
  <1>1. {f[x] : x \in S} \in SUBSET Nat /\ {f[x] : x \in S} # {}
    OBVIOUS
  <1>2. PICK m \in {f[x] : x \in S} : \A n \in {f[x] : x \in S} : m <= n
    BY <1>1, LeastNumber
  <1>. QED
    BY <1>2

\* n elements that come first, when there are so many.
Firsts(n, S, f) ==
  {B \in SUBSET S : /\ IsFiniteSet(B) /\ Cardinality(B) = n
                    /\ \A x \in B : \A y \in S \ B : f[x] <= f[y]}

LEMMA OneMore ==
  ASSUME NEW S, IsFiniteSet(S), NEW f \in [S -> Nat], NEW n \in Nat, n < Cardinality(S),
         Firsts(n, S, f) # {}
  PROVE  Firsts(n + 1, S, f) # {}
  <1>1. PICK B \in Firsts(n, S, f) : TRUE
    OBVIOUS
  <1>2. B \in SUBSET S /\ IsFiniteSet(B) /\ Cardinality(B) = n
        /\ \A x \in B : \A y \in S \ B : f[x] <= f[y]
    BY DEF Firsts
  <1>3. S \ B # {}
    <2>1. SUFFICES ASSUME S \ B = {} PROVE FALSE
      OBVIOUS
    <2>2. S = B
      BY <1>2, <2>1
    <2>. QED
      BY <1>2, <2>2
  <1>4. PICK z \in S \ B : \A y \in S \ B : f[z] <= f[y]
    <2> DEFINE g == [x \in S \ B |-> f[x]]
    <2>1. g \in [S \ B -> Nat]
      OBVIOUS
    <2>2. \E z \in S \ B : \A y \in S \ B : g[z] <= g[y]
      <3> HIDE DEF g
      <3>. QED BY <1>3, <2>1, First
    <2>. QED
      BY <2>2
  <1>5. IsFiniteSet(B \union {z}) /\ Cardinality(B \union {z}) = n + 1
    BY <1>2, FS_AddElement
  <1>6. B \union {z} \in Firsts(n + 1, S, f)
    <2>1. \A x \in B \union {z} : \A y \in S \ (B \union {z}) : f[x] <= f[y]
      BY <1>2, <1>4
    <2>. QED
      BY <1>2, <1>5, <2>1 DEF Firsts
  <1>. QED
    BY <1>6

LEMMA FirstsExist ==
  ASSUME NEW S, IsFiniteSet(S), NEW f \in [S -> Nat], NEW n \in Nat, n <= Cardinality(S)
  PROVE  Firsts(n, S, f) # {}
  <1> DEFINE Bad == {m \in Nat : m <= n /\ Firsts(m, S, f) = {}}
  <1> SUFFICES ASSUME Bad # {} PROVE FALSE
    OBVIOUS
  <1>1. PICK m \in Bad : \A k \in Bad : m <= k
    <2>1. Bad \in SUBSET Nat
      OBVIOUS
    <2>. QED
      <3> HIDE DEF Bad
      <3>. QED BY <2>1, LeastNumber
  <1>2. Cardinality(S) \in Nat
    BY FS_CardinalityType
  <1>3. m # 0
    <2>1. {} \in Firsts(0, S, f)
      BY FS_EmptySet DEF Firsts
    <2>. QED
      BY <2>1
  <1>4. m - 1 \in Nat /\ m - 1 <= n /\ m - 1 \notin Bad /\ m - 1 < Cardinality(S)
    BY <1>1, <1>2, <1>3
  <1>5. Firsts(m - 1, S, f) # {}
    BY <1>4
  <1>6. Firsts((m - 1) + 1, S, f) # {}
    BY <1>4, <1>5, OneMore
  <1>7. (m - 1) + 1 = m
    OBVIOUS
  <1>. QED
    BY <1>6, <1>7

\* A batch consists of eligible events.
LEMMA BatchIsEligible ==
  ASSUME setting \in Settings, IsFiniteSet(processed), processed \subseteq Events, NEW cutoff
  PROVE  Batch(cutoff) \subseteq Eligible(cutoff)
  <1> DEFINE S == Eligible(cutoff)
             n == Min({BatchSize, Cardinality(S)})
             f == [e \in S |-> setting.received[e]]
  <1>1. S \subseteq processed /\ S \subseteq Events
    BY DEF Eligible
  <1>2. IsFiniteSet(S) /\ Cardinality(S) \in Nat
    BY <1>1, FS_Subset, FS_CardinalityType
  <1>3. f \in [S -> Nat]
    BY <1>1, RetentionAssumption
  <1>4. n \in Nat /\ n <= Cardinality(S)
    <2> DEFINE c == Cardinality(S)
    <2>1. c \in Nat /\ BatchSize \in Nat
      BY <1>2, RetentionAssumption
    <2>2. \E x \in {BatchSize, c} : \A y \in {BatchSize, c} : x <= y
      <3> HIDE DEF c
      <3>. QED BY <2>1
    <2>3. n \in {BatchSize, c} /\ \A y \in {BatchSize, c} : n <= y
      BY <2>2 DEF Min
    <2>. QED
      BY <2>1, <2>3
  <1>5. PICK B \in Firsts(n, S, f) : TRUE
    <2> HIDE DEF S, n, f
    <2>. QED BY <1>2, <1>3, <1>4, FirstsExist
  <1>6. B \in kSubset(n, S) /\ \A e \in B : \A o \in S \ B : setting.received[e] <= setting.received[o]
    BY <1>5 DEF Firsts, kSubset
  <1>7. Batch(cutoff) \in kSubset(n, S)
    BY <1>6 DEF Batch
  <1>. QED
    BY <1>7 DEF kSubset

-----------------------------------------------------------------------------
(* What a scan knows *)

JobSet ==
  [version : Nat, due : Nat, of : Nat,
   status : {"pending", "processing", "completed", "failed"},
   attempts : Nat, owner : Workers \union {None}, lapsed : BOOLEAN]

RunSet ==
  [phase : {"top", "claiming", "claimed", "locked", "done", "failed"},
   job : Nat, at : Nat, cutoff : Int]

DataTypes ==
  /\ setting \in Settings /\ now \in Nat
  /\ policy \in [version : Nat, days : Nat \union {None}]
  /\ jobs \in Seq(JobSet)
  /\ \A j \in DOMAIN jobs : jobs[j].version \in 1..policy.version /\ jobs[j].of < j
  /\ redacted \subseteq processed /\ processed \subseteq Events /\ IsFiniteSet(processed)
  /\ held \in [Events -> {"never", "held", "released"}]

\* The chain of the policy in force has one end.
OneHead ==
  policy.days # None => \E h \in DOMAIN jobs : Heads = {h} /\ jobs[h].status # "completed"

\* A scan that is done leaves a successor, unless its policy is over.
RunKnows(t) ==
  /\ t \in RunSet
  /\ t.job \in {0} \union DOMAIN jobs
  /\ t.phase \notin {"top", "claiming"} => t.job \in DOMAIN jobs
  /\ t.phase = "locked" =>
       /\ InForce(jobs[t.job].version)
       /\ t.at <= now /\ t.cutoff = t.at - policy.days
  /\ t.phase = "done" => ~InForce(jobs[t.job].version) \/ Successors(t.job) # {}

ScanInv ==
  /\ DataTypes /\ OneHead
  /\ run \in [Workers -> RunSet] /\ \A w \in Workers : RunKnows(run[w])

LEMMA ScanInitInv ==
  ASSUME Init
  PROVE  ScanInv
  <1>1. DataTypes
    BY FS_EmptySet DEF Init, DataTypes
  <1>2. OneHead
    BY DEF Init, OneHead
  <1>3. run \in [Workers -> RunSet] /\ \A w \in Workers : RunKnows(run[w])
    BY DEF Init, Idle, RunSet, RunKnows
  <1>. QED
    BY <1>1, <1>2, <1>3 DEF ScanInv

\* Workers move on: what each knows is so, as far as jobs and policy stay.
LEMMA RunMoves ==
  ASSUME ScanInv, UNCHANGED <<setting, policy, jobs>>,
         now' \in Nat, now <= now',
         redacted' \subseteq processed', processed' \subseteq Events, IsFiniteSet(processed'),
         held' \in [Events -> {"never", "held", "released"}],
         run' \in [Workers -> RunSet],
         \A w \in Workers : run'[w] = run[w] \/ RunKnows(run'[w])
  PROVE  ScanInv'
  <1>1. DataTypes' /\ OneHead'
    BY DEF ScanInv, DataTypes, OneHead, Heads, Chain, Successors
  <1>2. ASSUME NEW w \in Workers
        PROVE  RunKnows(run[w])'
    <2>1. RunKnows(run'[w])
      BY DEF ScanInv
    <2>2. run'[w].at <= now => run'[w].at <= now'
      BY <2>1 DEF ScanInv, DataTypes, RunKnows, RunSet
    <2>. QED
      BY <2>1, <2>2 DEF RunKnows, InForce, Successors
  <1>. QED
    BY <1>1, <1>2 DEF ScanInv

\* One job changes in other fields than those that make up the chain, and workers move on.
LEMMA OneJobMoves ==
  ASSUME ScanInv, UNCHANGED <<setting, now, policy, processed, held, redacted>>,
         NEW j \in DOMAIN jobs, NEW job \in JobSet,
         job.version = jobs[j].version, job.of = jobs[j].of,
         jobs' = [jobs EXCEPT ![j] = job],
         job.status = "completed" =>
           jobs[j].status = "completed" \/ ~InForce(job.version) \/ Successors(j) # {},
         run' \in [Workers -> RunSet],
         \A w \in Workers : run'[w] = run[w] \/ RunKnows(run'[w])
  PROVE  ScanInv'
  <1>1. jobs \in Seq(JobSet) /\ j \in 1..Len(jobs) /\ DOMAIN jobs = 1..Len(jobs)
    BY DEF ScanInv, DataTypes
  <1>2. /\ jobs' \in Seq(JobSet) /\ Len(jobs') = Len(jobs) /\ DOMAIN jobs' = DOMAIN jobs
        /\ \A k \in DOMAIN jobs : jobs'[k] = IF k = j THEN job ELSE jobs[k]
    BY <1>1, ExceptSeq
  <1>3. \A k \in DOMAIN jobs : jobs'[k].version = jobs[k].version /\ jobs'[k].of = jobs[k].of
    BY <1>2
  <1>4. \A k : Successors(k)' = {i \in DOMAIN jobs' : jobs'[i].of = k}
    BY DEF Successors
  <1>5. Successors(j)' = Successors(j) /\ \A k \in DOMAIN jobs : {i \in DOMAIN jobs' : jobs'[i].of = k} = Successors(k)
    BY <1>2, <1>3 DEF Successors
  <1>6. Heads' = Heads
    BY <1>2, <1>3, <1>5 DEF Heads, Chain, Successors
  <1>7. DataTypes'
    BY <1>2, <1>3 DEF ScanInv, DataTypes
  <1>8. OneHead'
    <2> SUFFICES ASSUME policy.days # None
                 PROVE  \E h \in DOMAIN jobs' : Heads' = {h} /\ jobs'[h].status # "completed"
      BY DEF OneHead
    <2>1. PICK h \in DOMAIN jobs : Heads = {h} /\ jobs[h].status # "completed"
      BY DEF ScanInv, OneHead
    <2>2. jobs'[h].status # "completed"
      <3>1. InForce(jobs[h].version) /\ Successors(h) = {}
        BY <2>1 DEF Heads, Chain, InForce
      <3>. QED
        BY <1>2, <2>1, <3>1
    <2>. QED
      BY <1>2, <1>6, <2>1, <2>2
  <1>9. ASSUME NEW w \in Workers
        PROVE  RunKnows(run[w])'
    <2>1. RunKnows(run'[w])
      BY DEF ScanInv
    <2>. QED
      BY <1>2, <1>3, <1>5, <2>1 DEF RunKnows, InForce, Successors
  <1>. QED
    BY <1>7, <1>8, <1>9 DEF ScanInv

\* A job is queued, after another one or as the first.
LEMMA Queued ==
  ASSUME DataTypes, NEW job \in JobSet, job.of \in {0} \union DOMAIN jobs,
         jobs' = Append(jobs, job), NEW k, k = Len(jobs) + 1
  PROVE  /\ jobs' \in Seq(JobSet) /\ DOMAIN jobs' = DOMAIN jobs \union {k} /\ k \notin DOMAIN jobs
         /\ k # 0 /\ jobs'[k] = job /\ \A i \in DOMAIN jobs : jobs'[i] = jobs[i]
         /\ \A i \in DOMAIN jobs' : jobs'[i].of < i
         /\ {l \in DOMAIN jobs' : jobs'[l].of = k} = {}
         /\ \A i \in DOMAIN jobs : {l \in DOMAIN jobs' : jobs'[l].of = i} =
                                  Successors(i) \union (IF job.of = i THEN {k} ELSE {})
  <1>1. /\ jobs \in Seq(JobSet) /\ DOMAIN jobs = 1..Len(jobs) /\ Len(jobs) \in Nat
        /\ \A i \in DOMAIN jobs : jobs[i].of < i /\ jobs[i].of \in Nat
    <2>1. /\ jobs \in Seq(JobSet) /\ DOMAIN jobs = 1..Len(jobs) /\ Len(jobs) \in Nat
          /\ \A i \in DOMAIN jobs : jobs[i].of < i
      BY DEF DataTypes
    <2>2. \A i \in DOMAIN jobs : jobs[i] \in JobSet
      BY <2>1
    <2>. QED
      BY <2>1, <2>2 DEF JobSet
  <1>2. /\ jobs' \in Seq(JobSet) /\ Len(jobs') = k /\ jobs'[k] = job
        /\ \A i \in DOMAIN jobs : jobs'[i] = jobs[i]
    BY <1>1, AppendProperties
  <1>3. DOMAIN jobs' = DOMAIN jobs \union {k} /\ k \notin DOMAIN jobs /\ k \in Nat /\ k # 0
    <2>1. DOMAIN jobs' = 1..k
      BY <1>2
    <2>. QED
      BY <1>1, <2>1
  <1>4. job.of \in Nat /\ job.of < k
    BY <1>1
  <1>5. \A i \in DOMAIN jobs : i \in Nat /\ i < k
    BY <1>1
  <1>6. \A i \in DOMAIN jobs' : jobs'[i].of < i
    BY <1>1, <1>2, <1>3, <1>4
  <1>7. {l \in DOMAIN jobs' : jobs'[l].of = k} = {}
    <2>1. \A l \in DOMAIN jobs : jobs'[l].of # k
      <3> SUFFICES ASSUME NEW l \in DOMAIN jobs PROVE jobs[l].of # k
        BY <1>2
      <3>1. l \in Nat /\ l < k /\ jobs[l].of < l /\ jobs[l].of \in Nat
        BY <1>1, <1>5
      <3>. QED
        BY <1>3, <3>1
    <2>2. jobs'[k].of # k
      BY <1>2, <1>3, <1>4
    <2>. QED
      BY <1>3, <2>1, <2>2
  <1>8. ASSUME NEW i \in DOMAIN jobs
        PROVE  {l \in DOMAIN jobs' : jobs'[l].of = i} =
                 Successors(i) \union (IF job.of = i THEN {k} ELSE {})
    BY <1>2, <1>3 DEF Successors
  <1>. QED
    BY <1>2, <1>3, <1>6, <1>7, <1>8

\* The chain of a new policy is its first scan, which nobody has claimed yet.
LEMMA UpdatePolicyInv ==
  ASSUME ScanInv, NEW r \in Requests, r \in DOMAIN setting.days, UpdatePolicy(r)
  PROVE  ScanInv'
  <1> DEFINE version == policy.version + 1
             days == setting.days[r]
             first == Job(version, now, 0)
             k == Len(jobs) + 1
  <1>1. DataTypes /\ OneHead /\ \A w \in Workers : RunKnows(run[w]) /\ run[w].phase # "locked"
    BY RetentionAssumption DEF ScanInv, UpdatePolicy, Free, Holders
  <1>2. /\ policy' = [version |-> version, days |-> days]
        /\ UNCHANGED <<setting, now, processed, held, redacted, run>>
        /\ jobs' = IF days = None THEN jobs ELSE Append(jobs, first)
    BY DEF UpdatePolicy
  <1>3. /\ policy.version \in Nat /\ version \in Nat /\ days \in Nat \union {None} /\ now \in Nat
        /\ policy'.version = version /\ policy'.days = days
    BY <1>1, <1>2, RetentionAssumption DEF DataTypes
  <1>4. first \in JobSet /\ first.version = version /\ first.of = 0 /\ first.status = "pending"
    BY <1>3 DEF JobSet, Job
  <1>5. \A j \in DOMAIN jobs : /\ jobs[j].version \in 1..policy.version /\ jobs[j].version \in 1..version
                              /\ jobs[j].version # version
    BY <1>1, <1>3 DEF DataTypes
  <1>6. CASE days = None
    <2>1. jobs' = jobs
      BY <1>2, <1>6
    <2>2. DataTypes'
      <3> HIDE DEF version, days
      <3>. QED BY <1>1, <1>2, <1>3, <1>5, <2>1 DEF DataTypes
    <2>3. OneHead'
      BY <1>3, <1>6 DEF OneHead
    <2>4. \A w \in Workers : RunKnows(run[w])'
      BY <1>1, <1>2, <1>3, <1>6, <2>1 DEF RunKnows, InForce, Successors
    <2>. QED
      BY <1>2, <2>2, <2>3, <2>4 DEF ScanInv
  <1>7. CASE days # None
    <2>1. /\ jobs' \in Seq(JobSet) /\ DOMAIN jobs' = DOMAIN jobs \union {k} /\ k \notin DOMAIN jobs
          /\ jobs'[k] = first /\ \A i \in DOMAIN jobs : jobs'[i] = jobs[i]
          /\ \A i \in DOMAIN jobs' : jobs'[i].of < i
          /\ {l \in DOMAIN jobs' : jobs'[l].of = k} = {}
      <3> HIDE DEF first
      <3>. QED BY <1>1, <1>2, <1>4, <1>7, Queued
    <2>2. \A i \in DOMAIN jobs' : jobs'[i].version \in 1..version
      <3> HIDE DEF first, k
      <3>1. version \in 1..version
        BY <1>3
      <3>. QED
        <4> HIDE DEF version
        <4>. QED BY <1>4, <1>5, <2>1, <3>1
    <2>3. DataTypes'
      <3> HIDE DEF version, days
      <3>. QED BY <1>1, <1>2, <1>3, <2>1, <2>2 DEF DataTypes
    <2>4. Chain' = {k}
      <3> HIDE DEF first, k, version, days
      <3>. QED BY <1>3, <1>4, <1>5, <2>1 DEF Chain
    <2>5. Heads' = {k} /\ k \in DOMAIN jobs' /\ jobs'[k].status # "completed"
      <3> HIDE DEF first, k, version, days
      <3>. QED BY <1>4, <2>1, <2>4 DEF Heads, Successors
    <2>6. OneHead'
      BY <2>5 DEF OneHead
    <2>7. ASSUME NEW w \in Workers
          PROVE  RunKnows(run[w])'
      <3>1. RunKnows(run[w]) /\ run'[w] = run[w] /\ run[w].phase # "locked"
        BY <1>1, <1>2
      <3>2. \A j \in DOMAIN jobs : jobs'[j].version # policy'.version
        BY <1>3, <1>5, <2>1
      <3>. QED
        <4> HIDE DEF first, k, version, days
        <4>. QED BY <2>1, <3>1, <3>2 DEF RunKnows, InForce
    <2>. QED
      BY <1>2, <2>3, <2>6, <2>7 DEF ScanInv
  <1>. QED
    BY <1>6, <1>7

\* The end of the chain moves on to the scan that is queued.
LEMMA EnforceInv ==
  ASSUME ScanInv, NEW w \in Workers, Enforce(w)
  PROVE  ScanInv'
  <1> DEFINE t == run[w]
             j == t.job
             next == Job(jobs[j].version, NextDue(w), j)
             k == Len(jobs) + 1
  <1>1. /\ DataTypes /\ OneHead /\ RunKnows(t) /\ t.phase = "locked"
        /\ \A v \in Workers : RunKnows(run[v])
    BY DEF ScanInv, Enforce
  <1>2. /\ UNCHANGED <<setting, now, policy, processed, held>>
        /\ redacted' = redacted \union Batch(t.cutoff) /\ jobs' = Scheduled(w)
        /\ \E phase \in {"done", "failed"} : run' = [run EXCEPT ![w].phase = phase]
    BY DEF Enforce, At
  <1>3. /\ j \in DOMAIN jobs /\ InForce(jobs[j].version) /\ t \in RunSet
        /\ \A i \in DOMAIN jobs : jobs[i] \in JobSet /\ jobs[i].version \in 1..policy.version
    BY <1>1 DEF DataTypes, RunKnows
  <1>4. /\ next \in JobSet /\ next.version = jobs[j].version /\ next.of = j
        /\ next.status = "pending"
    <2>1. NextDue(w) \in Nat
      BY <1>3 DEF NextDue, RunSet
    <2>2. jobs[j].version \in Nat /\ j \in Nat
      BY <1>3 DEF RunSet, JobSet
    <2>. QED
      BY <2>1, <2>2 DEF Job, JobSet
  <1>5. redacted' \subseteq processed
    BY <1>1, <1>2, BatchIsEligible DEF DataTypes, Eligible
  <1>6. run' \in [Workers -> RunSet] /\ run'[w].phase \in {"done", "failed"} /\ run'[w].job = j
        /\ \A v \in Workers \ {w} : run'[v] = run[v]
    <2>1. \A phase \in {"done", "failed"} :
            LET q == [t EXCEPT !.phase = phase]
            IN q \in RunSet /\ q.phase = phase /\ q.job = j
      BY <1>3 DEF RunSet
    <2>. QED
      <3> HIDE DEF j
      <3>. QED BY <1>2, <2>1 DEF ScanInv
  <1>7. CASE Successors(j) # {}
    <2>1. jobs' = jobs
      BY <1>2, <1>7 DEF Scheduled
    <2>2. DataTypes' /\ OneHead'
      BY <1>1, <1>2, <1>5, <2>1 DEF DataTypes, OneHead, Heads, Chain, Successors
    <2>3. ASSUME NEW v \in Workers
          PROVE  RunKnows(run[v])'
      <3>1. RunKnows(run'[v])
        <4> HIDE DEF j
        <4>. QED BY <1>1, <1>3, <1>6, <1>7 DEF RunKnows
      <3>. QED
        BY <1>2, <2>1, <3>1 DEF RunKnows, InForce, Successors
    <2>. QED
      BY <1>6, <2>2, <2>3 DEF ScanInv
  <1>8. CASE Successors(j) = {}
    <2>1. /\ jobs' \in Seq(JobSet) /\ DOMAIN jobs' = DOMAIN jobs \union {k} /\ k \notin DOMAIN jobs
          /\ jobs'[k] = next /\ \A i \in DOMAIN jobs : jobs'[i] = jobs[i]
          /\ \A i \in DOMAIN jobs' : jobs'[i].of < i
          /\ {l \in DOMAIN jobs' : jobs'[l].of = k} = {}
          /\ \A i \in DOMAIN jobs : {l \in DOMAIN jobs' : jobs'[l].of = i} =
                                   Successors(i) \union (IF j = i THEN {k} ELSE {})
      <3>1. jobs' = Append(jobs, next)
        BY <1>2, <1>8 DEF Scheduled
      <3>. QED
        <4> HIDE DEF next, j
        <4>. QED BY <1>1, <1>3, <1>4, <3>1, Queued
    <2> HIDE DEF k, next
    <2>2. DataTypes'
      BY <1>1, <1>2, <1>3, <1>4, <1>5, <2>1 DEF DataTypes
    <2>3. Heads = {j}
      BY <1>1, <1>3, <1>8 DEF OneHead, Heads, Chain, InForce
    <2>4. Chain' = Chain \union {k}
      BY <1>2, <1>3, <1>4, <2>1 DEF Chain, InForce
    <2>5. Heads' = {i \in Chain \union {k} : {l \in DOMAIN jobs' : jobs'[l].of = i} = {}}
      BY <2>4 DEF Heads, Successors
    <2>6. \A i \in Chain : i \in DOMAIN jobs /\ (i # j => Successors(i) # {})
      BY <2>3 DEF Heads, Chain
    <2>7. Heads' = {k}
      <3> HIDE DEF j
      <3>. QED BY <1>3, <2>1, <2>5, <2>6
    <2>8. OneHead'
      BY <1>4, <2>1, <2>7 DEF OneHead
    <2>9. ASSUME NEW v \in Workers
          PROVE  RunKnows(run[v])'
      <3>1. {l \in DOMAIN jobs' : jobs'[l].of = j} # {}
        <4>1. {l \in DOMAIN jobs' : jobs'[l].of = j} = Successors(j) \union {k}
          <5> HIDE DEF j
          <5>. QED BY <1>3, <2>1
        <4>. QED
          BY <4>1
      <3>2. CASE v # w
        <4>1. RunKnows(run[v]) /\ run'[v] = run[v]
          BY <1>1, <1>6, <3>2
        <4>2. \A i \in DOMAIN jobs : Successors(i) # {} => {l \in DOMAIN jobs' : jobs'[l].of = i} # {}
          BY <2>1
        <4>3. \A i \in DOMAIN jobs : i \in DOMAIN jobs' /\ jobs'[i] = jobs[i]
          BY <2>1
        <4>. QED
          BY <1>2, <4>1, <4>2, <4>3 DEF RunKnows, InForce, Successors
      <3>3. CASE v = w
        <4> HIDE DEF j
        <4>1. j \in DOMAIN jobs'
          BY <1>3, <2>1
        <4>. QED
          BY <1>6, <3>1, <3>3, <4>1 DEF RunKnows, Successors
      <3>. QED
        BY <3>2, <3>3
    <2>. QED
      BY <1>6, <2>2, <2>8, <2>9 DEF ScanInv
  <1>. QED
    BY <1>7, <1>8

-----------------------------------------------------------------------------
(* The other steps of the workers *)

\* A worker takes a position that it knows to be right, and nothing else changes.
LEMMA RunsOn ==
  ASSUME ScanInv, UNCHANGED <<setting, now, data>>, NEW w \in Workers, NEW t,
         RunKnows(t), run' = [run EXCEPT ![w] = t]
  PROVE  ScanInv'
  <1>1. run' \in [Workers -> RunSet] /\ \A v \in Workers : run'[v] = run[v] \/ RunKnows(run'[v])
    BY DEF ScanInv, RunKnows
  <1>2. /\ now' \in Nat /\ now <= now' /\ redacted' \subseteq processed' /\ processed' \subseteq Events
        /\ IsFiniteSet(processed') /\ held' \in [Events -> {"never", "held", "released"}]
        /\ UNCHANGED <<setting, policy, jobs>>
    BY DEF ScanInv, DataTypes, data
  <1>. QED
    BY <1>1, <1>2, RunMoves

LEMMA IdleKnows == RunKnows(Idle)
  BY DEF Idle, RunKnows, RunSet

\* A position without the lock or a result is right as far as its job is there.
LEMMA PhaseKnows ==
  ASSUME ScanInv, NEW w \in Workers,
         NEW phase \in {"top", "claiming", "claimed", "failed"},
         phase \in {"claimed", "failed"} => run[w].phase \notin {"top", "claiming"}
  PROVE  RunKnows([run[w] EXCEPT !.phase = phase])
  <1>1. RunKnows(run[w])
    BY DEF ScanInv
  <1> DEFINE t == [run[w] EXCEPT !.phase = phase]
  <1>2. t \in RunSet /\ t.phase = phase /\ t.job = run[w].job
    BY <1>1 DEF RunKnows, RunSet
  <1> HIDE DEF t
  <1>3. RunKnows(t)
    BY <1>1, <1>2 DEF RunKnows
  <1>. QED
    BY <1>3 DEF t

LEMMA PhaseInv ==
  ASSUME ScanInv, NEW w \in Workers, UNCHANGED <<setting, now, data>>,
         NEW phase \in {"top", "claiming", "claimed", "failed"}, At(w, phase),
         phase \in {"claimed", "failed"} => run[w].phase \notin {"top", "claiming"}
  PROVE  ScanInv'
  <1> DEFINE t == [run[w] EXCEPT !.phase = phase]
  <1>1. RunKnows(t)
    BY PhaseKnows
  <1>2. run' = [run EXCEPT ![w] = t]
    BY DEF At
  <1> HIDE DEF t
  <1>. QED
    BY <1>1, <1>2, RunsOn

LEMMA PollInv ==
  ASSUME ScanInv, NEW w \in Workers, Poll(w)
  PROVE  ScanInv'
  BY PhaseInv DEF Poll

LEMMA InterruptInv ==
  ASSUME ScanInv, NEW w \in Workers, Interrupt(w) \/ Break(w)
  PROVE  ScanInv'
  BY PhaseInv DEF Interrupt, Break

LEMMA SettleThrowsInv ==
  ASSUME ScanInv, NEW w \in Workers, SettleThrows(w)
  PROVE  ScanInv'
  BY RunsOn, IdleKnows DEF SettleThrows

LEMMA ClaimInv ==
  ASSUME ScanInv, NEW w \in Workers, Claim(w)
  PROVE  ScanInv'
  <1>1. CASE UNCHANGED jobs /\ At(w, "top")
    BY <1>1, PhaseInv DEF Claim, data
  <1>2. ASSUME NEW j \in DOMAIN jobs,
               jobs' = [jobs EXCEPT ![j].status = "processing", ![j].attempts = @ + 1,
                                    ![j].owner = w, ![j].lapsed = FALSE],
               run' = [run EXCEPT ![w].phase = "claimed", ![w].job = j]
        PROVE  ScanInv'
    <2> DEFINE job == [jobs[j] EXCEPT !.status = "processing", !.attempts = @ + 1,
                                      !.owner = w, !.lapsed = FALSE]
               t == [run[w] EXCEPT !.phase = "claimed", !.job = j]
    <2>1. jobs \in Seq(JobSet) /\ jobs[j] \in JobSet /\ j \in Nat
      BY DEF ScanInv, DataTypes
    <2>2. /\ job \in JobSet /\ job.version = jobs[j].version /\ job.of = jobs[j].of
          /\ job.status = "processing"
      <3>1. \A x \in JobSet : \A n \in Nat :
              LET y == [x EXCEPT !.status = "processing", !.attempts = n]
              IN /\ y \in JobSet /\ y.status = "processing"
                 /\ y.version = x.version /\ y.of = x.of
        BY DEF JobSet
      <3>2. jobs[j].attempts + 1 \in Nat
        BY <2>1 DEF JobSet
      <3>3. \A x \in JobSet : LET y == [x EXCEPT !.owner = w, !.lapsed = FALSE]
                             IN /\ y \in JobSet /\ y.status = x.status
                                /\ y.version = x.version /\ y.of = x.of
        BY DEF JobSet
      <3> DEFINE a == [jobs[j] EXCEPT !.status = "processing", !.attempts = jobs[j].attempts + 1]
      <3>4. /\ a \in JobSet /\ a.status = "processing"
            /\ a.version = jobs[j].version /\ a.of = jobs[j].of
        BY <2>1, <3>1, <3>2
      <3>5. job = [a EXCEPT !.owner = w, !.lapsed = FALSE]
        OBVIOUS
      <3> HIDE DEF a, job
      <3>. QED
        BY <3>3, <3>4, <3>5
    <2>3. jobs' = [jobs EXCEPT ![j] = job]
      BY <1>2
    <2>4. run[w] \in RunSet /\ t \in RunSet /\ t.phase = "claimed" /\ t.job = j
      BY <2>1 DEF ScanInv, RunSet
    <2>5. run' = [run EXCEPT ![w] = t]
      BY <1>2
    <2> HIDE DEF job, t
    <2>6. RunKnows(t)
      BY <2>4 DEF RunKnows
    <2>7. run' \in [Workers -> RunSet] /\ \A v \in Workers : run'[v] = run[v] \/ RunKnows(run'[v])
      BY <2>4, <2>5, <2>6 DEF ScanInv
    <2>8. UNCHANGED <<setting, now, policy, processed, held, redacted>>
      BY DEF Claim
    <2>. QED
      BY <2>2, <2>3, <2>7, <2>8, OneJobMoves
  <1>. QED
    BY <1>1, <1>2 DEF Claim

LEMMA LookAtPolicyInv ==
  ASSUME ScanInv, NEW w \in Workers, LookAtPolicy(w)
  PROVE  ScanInv'
  <1>1. RunKnows(run[w]) /\ run[w] \in RunSet /\ now \in Nat /\ run[w].job \in DOMAIN jobs
        /\ policy.days \in Nat \union {None} /\ UNCHANGED <<setting, now, data>>
    BY DEF ScanInv, DataTypes, RunKnows, LookAtPolicy
  <1>2. CASE InForce(jobs[run[w].job].version)
    <2> DEFINE t == [run[w] EXCEPT !.phase = "locked", !.at = now, !.cutoff = now - policy.days]
    <2>1. run' = [run EXCEPT ![w] = t]
      BY <1>2 DEF LookAtPolicy
    <2>2. policy.days \in Nat /\ now - policy.days \in Int
      BY <1>1, <1>2 DEF InForce
    <2>3. /\ t \in RunSet /\ t.phase = "locked" /\ t.job = run[w].job /\ t.at = now
          /\ t.cutoff = now - policy.days
      BY <1>1, <2>2 DEF RunSet
    <2> HIDE DEF t
    <2>4. RunKnows(t)
      BY <1>1, <1>2, <2>3 DEF RunKnows
    <2>. QED
      BY <1>1, <2>1, <2>4, RunsOn
  <1>3. CASE ~InForce(jobs[run[w].job].version)
    <2> DEFINE t == [run[w] EXCEPT !.phase = "done"]
    <2>1. run' = [run EXCEPT ![w] = t]
      BY <1>3 DEF LookAtPolicy, At
    <2>2. t \in RunSet /\ t.phase = "done" /\ t.job = run[w].job
      BY <1>1 DEF RunSet
    <2> HIDE DEF t
    <2>3. RunKnows(t)
      BY <1>1, <1>3, <2>2 DEF RunKnows
    <2>. QED
      BY <1>1, <2>1, <2>3, RunsOn
  <1>. QED
    BY <1>2, <1>3

\* Only a scan that is done completes its job.
LEMMA SettleInv ==
  ASSUME ScanInv, NEW w \in Workers, Settle(w)
  PROVE  ScanInv'
  <1> DEFINE j == run[w].job
             job == [jobs[j] EXCEPT !.status = Outcome(w), !.owner = None,
                                    !.due = IF Outcome(w) = "pending" THEN now ELSE @]
  <1>1. RunKnows(run[w]) /\ run[w].phase \in {"done", "failed"} /\ j \in DOMAIN jobs
        /\ jobs[j] \in JobSet /\ now \in Nat
    <2>1. RunKnows(run[w]) /\ run[w].phase \in {"done", "failed"}
      BY DEF ScanInv, Settle
    <2>2. run[w].job \in DOMAIN jobs
      BY <2>1 DEF RunKnows
    <2>. QED
      BY <2>1, <2>2 DEF ScanInv, DataTypes
  <1>2. /\ run' = [run EXCEPT ![w] = Idle]
        /\ UNCHANGED <<setting, now, policy, processed, held, redacted>>
    BY DEF Settle
  <1>3. CASE jobs' = jobs
    BY <1>2, <1>3, RunsOn, IdleKnows DEF data
  <1>4. CASE Holds(w, j)
    <2>1. jobs' = [jobs EXCEPT ![j] = job]
      BY <1>4 DEF Settle
    <2>2. Outcome(w) \in {"completed", "pending", "failed"}
      BY DEF Outcome
    <2>3. /\ job \in JobSet /\ job.version = jobs[j].version /\ job.of = jobs[j].of
          /\ job.status = Outcome(w)
      <3> HIDE DEF j
      <3>. QED BY <1>1, <2>2 DEF JobSet
    <2>4. Outcome(w) = "completed" => ~InForce(jobs[j].version) \/ Successors(j) # {}
      BY <1>1 DEF Outcome, RunKnows
    <2>5. run' \in [Workers -> RunSet] /\ \A v \in Workers : run'[v] = run[v] \/ RunKnows(run'[v])
      BY <1>2, IdleKnows DEF ScanInv, RunKnows
    <2> HIDE DEF j, job
    <2>. QED
      BY <1>1, <1>2, <2>1, <2>3, <2>4, <2>5, OneJobMoves
  <1>. QED
    BY <1>3, <1>4 DEF Settle

LEMMA WorkInv ==
  ASSUME ScanInv, NEW w \in Workers, Work(w) \/ Break(w) \/ SettleThrows(w)
  PROVE  ScanInv'
  BY PollInv, ClaimInv, SettleInv, LookAtPolicyInv, EnforceInv, InterruptInv, SettleThrowsInv DEF Work

\* Leases, other transactions and the clock leave the chain as it is.
LEMMA LapseInv ==
  ASSUME ScanInv, NEW j \in DOMAIN jobs, Lapse(j)
  PROVE  ScanInv'
  <1> DEFINE job == [jobs[j] EXCEPT !.lapsed = TRUE]
  <1>1. jobs[j] \in JobSet
    BY DEF ScanInv, DataTypes
  <1>2. /\ job \in JobSet /\ job.version = jobs[j].version /\ job.of = jobs[j].of
        /\ job.status = jobs[j].status
    BY <1>1 DEF JobSet
  <1>3. jobs' = [jobs EXCEPT ![j] = job] /\ UNCHANGED <<setting, now, policy, processed, held, redacted>>
        /\ run' = run
    BY DEF Lapse, work
  <1>4. jobs[j].status # "processing" => job.status # "completed" \/ jobs[j].status = "completed"
    BY <1>2
  <1> HIDE DEF job
  <1>. QED
    BY <1>2, <1>3, OneJobMoves DEF ScanInv

LEMMA TimeInv ==
  ASSUME ScanInv, Tick \/ \E e \in Events : Process(e) \/ Hold(e)
  PROVE  ScanInv'
  <1>1. /\ run' = run /\ UNCHANGED <<setting, policy, jobs>>
        /\ now \in Nat /\ redacted \subseteq processed /\ processed \subseteq Events
        /\ IsFiniteSet(processed) /\ held \in [Events -> {"never", "held", "released"}]
        /\ run' \in [Workers -> RunSet] /\ \A w \in Workers : run'[w] = run[w]
    BY DEF ScanInv, DataTypes, Tick, Process, Hold, data, work
  <1>2. CASE Tick
    <2>1. now' \in Nat /\ now <= now' /\ UNCHANGED <<processed, redacted, held>>
      BY <1>1, <1>2 DEF Tick, data
    <2>. QED
      BY <1>1, <2>1, RunMoves
  <1>3. ASSUME NEW e \in Events, Process(e)
        PROVE  ScanInv'
    <2>1. now' = now /\ processed' = processed \union {e} /\ UNCHANGED <<redacted, held>>
      BY <1>3 DEF Process
    <2>2. IsFiniteSet(processed')
      BY <1>1, <2>1, FS_AddElement
    <2>. QED
      BY <1>1, <2>1, <2>2, RunMoves
  <1>4. ASSUME NEW e \in Events, Hold(e)
        PROVE  ScanInv'
    <2>1. now' = now /\ UNCHANGED <<processed, redacted>>
          /\ held' \in [Events -> {"never", "held", "released"}]
      BY <1>1, <1>4 DEF Hold
    <2>. QED
      BY <1>1, <2>1, RunMoves
  <1>. QED
    BY <1>2, <1>3, <1>4

\* A process that comes or goes leaves data as it is, and its transactions behind.
LEMMA ProcessInv ==
  ASSUME ScanInv, NEW p \in Processes, Begin(p) \/ Signal(p) \/ Stop(p) \/ Close(p)
  PROVE  ScanInv'
  <1>1. UNCHANGED <<setting, now, data>>
    BY DEF Begin, Signal, Stop, Close
  <1>2. run \in [Workers -> RunSet] /\ Idle \in RunSet
    BY IdleKnows DEF ScanInv, RunKnows
  <1>3. run' = run \/ run' = [w \in Workers |-> IF w = p THEN Idle ELSE run[w]]
    BY DEF Begin, Signal, Stop, Close, Cut, work
  <1>4. run' \in [Workers -> RunSet] /\ \A w \in Workers : run'[w] = run[w] \/ RunKnows(run'[w])
    BY <1>2, <1>3, IdleKnows
  <1>5. /\ now' \in Nat /\ now <= now' /\ redacted' \subseteq processed' /\ processed' \subseteq Events
        /\ IsFiniteSet(processed') /\ held' \in [Events -> {"never", "held", "released"}]
        /\ UNCHANGED <<setting, policy, jobs>>
    BY <1>1 DEF ScanInv, DataTypes, data
  <1>. QED
    BY <1>4, <1>5, RunMoves

LEMMA RequestInv ==
  ASSUME ScanInv, NEW r \in Requests, Receive(r) \/ LockPolicy(r)
  PROVE  ScanInv'
  <1>1. UNCHANGED <<setting, now, data, run>>
    BY DEF Receive, LockPolicy
  <1>2. /\ now' \in Nat /\ now <= now' /\ redacted' \subseteq processed' /\ processed' \subseteq Events
        /\ IsFiniteSet(processed') /\ held' \in [Events -> {"never", "held", "released"}]
        /\ UNCHANGED <<setting, policy, jobs>> /\ run' \in [Workers -> RunSet]
        /\ \A w \in Workers : run'[w] = run[w]
    BY <1>1 DEF ScanInv, DataTypes, data
  <1>. QED
    BY <1>2, RunMoves

-----------------------------------------------------------------------------
(* The life of a server and its requests *)

RequestTypes ==
  [step : {"idle", "received", "locked", "answered", "lost"},
   server : Servers \union {None}, saw : Nat]

\* A request that has begun has a server.
Asked(r) ==
  request[r].step # "idle" => r \in DOMAIN setting.days /\ request[r].server \in Servers

\* As far as its server has come: none has served, none is lost, or all are answered.
Attended(s, r) ==
  request[r].server = s =>
    /\ stage[s] \notin {"off", "starting"} /\ request[r].step # "idle"
    /\ stage[s] \in {"open", "stopping", "closing"} => request[r].step # "lost"
    /\ stage[s] \in {"closing", "exited"} /\ errors[s] = {} => request[r].step = "answered"

LifeInv ==
  /\ RuntimeTypeOK
  /\ request \in [Requests -> RequestTypes]
  /\ \A r \in Requests : Asked(r)
  /\ \A s \in Servers : \A r \in Requests : Attended(s, r)

LEMMA LifeInitInv ==
  ASSUME Init
  PROVE  LifeInv
  <1>1. RuntimeTypeOK
    BY RetentionAssumption DEF Init, RuntimeInit, RuntimeTypeOK, Stages
  <1>2. request \in [Requests -> RequestTypes] /\ \A r \in Requests : Asked(r)
    BY DEF Init, RequestTypes, Asked
  <1>3. \A s \in Servers : \A r \in Requests : Attended(s, r)
    BY RetentionAssumption DEF Init, Attended, Processes
  <1>. QED
    BY <1>1, <1>2, <1>3 DEF LifeInv

\* Steps in which the processes live on and one request is served.
LEMMA OneRequestMoves ==
  ASSUME LifeInv, UNCHANGED <<runtimeVars, setting>>, NEW r \in Requests, NEW q,
         q \in RequestTypes, request' = [request EXCEPT ![r] = q],
         r \in DOMAIN setting.days, q.server \in Servers, q.step # "idle",
         \/ stage[q.server] = "open" /\ q.step = "received"
         \/ /\ request[r].step \in {"received", "locked"} /\ q.server = request[r].server
            /\ q.step \in {"locked", "answered"}
  PROVE  LifeInv'
  <1>1. RuntimeTypeOK' /\ UNCHANGED <<stage, errors>>
    BY DEF LifeInv, RuntimeTypeOK, runtimeVars
  <1>2. /\ request' \in [Requests -> RequestTypes]
        /\ \A o \in Requests : request'[o] = IF o = r THEN q ELSE request[o]
    BY DEF LifeInv
  <1>3. \A o \in Requests : Asked(o)'
    BY <1>2 DEF LifeInv, Asked
  <1>4. ASSUME NEW s \in Servers, NEW o \in Requests
        PROVE  Attended(s, o)'
    BY <1>1, <1>2 DEF LifeInv, Attended
  <1>. QED
    BY <1>1, <1>2, <1>3, <1>4 DEF LifeInv

LEMMA RequestLifeInv ==
  ASSUME LifeInv, DataTypes, NEW r \in Requests, Receive(r) \/ Serve(r)
  PROVE  LifeInv'
  <1>1. request[r] \in RequestTypes /\ Asked(r) /\ request \in [Requests -> RequestTypes]
    BY DEF LifeInv
  <1>2. CASE Receive(r)
    <2>1. PICK s \in Servers :
            /\ stage[s] = "open"
            /\ request' = [request EXCEPT ![r].step = "received", ![r].server = s]
      BY <1>2 DEF Receive
    <2> DEFINE q == [request[r] EXCEPT !.step = "received", !.server = s]
    <2>2. q \in RequestTypes /\ q.server = s /\ q.step = "received"
      BY <1>1 DEF RequestTypes
    <2>3. request' = [request EXCEPT ![r] = q]
      BY <2>1
    <2> HIDE DEF q
    <2>4. r \in DOMAIN setting.days /\ UNCHANGED <<runtimeVars, setting>>
      BY <1>2 DEF Receive
    <2>. QED
      BY <2>1, <2>2, <2>3, <2>4, OneRequestMoves
  <1>3. CASE LockPolicy(r)
    <2> DEFINE q == [request[r] EXCEPT !.step = "locked", !.saw = policy.version]
    <2>1. policy.version \in Nat
      BY DEF DataTypes
    <2>2. q \in RequestTypes /\ q.server = request[r].server /\ q.step = "locked"
      BY <1>1, <2>1 DEF RequestTypes
    <2>3. request' = [request EXCEPT ![r] = q] /\ request[r].step = "received"
          /\ UNCHANGED <<runtimeVars, setting>>
      BY <1>3 DEF LockPolicy
    <2> HIDE DEF q
    <2>. QED
      BY <1>1, <2>2, <2>3, OneRequestMoves DEF Asked
  <1>4. CASE UpdatePolicy(r)
    <2> DEFINE q == [request[r] EXCEPT !.step = "answered"]
    <2>1. q \in RequestTypes /\ q.server = request[r].server /\ q.step = "answered"
      BY <1>1 DEF RequestTypes
    <2>2. request' = [request EXCEPT ![r] = q] /\ request[r].step = "locked"
          /\ UNCHANGED <<runtimeVars, setting>>
      BY <1>4 DEF UpdatePolicy
    <2> HIDE DEF q
    <2>. QED
      BY <1>1, <2>1, <2>2, OneRequestMoves DEF Asked
  <1>. QED
    BY <1>2, <1>3, <1>4 DEF Serve

\* Steps in which one process lives on.
LEMMA OneProcessMoves ==
  ASSUME LifeInv, setting' = setting, RuntimeTypeOK', NEW p \in Processes,
         \A o \in Processes \ {p} : stage'[o] = stage[o] /\ errors'[o] = errors[o],
         request' = request \/ Cut(p),
         \A r \in Requests : p \in Servers => Attended(p, r)'
  PROVE  LifeInv'
  <1>1. request \in [Requests -> RequestTypes]
    BY DEF LifeInv
  <1>2. /\ request' \in [Requests -> RequestTypes]
        /\ \A r \in Requests :
             \/ request'[r] = request[r]
             \/ /\ r \in InFlight(p) /\ request'[r].step = "lost"
                /\ request'[r].server = request[r].server
    <2>1. CASE request' = request
      BY <1>1, <2>1
    <2>2. CASE Cut(p)
      <3>1. \A r \in Requests : LET q == [request[r] EXCEPT !.step = "lost"]
                                IN q \in RequestTypes /\ q.step = "lost" /\ q.server = request[r].server
        BY <1>1 DEF RequestTypes
      <3>. QED
        BY <1>1, <2>2, <3>1 DEF Cut
    <2>. QED
      BY <2>1, <2>2
  <1>3. \A r \in Requests : Asked(r)'
    BY <1>2 DEF LifeInv, Asked, InFlight
  <1>4. ASSUME NEW s \in Servers, NEW r \in Requests
        PROVE  Attended(s, r)'
    <2>1. CASE s = p
      BY <2>1
    <2>2. CASE s # p
      <3>1. stage'[s] = stage[s] /\ errors'[s] = errors[s] /\ Attended(s, r)
        BY <2>2 DEF Processes, LifeInv
      <3>2. request'[r] = request[r] \/ (request[r].server = p /\ request'[r].server = p)
        BY <1>2 DEF InFlight
      <3>. QED
        BY <2>2, <3>1, <3>2 DEF Attended
    <2>. QED
      BY <2>1, <2>2
  <1>. QED
    BY <1>2, <1>3, <1>4 DEF LifeInv

\* What becomes of the requests of a process that is killed or closes.
LEMMA CutLoses ==
  ASSUME LifeInv, NEW p \in Processes, Cut(p), NEW r \in Requests
  PROVE  /\ request'[r].server = request[r].server
         /\ request'[r].step = IF r \in InFlight(p) THEN "lost" ELSE request[r].step
  <1>1. request[r] \in RequestTypes
    BY DEF LifeInv
  <1>2. request'[r] = IF r \in InFlight(p) THEN [request[r] EXCEPT !.step = "lost"] ELSE request[r]
    BY DEF Cut
  <1>. QED
    BY <1>1, <1>2 DEF RequestTypes

LEMMA BeginLifeInv ==
  ASSUME LifeInv, NEW p \in Processes, Begin(p)
  PROVE  LifeInv'
  <1>1. RuntimeTypeOK /\ setting' = setting /\ request' = request
    BY DEF LifeInv, Begin, work
  <1>2. CASE Start(p)
    <2>1. RuntimeTypeOK'
      BY <1>1, <1>2 DEF Start, RuntimeTypeOK, Stages
    <2>2. stage[p] = "off" /\ \A o \in Processes \ {p} : stage'[o] = stage[o] /\ errors'[o] = errors[o]
      BY <1>1, <1>2 DEF Start, RuntimeTypeOK
    <2>3. \A r \in Requests : p \in Servers => Attended(p, r)'
      BY <1>1, <2>2 DEF LifeInv, Attended
    <2>. QED
      BY <1>1, <2>1, <2>2, <2>3, OneProcessMoves
  <1>3. CASE Listen(p) \/ StartFails(p)
    <2>1. RuntimeTypeOK'
      <3>1. CASE Listen(p)
        BY <1>1, <3>1 DEF Listen, RuntimeTypeOK, Stages
      <3>2. CASE StartFails(p)
        BY <1>1, <3>2 DEF StartFails, RuntimeTypeOK, Stages
      <3>. QED
        BY <1>3, <3>1, <3>2
    <2>2. stage[p] = "starting" /\ \A o \in Processes \ {p} : stage'[o] = stage[o] /\ errors'[o] = errors[o]
      BY <1>1, <1>3 DEF Listen, StartFails, RuntimeTypeOK
    <2>3. \A r \in Requests : p \in Servers => Attended(p, r)'
      BY <1>1, <2>2 DEF LifeInv, Attended
    <2>. QED
      BY <1>1, <2>1, <2>2, <2>3, OneProcessMoves
  <1>. QED
    BY <1>2, <1>3 DEF Begin

LEMMA SignalLifeInv ==
  ASSUME LifeInv, NEW p \in Processes, Signal(p)
  PROVE  LifeInv'
  <1>1. RuntimeTypeOK /\ setting' = setting
    BY DEF LifeInv, Signal
  <1>2. ASSUME NEW s \in Signals, Handle(p, s), UNCHANGED work
        PROVE  LifeInv'
    <2>1. RuntimeTypeOK'
      BY <1>1, <1>2 DEF Handle, RuntimeTypeOK, Stages
    <2>2. /\ request' = request /\ stage[p] \in Stages \ {"off", "exited", "killed"}
          /\ \A o \in Processes \ {p} : stage'[o] = stage[o] /\ errors'[o] = errors[o]
      BY <1>1, <1>2 DEF Handle, Alive, Gone, RuntimeTypeOK, work
    <2>3. ASSUME NEW r \in Requests, p \in Servers
          PROVE  Attended(p, r)'
      <3>1. stage'[p] = "stopping" /\ errors' = errors
        BY <1>1, <1>2, <2>3 DEF Handle, RuntimeTypeOK
      <3>2. Attended(p, r)
        BY <2>3 DEF LifeInv
      <3>. QED
        BY <2>2, <3>1, <3>2 DEF Attended, Stages
    <2>. QED
      BY <1>1, <2>1, <2>2, <2>3, OneProcessMoves
  <1>3. ASSUME Kill(p), Cut(p)
        PROVE  LifeInv'
    <2>1. RuntimeTypeOK'
      BY <1>1, <1>3 DEF Kill, RuntimeTypeOK, Stages
    <2>2. /\ stage'[p] = "killed"
          /\ \A o \in Processes \ {p} : stage'[o] = stage[o] /\ errors'[o] = errors[o]
      BY <1>1, <1>3 DEF Kill, RuntimeTypeOK
    <2>3. ASSUME NEW r \in Requests, p \in Servers
          PROVE  Attended(p, r)'
      <3>1. Attended(p, r)
        BY <2>3 DEF LifeInv
      <3>. QED
        BY <1>3, <2>2, <3>1, CutLoses DEF Attended
    <2>. QED
      BY <1>1, <1>3, <2>1, <2>2, <2>3, OneProcessMoves
  <1>. QED
    BY <1>2, <1>3 DEF Signal

\* A listener that has stopped without an error has answered its requests.
LEMMA StopLifeInv ==
  ASSUME LifeInv, NEW p \in Processes, Stop(p)
  PROVE  LifeInv'
  <1>1. RuntimeTypeOK /\ setting' = setting /\ request' = request
    BY DEF LifeInv, Stop, work
  <1>2. ASSUME NEW f \in SUBSET {"listener"}, f = {} => InFlight(p) = {}, StopListener(p, f)
        PROVE  LifeInv'
    <2>1. RuntimeTypeOK'
      BY <1>1, <1>2 DEF StopListener, RuntimeTypeOK, Stages
    <2>2. /\ stage[p] = "stopping" /\ stage'[p] = "closing" /\ errors'[p] = errors[p] \union f
          /\ \A o \in Processes \ {p} : stage'[o] = stage[o] /\ errors'[o] = errors[o]
      BY <1>1, <1>2 DEF StopListener, RuntimeTypeOK
    <2>3. ASSUME NEW r \in Requests, p \in Servers
          PROVE  Attended(p, r)'
      <3>1. Attended(p, r) /\ request[r] \in RequestTypes
        BY <2>3 DEF LifeInv
      <3>2. errors'[p] = {} => r \notin InFlight(p)
        BY <1>2, <2>2
      <3>. QED
        BY <1>1, <2>2, <3>1, <3>2 DEF Attended, InFlight, RequestTypes
    <2>. QED
      BY <1>1, <2>1, <2>2, <2>3, OneProcessMoves
  <1>3. ASSUME p \in Workers, LeaveLoop(p)
        PROVE  LifeInv'
    <2>1. RuntimeTypeOK'
      BY <1>1, <1>3 DEF LeaveLoop, RuntimeTypeOK, Stages
    <2>2. p \notin Servers
          /\ \A o \in Processes \ {p} : stage'[o] = stage[o] /\ errors'[o] = errors[o]
      BY <1>1, <1>3, RuntimeAssumption DEF LeaveLoop, RuntimeTypeOK
    <2>. QED
      BY <1>1, <2>1, <2>2, OneProcessMoves
  <1>. QED
    BY <1>2, <1>3 DEF Stop

LEMMA CloseLifeInv ==
  ASSUME LifeInv, NEW p \in Processes, Close(p)
  PROVE  LifeInv'
  <1>1. RuntimeTypeOK /\ setting' = setting /\ Cut(p)
    BY DEF LifeInv, Close
  <1>2. PICK f \in SUBSET {"close"} : CloseDatabase(p, f)
    BY DEF Close
  <1>3. RuntimeTypeOK'
    BY <1>1, <1>2 DEF CloseDatabase, RuntimeTypeOK, Stages
  <1>4. /\ stage[p] = "closing" /\ stage'[p] = "exited" /\ errors'[p] = errors[p] \union f
        /\ \A o \in Processes \ {p} : stage'[o] = stage[o] /\ errors'[o] = errors[o]
    BY <1>1, <1>2 DEF CloseDatabase, RuntimeTypeOK
  <1>5. ASSUME NEW r \in Requests, p \in Servers
        PROVE  Attended(p, r)'
    <2>1. Attended(p, r)
      BY <1>5 DEF LifeInv
    <2>2. errors'[p] = {} /\ request[r].server = p => r \notin InFlight(p)
      BY <1>4, <2>1 DEF Attended, InFlight
    <2>. QED
      BY <1>1, <1>4, <2>1, <2>2, CutLoses DEF Attended
  <1>. QED
    BY <1>1, <1>3, <1>4, <1>5, OneProcessMoves

-----------------------------------------------------------------------------
(* Theorems *)

RetentionInv == ScanInv /\ LifeInv

LEMMA RetentionNextInv ==
  ASSUME RetentionInv, [Next]_vars
  PROVE  RetentionInv'
  <1> USE DEF RetentionInv
  <1>1. ASSUME NEW p \in Processes, Begin(p) \/ Signal(p) \/ Stop(p) \/ Close(p)
        PROVE  RetentionInv'
    BY <1>1, ProcessInv, BeginLifeInv, SignalLifeInv, StopLifeInv, CloseLifeInv
  <1>2. ASSUME NEW r \in Requests, Receive(r) \/ Serve(r)
        PROVE  RetentionInv'
    <2>1. LifeInv'
      BY <1>2, RequestLifeInv DEF ScanInv
    <2>2. CASE Receive(r) \/ LockPolicy(r)
      BY <2>1, <2>2, RequestInv
    <2>3. CASE UpdatePolicy(r)
      <3>1. r \in DOMAIN setting.days
        BY <2>3 DEF UpdatePolicy, LifeInv, Asked
      <3>. QED
        BY <2>1, <2>3, <3>1, UpdatePolicyInv
    <2>. QED
      BY <1>2, <2>2, <2>3 DEF Serve
  <1>3. ASSUME UNCHANGED <<runtimeVars, setting, request>>
        PROVE  LifeInv'
    BY <1>3 DEF LifeInv, RuntimeTypeOK, Asked, Attended, runtimeVars
  <1>4. ASSUME NEW w \in Workers, Work(w) \/ Break(w) \/ SettleThrows(w)
        PROVE  RetentionInv'
    <2>1. UNCHANGED <<runtimeVars, setting, request>>
      BY <1>4 DEF Work, Poll, Claim, Settle, LookAtPolicy, Enforce, Interrupt, Break, SettleThrows
    <2>. QED
      BY <1>3, <1>4, <2>1, WorkInv
  <1>5. ASSUME NEW j \in DOMAIN jobs, Lapse(j)
        PROVE  RetentionInv'
    BY <1>3, <1>5, LapseInv DEF Lapse, work
  <1>6. ASSUME Tick \/ \E e \in Events : Process(e) \/ Hold(e)
        PROVE  RetentionInv'
    <2>1. UNCHANGED <<runtimeVars, setting, request>>
      BY <1>6 DEF Tick, Process, Hold, work
    <2>. QED
      BY <1>3, <1>6, <2>1, TimeInv
  <1>7. CASE UNCHANGED vars
    <2>1. UNCHANGED <<runtimeVars, setting, request>> /\ UNCHANGED <<setting, now, data, run>>
      BY <1>7 DEF vars, work
    <2>2. ScanInv'
      BY <2>1 DEF ScanInv, DataTypes, OneHead, Heads, Chain, Successors, RunKnows, InForce, data
    <2>. QED
      BY <1>3, <2>1, <2>2
  <1>. QED
    BY <1>1, <1>2, <1>4, <1>5, <1>6, <1>7 DEF Next

\* The inductive invariant: types, one end of the chain of scans, what each worker knows while it
\* scans, and what has become of the requests of each server.
THEOREM Invariant == Spec => []RetentionInv
  <1>1. Init => RetentionInv
    BY ScanInitInv, LifeInitInv DEF RetentionInv
  <1>2. RetentionInv /\ [Next]_vars => RetentionInv'
    BY RetentionNextInv
  <1>. QED
    BY <1>1, <1>2, PTL DEF Spec

\* Every variable keeps its type: a job follows one that was queued before it, for a version that
\* the policy has had, and an event loses its properties only after it was processed.
THEOREM TypeCorrect == Spec => []RetentionTypeOK
  <1>1. RetentionInv => RetentionTypeOK
    <2> SUFFICES ASSUME RetentionInv PROVE RetentionTypeOK
      OBVIOUS
    <2>1. DataTypes /\ LifeInv /\ run \in [Workers -> RunSet] /\ \A w \in Workers : RunKnows(run[w])
      BY DEF RetentionInv, ScanInv
    <2>2. \A j \in DOMAIN jobs :
            jobs[j] \in [version : 1..policy.version, due : Nat, of : 0..(j - 1),
                         status : {"pending", "processing", "completed", "failed"},
                         attempts : Nat, owner : Workers \union {None}, lapsed : BOOLEAN]
      <3> SUFFICES ASSUME NEW j \in DOMAIN jobs
                   PROVE  jobs[j] \in [version : 1..policy.version, due : Nat, of : 0..(j - 1),
                                       status : {"pending", "processing", "completed", "failed"},
                                       attempts : Nat, owner : Workers \union {None}, lapsed : BOOLEAN]
        OBVIOUS
      <3>1. jobs[j] \in JobSet /\ j \in Nat /\ jobs[j].version \in 1..policy.version /\ jobs[j].of < j
        BY <2>1 DEF DataTypes
      <3>2. jobs[j].of \in 0..(j - 1)
        BY <3>1 DEF JobSet
      <3>. QED
        BY <3>1, <3>2 DEF JobSet
    <2>3. run \in [Workers -> [phase : {"top", "claiming", "claimed", "locked", "done", "failed"},
                               job : 0..Len(jobs), at : Nat, cutoff : Int]]
      <3>1. Len(jobs) \in Nat /\ DOMAIN jobs = 1..Len(jobs)
        BY <2>1 DEF DataTypes
      <3>2. \A w \in Workers : run[w].job \in 0..Len(jobs)
        BY <2>1, <3>1 DEF RunKnows
      <3>. QED
        BY <2>1, <3>2 DEF RunSet
    <2>. QED
      BY <2>1, <2>2, <2>3 DEF DataTypes, LifeInv, RequestTypes, RetentionTypeOK
  <1>. QED
    BY <1>1, Invariant, PTL

\* While a policy is in force the chain of its scans has one end, which is not completed: a scan
\* that is done has queued its successor in the same transaction, a scan that is repeated finds
\* it, and a change of the policy begins another chain.
THEOREM ChainContinues == Spec => []ScansContinue
  <1>1. RetentionInv => ScansContinue
    BY FS_Singleton DEF RetentionInv, ScanInv, OneHead, ScansContinue
  <1>. QED
    BY <1>1, Invariant, PTL

\* What a scan removes has outlived the policy of that moment: the lock of the policy row keeps
\* the version that the scan has compared, until it commits.
THEOREM RedactionsAreDue == Spec => RedactionsObeyPolicy
  <1> DEFINE P == \A e \in redacted' \ redacted :
                    /\ policy.days # None /\ policy' = policy
                    /\ e \in processed /\ held[e] # "held"
                    /\ setting.received[e] + policy.days <= now
  <1>1. RetentionInv /\ Next => P
    <2> SUFFICES ASSUME RetentionInv, Next PROVE P
      OBVIOUS
    <2>1. \/ redacted' = redacted
          \/ \E w \in Workers : Enforce(w)
      BY DEF Next, Tick, Begin, Signal, Stop, Close, Receive, Serve, LockPolicy, UpdatePolicy, Work,
             Poll, Claim, Settle, LookAtPolicy, Interrupt, Break, SettleThrows, Lapse, Process, Hold,
             data
    <2>2. ASSUME NEW w \in Workers, Enforce(w)
          PROVE  P
      <3> DEFINE t == run[w]
      <3>1. RunKnows(t) /\ t \in RunSet /\ DataTypes
        BY DEF RetentionInv, ScanInv
      <3>2. /\ t.phase = "locked" /\ policy' = policy
            /\ redacted' = redacted \union Batch(t.cutoff)
        BY <2>2 DEF Enforce
      <3>3. policy.days # None /\ t.at <= now /\ t.cutoff = t.at - policy.days
        BY <3>1, <3>2 DEF RunKnows, InForce
      <3>4. Batch(t.cutoff) \subseteq Eligible(t.cutoff)
        BY <3>1, BatchIsEligible DEF DataTypes
      <3>5. \A e \in Events : setting.received[e] \in Nat
        BY <3>1, RetentionAssumption DEF DataTypes
      <3>6. t.at \in Nat /\ now \in Nat /\ policy.days \in Nat
        BY <3>1, <3>3 DEF DataTypes, RunSet
      <3> SUFFICES ASSUME NEW e \in redacted' \ redacted
                   PROVE  /\ policy.days # None /\ policy' = policy
                          /\ e \in processed /\ held[e] # "held"
                          /\ setting.received[e] + policy.days <= now
        OBVIOUS
      <3>7. e \in Events /\ e \in processed /\ held[e] # "held" /\ setting.received[e] <= t.cutoff
        BY <3>1, <3>2, <3>4 DEF Eligible, DataTypes
      <3> HIDE DEF t
      <3>. QED
        BY <3>2, <3>3, <3>5, <3>6, <3>7
    <2>. QED
      BY <2>1, <2>2
  <1>2. UNCHANGED vars => P
    BY DEF vars, data
  <1>3. RetentionInv /\ [Next]_vars => P
    BY <1>1, <1>2
  <1>4. RetentionInv /\ [Next]_vars => [P]_vars
    BY <1>3
  <1>. QED
    BY <1>4, Invariant, PTL DEF Spec, RedactionsObeyPolicy

\* A server that exits with status zero has answered what it has received: its listener stops
\* when no request is in flight, or leaves an error.
THEOREM ExitsAreGraceful == Spec => []GracefulExitsLoseNothing
  <1>1. RetentionInv => GracefulExitsLoseNothing
    BY DEF RetentionInv, LifeInv, Attended, GracefulExitsLoseNothing, ExitStatus
  <1>. QED
    BY <1>1, Invariant, PTL
=============================================================================
