----------------------- MODULE UsageAggregationProofs -----------------------
(***************************************************************************)
(* Proofs about UsageAggregation for any number of events, buckets,        *)
(* handlers and settings: types, no event counted with its correction, the *)
(* reasons for which an accepted event fails, and that unraced buckets are *)
(* exact.                                                                  *)
(***************************************************************************)
EXTENDS UsageAggregation, TLAPS

-----------------------------------------------------------------------------
(* Types *)

Sessions == [Workers -> Session \union {None}]

\* The buckets an event affects are buckets.
LEMMA AffectedIsTyped ==
  ASSUME setting \in Setting, NEW e \in Events
  PROVE  Affected(e) \in Seq(Buckets)
<1> DEFINE own == IF setting.bucket[e] = None THEN <<>> ELSE <<setting.bucket[e]>>
<1>1. setting.bucket \in [Events -> Buckets \union {None}]
      /\ setting.of \in [Events -> Events \union {None}]
  BY DEF Setting
<1>2. own \in Seq(Buckets)
  BY <1>1
<1>3. CASE setting.of[e] = None \/ setting.bucket[setting.of[e]] \in {None, setting.bucket[e]}
  <2>1. Affected(e) = own
    BY <1>3 DEF Affected
  <2> QED  BY <1>2, <2>1
<1>4. CASE ~(setting.of[e] = None \/ setting.bucket[setting.of[e]] \in {None, setting.bucket[e]})
  <2>1. Affected(e) = Append(own, setting.bucket[setting.of[e]])
    BY <1>4 DEF Affected
  <2>2. setting.bucket[setting.of[e]] \in Buckets
    BY <1>1, <1>4
  <2> HIDE DEF own
  <2> QED  BY <1>2, <2>1, <2>2
<1> QED  BY <1>3, <1>4

\* A handler starts with a session that has read and written nothing.
LEMMA OpenedIsTyped ==
  ASSUME NEW j \in Jobs
  PROVE  /\ Opened(j) \in Session
         /\ Opened(j).plan = NoValues /\ Opened(j).written = NoValues
         /\ Opened(j).task = j /\ Opened(j).left = {}
BY DEF Opened, Session, Values, NoValues

\* A session with a page of events.
LEMMA LeftIsTyped ==
  ASSUME NEW s \in Session, NEW E \in SUBSET Events
  PROVE  /\ [s EXCEPT !.left = E] \in Session
         /\ [s EXCEPT !.left = E].plan = s.plan /\ [s EXCEPT !.left = E].written = s.written
         /\ [s EXCEPT !.left = E].task = s.task
BY DEF Session

\* A session with what a run has computed.
LEMMA ComparingIsTyped ==
  ASSUME NEW s \in Session, NEW v \in Values, NEW B \in SUBSET Buckets
  PROVE  LET compared == [s EXCEPT !.plan = v, !.shared = B, !.phase = "compare"]
         IN /\ compared \in Session
            /\ compared.plan = v /\ compared.written = s.written
            /\ compared.task = s.task /\ compared.left = s.left
BY DEF Session

\* A run that finds itself completed reads and writes nothing.
LEMMA EndedIsTyped ==
  ASSUME NEW s \in Session
  PROVE  LET ended == [s EXCEPT !.phase = "committed"]
         IN /\ ended \in Session /\ ended.phase = "committed"
            /\ ended.plan = s.plan /\ ended.written = s.written /\ ended.task = s.task
BY DEF Session

\* Taking up an event keeps the type, and nothing is read or written by it.
LEMMA ProcessingIsTyped ==
  ASSUME setting \in Setting, NEW s \in Session, NEW e \in Events
  PROVE  /\ Processing(s, e) \in Session
         /\ Processing(s, e).plan = s.plan /\ Processing(s, e).written = s.written
         /\ Processing(s, e).task = s.task /\ Processing(s, e).left = s.left
BY AffectedIsTyped DEF Processing, Session

\* What is read is a set of events.
LEMMA AggregateIsTyped ==
  ASSUME NEW S \in SUBSET Events, NEW b
  PROVE  Aggregate(S, b) \in SUBSET Events
BY DEF Aggregate, Within

\* Noting that sessions met changes their history and nothing else.
LEMMA SharedKeepsSessions ==
  ASSUME session \in Sessions, NEW w \in Workers, NEW B \in SUBSET Buckets
  PROVE  /\ Shared(w, B) \in Sessions
         /\ \A o \in Workers :
              IF session[o] = None THEN Shared(w, B)[o] = None
              ELSE /\ Shared(w, B)[o] \in Session
                   /\ Shared(w, B)[o].plan = session[o].plan
                   /\ Shared(w, B)[o].written = session[o].written
                   /\ Shared(w, B)[o].task = session[o].task
                   /\ Shared(w, B)[o].left = session[o].left
                   /\ Shared(w, B)[o].phase = session[o].phase
<1> DEFINE met == {b \in B : \E o \in Workers \ {w} : Touches(o, b)}
           more(o) == IF o = w THEN met ELSE {b \in met : Touches(o, b)}
           marked(o) == [session[o] EXCEPT !.shared = @ \union more(o)]
<1>1. Shared(w, B) = [o \in Workers |-> IF session[o] = None THEN None ELSE marked(o)]
  BY DEF Shared
<1>2. \A o \in Workers : more(o) \in SUBSET Buckets
  OBVIOUS
<1> HIDE DEF more
<1>3. ASSUME NEW o \in Workers, session[o] # None
      PROVE  /\ marked(o) \in Session
             /\ marked(o).plan = session[o].plan /\ marked(o).written = session[o].written
             /\ marked(o).task = session[o].task /\ marked(o).left = session[o].left
             /\ marked(o).phase = session[o].phase
  <2>1. session[o] \in Session
    BY <1>3 DEF Sessions
  <2> QED  BY <2>1, <1>2 DEF Session
<1> HIDE DEF marked
<1> QED  BY <1>1, <1>3 DEF Sessions

-----------------------------------------------------------------------------
(* Type correctness *)

Typed == TypeOK /\ setting \in Setting

\* Ending a session keeps the types.
LEMMA SettleIsTyped ==
  ASSUME TypeOK, NEW w \in Workers, NEW j \in Jobs,
         NEW outcome \in {"done", "failed", "exhausted"}, Settle(w, j, outcome)
  PROVE  /\ job' \in [Jobs -> {"none", "queued", "done", "failed", "exhausted"}]
         /\ attempts' \in [Jobs -> Nat]
         /\ session' \in Sessions
BY DEF Settle, TypeOK, Sessions

\* A session at work is a session.
LEMMA SessionIsTyped ==
  ASSUME TypeOK, NEW w \in Workers, session[w] # None
  PROVE  session[w] \in Session
BY DEF TypeOK

\* What the API, operators, retention and the clock do keeps the types.
LEMMA OutsideIsTyped ==
  ASSUME TypeOK
  PROVE  /\ \A e \in Events : Accept(e) => TypeOK'
         /\ (CreateRun \/ QueueRebuild \/ Redact \/ Tick) => TypeOK'
<1> USE DEF TypeOK
<1>1. ASSUME NEW e \in Events, Accept(e)  PROVE TypeOK'
  <2>1. PICK at \in now - MaxLag..now :
          at >= 0 /\ received' = [received EXCEPT ![e] = at]
    BY <1>1 DEF Accept
  <2>2. at \in Nat
    BY <2>1, ConstantsAssumption
  <2> QED  BY <1>1, <2>1, <2>2 DEF Accept, Jobs
<1>2. ASSUME CreateRun  PROVE TypeOK'
  BY <1>2 DEF CreateRun, Jobs, stored
<1>3. ASSUME QueueRebuild  PROVE TypeOK'
  BY <1>3 DEF QueueRebuild, Jobs, stored
<1>4. ASSUME Redact  PROVE TypeOK'
  BY <1>4 DEF Redact, Eligible, Stored
<1>5. ASSUME Tick  PROVE TypeOK'
  BY <1>5 DEF Tick, stored
<1> QED  BY <1>1, <1>2, <1>3, <1>4, <1>5

\* A handler's start keeps the types.
LEMMA BeginIsTyped ==
  ASSUME Typed, NEW w \in Workers, Begin(w)
  PROVE  TypeOK'
<1> USE DEF Typed
<1>0. session \in Sessions
  BY DEF TypeOK, Sessions
<1>1. ASSUME NEW e \in Events, BeginEvent(w, e)  PROVE TypeOK'
  <2>1. e \in Jobs
    BY DEF Jobs
  <2>2. CASE FailPermanently(w, e)
    BY <1>1, <2>1, <2>2, SettleIsTyped DEF FailPermanently, BeginEvent, TypeOK, stored, Sessions
  <2>3. CASE session' = [session EXCEPT ![w] = Processing(Opened(e), e)] /\ Claimed(e)
    <3>1. Processing(Opened(e), e) \in Session
      BY <2>1, OpenedIsTyped, ProcessingIsTyped
    <3> QED  BY <1>1, <2>1, <2>3, <3>1 DEF BeginEvent, TypeOK, stored, Claimed
  <2> QED  BY <1>1, <2>2, <2>3 DEF BeginEvent
<1>2. ASSUME BeginRebuild(w)  PROVE TypeOK'
  <2>1. Rebuild \in Jobs
    BY DEF Jobs
  <2>2. CASE FailPermanently(w, Rebuild)
    BY <1>2, <2>1, <2>2, SettleIsTyped DEF FailPermanently, BeginRebuild, TypeOK, stored, Sessions
  <2>3. CASE session' = [session EXCEPT ![w] = [Opened(Rebuild) EXCEPT !.left = Stored]]
             /\ Claimed(Rebuild)
    <3>1. [Opened(Rebuild) EXCEPT !.left = Stored] \in Session
      <4>1. Stored \in SUBSET Events
        BY DEF Stored
      <4> HIDE DEF Typed
      <4> QED  BY <2>1, <4>1, OpenedIsTyped, LeftIsTyped, Zenon
    <3> QED  BY <1>2, <2>1, <2>3, <3>1 DEF BeginRebuild, TypeOK, stored, Claimed
  <2> QED  BY <1>2, <2>2, <2>3 DEF BeginRebuild
<1>3. ASSUME BeginRun(w)  PROVE TypeOK'
  <2>1. Run \in Jobs
    BY DEF Jobs
  <2>2. CASE FailPermanently(w, Run)
    BY <1>3, <2>1, <2>2, SettleIsTyped DEF FailPermanently, BeginRun, TypeOK, stored, Sessions
  <2>3. CASE run # "completed" /\ ~FailPermanently(w, Run)
    <3> DEFINE met == {b \in Buckets : \E o \in Workers : Touches(o, b)}
               values == [b \in Buckets |-> Aggregate(EffectiveAt(watermark), b)]
               opened == [Opened(Run) EXCEPT !.plan = values, !.shared = met,
                                             !.phase = "compare"]
    <3>1. session' = [Shared(w, Buckets) EXCEPT ![w] = opened] /\ Claimed(Run)
      BY <1>3, <2>3 DEF BeginRun
    <3>2. values \in Values
      BY AggregateIsTyped DEF Values, EffectiveAt, Stored
    <3>3. opened \in Session
      <4>1. met \in SUBSET Buckets
        OBVIOUS
      <4> HIDE DEF met, values
      <4> QED  BY <2>1, <3>2, <4>1, OpenedIsTyped, ComparingIsTyped, Zenon
    <3>4. Shared(w, Buckets) \in Sessions
      BY <1>0, SharedKeepsSessions
    <3> HIDE DEF opened
    <3> QED  BY <1>3, <2>1, <3>1, <3>3, <3>4 DEF BeginRun, TypeOK, stored, Claimed, Sessions
  <2>4. CASE run = "completed"
    <3> DEFINE ended == [Opened(Run) EXCEPT !.phase = "committed"]
    <3>1. session' = [session EXCEPT ![w] = ended] /\ Claimed(Run)
      BY <1>3, <2>4 DEF BeginRun
    <3>2. ended \in Session
      <4> HIDE DEF Typed
      <4> QED  BY <2>1, OpenedIsTyped, EndedIsTyped, Zenon
    <3> HIDE DEF ended
    <3> QED  BY <1>3, <2>1, <3>1, <3>2 DEF BeginRun, TypeOK, stored, Claimed
  <2> QED  BY <2>2, <2>3, <2>4
<1> QED  BY <1>1, <1>2, <1>3 DEF Begin

\* A rebuild's next event keeps the types.
LEMMA RebuildNextIsTyped ==
  ASSUME Typed, NEW w \in Workers, RebuildNext(w)
  PROVE  TypeOK'
<1>1. Rebuild \in Jobs /\ session[w] \in Session
  BY SessionIsTyped DEF RebuildNext, Typed, Jobs
<1>2. PICK e \in session[w].left :
        IF SourceRedacted(e)
        THEN FailPermanently(w, Rebuild)
        ELSE /\ session' = [session EXCEPT
                              ![w] = [Processing(session[w], e) EXCEPT !.left = @ \ {e}]]
             /\ UNCHANGED <<job, attempts>>
  BY DEF RebuildNext
<1>3. e \in Events
  BY <1>1, <1>2 DEF Session
<1>4. CASE FailPermanently(w, Rebuild)
  BY <1>1, <1>4, SettleIsTyped DEF FailPermanently, RebuildNext, Typed, TypeOK, stored, Sessions
<1>5. CASE session' = [session EXCEPT ![w] = [Processing(session[w], e) EXCEPT !.left = @ \ {e}]]
           /\ UNCHANGED <<job, attempts>>
  <2> DEFINE next == [Processing(session[w], e) EXCEPT !.left = @ \ {e}]
  <2>1. Processing(session[w], e) \in Session
    BY <1>1, <1>3, ProcessingIsTyped DEF Typed
  <2>2. next \in Session
    BY <2>1 DEF Session
  <2>3. session' = [session EXCEPT ![w] = next]
    BY <1>5
  <2> HIDE DEF next
  <2> QED  BY <1>5, <2>2, <2>3 DEF RebuildNext, Typed, TypeOK, stored
<1> QED  BY <1>2, <1>4, <1>5

\* What a handler has read goes into its plan.
LEMMA PlannedIsTyped ==
  ASSUME NEW s \in Session, NEW b \in Buckets, NEW S \in SUBSET Events, s.todo # <<>>
  PROVE  LET planned == [s EXCEPT !.todo = Tail(@), !.plan[b] = S]
         IN /\ planned \in Session
            /\ planned.plan = [s.plan EXCEPT ![b] = S] /\ planned.written = s.written
            /\ planned.task = s.task /\ planned.left = s.left
<1>1. s.plan \in Values /\ s.todo \in Seq(Buckets)
  BY DEF Session
<1>2. [s.plan EXCEPT ![b] = S] \in Values /\ Tail(s.todo) \in Seq(Buckets)
  BY <1>1 DEF Values
<1> DEFINE p == [s.plan EXCEPT ![b] = S]
           r == Tail(s.todo)
           planned == [s EXCEPT !.todo = r, !.plan = p]
<1>3. [s EXCEPT !.todo = Tail(@), !.plan[b] = S] = planned
  BY DEF Session
<1>4. /\ planned \in Session
      /\ planned.plan = p /\ planned.written = s.written
      /\ planned.task = s.task /\ planned.left = s.left
  <2> HIDE DEF p, r
  <2> QED  BY <1>2 DEF p, r, Session
<1> QED  BY <1>3, <1>4, Zenon

\* What Read does to its own session, written out.
LEMMA ReadPlans ==
  ASSUME Typed, NEW w \in Workers, Read(w),
         ~AggregateThrows(Effective, Head(session[w].todo))
  PROVE  LET b == Head(session[w].todo)
             planned == [Shared(w, {b})[w] EXCEPT !.todo = Tail(@),
                                                  !.plan[b] = Aggregate(Effective, b)]
         IN session' = [Shared(w, {b}) EXCEPT ![w] = planned]
BY DEF Read

\* Reading a bucket keeps the types.
LEMMA ReadIsTyped ==
  ASSUME Typed, NEW w \in Workers, Read(w)
  PROVE  TypeOK'
<1> DEFINE b == Head(session[w].todo)
<1>1. session[w] \in Session /\ session \in Sessions
  BY SessionIsTyped DEF Read, Typed, TypeOK, Sessions
<1>2. session[w].task \in Jobs /\ b \in Buckets
  BY <1>1 DEF Session, Read
<1>3. CASE AggregateThrows(Effective, b)
  BY <1>2, <1>3, SettleIsTyped DEF FailPermanently, Read, Typed, TypeOK, stored, Sessions
<1>4. CASE ~AggregateThrows(Effective, b)
  <2> DEFINE planned == [Shared(w, {b})[w] EXCEPT !.todo = Tail(@),
                                                  !.plan[b] = Aggregate(Effective, b)]
  <2>1. session' = [Shared(w, {b}) EXCEPT ![w] = planned]
    BY <1>4, ReadPlans
  <2>2. Shared(w, {b}) \in Sessions /\ Shared(w, {b})[w] \in Session
    BY <1>1, <1>2, SharedKeepsSessions DEF Read
  <2>3. Aggregate(Effective, b) \in SUBSET Events
    BY AggregateIsTyped DEF Effective, EffectiveAt, Stored
  <2>4. Shared(w, {b})[w].todo = session[w].todo /\ session[w].todo # <<>>
    BY <1>1 DEF Shared, Read, Session
  <2>5. planned \in Session
    BY <1>2, <2>2, <2>3, <2>4, PlannedIsTyped
  <2>6. UNCHANGED <<now, setting, stored, job, attempts, watermark, bucket, lost, raced>>
    BY <1>4 DEF Read
  <2> HIDE DEF planned, b
  <2>7. session' \in Sessions
    BY <2>1, <2>2, <2>5 DEF Sessions
  <2> QED  BY <2>6, <2>7 DEF Typed, TypeOK, stored, Sessions
<1> QED  BY <1>3, <1>4

\* The plan of a session after the comparison, or after a write, and what it has written.
LEMMA RewrittenIsTyped ==
  ASSUME NEW s \in Session, NEW p \in Values, NEW q \in Values
  PROVE  LET rewritten == [s EXCEPT !.plan = p, !.written = q]
         IN /\ rewritten \in Session
            /\ rewritten.plan = p /\ rewritten.written = q
            /\ rewritten.task = s.task /\ rewritten.left = s.left
BY DEF Session

\* A session that has compared.
LEMMA OpenIsTyped ==
  ASSUME NEW s \in Session, NEW p \in Values
  PROVE  LET compared == [s EXCEPT !.plan = p, !.phase = "open"]
         IN /\ compared \in Session
            /\ compared.plan = p /\ compared.written = s.written
            /\ compared.task = s.task /\ compared.left = s.left
BY DEF Session

\* After the comparison a run plans what it planned, for some of the buckets.
LEMMA CompareKeepsPlans ==
  ASSUME Typed, NEW w \in Workers, Compare(w)
  PROVE  \E p \in Values :
           /\ \A b \in Buckets : p[b] \in {None, session[w].plan[b]}
           /\ session' = [session EXCEPT ![w] = [session[w] EXCEPT !.plan = p, !.phase = "open"]]
<1> DEFINE p == [b \in Buckets |->
                   IF "repair" \in setting.occurs /\ session[w].plan[b] # bucket[b]
                   THEN session[w].plan[b] ELSE None]
<1>1. session[w] \in Session
  BY SessionIsTyped DEF Compare, Typed
<1>2. session[w].plan \in Values
  BY <1>1 DEF Session
<1>3. p \in Values /\ \A b \in Buckets : p[b] \in {None, session[w].plan[b]}
  BY <1>2 DEF Values
<1>4. session' = [session EXCEPT ![w] = [session[w] EXCEPT !.plan = p, !.phase = "open"]]
  BY <1>1 DEF Compare, Typed, TypeOK
<1> HIDE DEF p
<1> QED  BY <1>3, <1>4

\* A write leaves the plan, and may enter the written rows.
LEMMA WriteMovesPlan ==
  ASSUME Typed, NEW w \in Workers, NEW b \in Buckets, Write(w, b)
  PROVE  \E p, q \in Values :
           /\ p = [session[w].plan EXCEPT ![b] = None]
           /\ q \in {session[w].written, [session[w].written EXCEPT ![b] = session[w].plan[b]]}
           /\ session' = [session EXCEPT
                            ![w] = [session[w] EXCEPT !.plan = p, !.written = q]]
<1> DEFINE s == session[w]
           p == [s.plan EXCEPT ![b] = None]
           r == [s.written EXCEPT ![b] = s.plan[b]]
<1>1. s \in Session
  BY SessionIsTyped DEF Write, Typed
<1>2. s.plan \in Values /\ s.written \in Values
  BY <1>1 DEF Session
<1>3. p \in Values /\ r \in Values
  BY <1>2 DEF Values
<1>4. CASE session' = [session EXCEPT ![w].plan[b] = None]
  <2>1. session' = [session EXCEPT ![w] = [s EXCEPT !.plan = p, !.written = s.written]]
    <3>1. [s EXCEPT !.plan = p] = [s EXCEPT !.plan = p, !.written = s.written]
      <4> HIDE DEF p, s
      <4> QED  BY <1>1 DEF Session
    <3>2. session' = [session EXCEPT ![w] = [s EXCEPT !.plan = p]]
      BY <1>4
    <3> QED  BY <3>1, <3>2, Zenon
  <2> HIDE DEF p, r
  <2> QED  BY <1>2, <1>3, <2>1 DEF p
<1>5. CASE session' = [session EXCEPT ![w].plan[b] = None,
                                      ![w].written[b] = session[w].plan[b]]
  <2>1. session' = [session EXCEPT ![w] = [s EXCEPT !.plan = p, !.written = r]]
    BY <1>1, <1>5 DEF Typed, TypeOK, Session
  <2> HIDE DEF p, r
  <2> QED  BY <1>2, <1>3, <2>1 DEF p, r
<1> QED  BY <1>4, <1>5 DEF Write

\* Comparing and writing keep the types.
LEMMA WritingIsTyped ==
  ASSUME Typed, NEW w \in Workers, Compare(w) \/ \E b \in Buckets : Write(w, b)
  PROVE  TypeOK'
<1>1. session[w] \in Session
  BY SessionIsTyped DEF Compare, Write, Typed
<1>2. CASE Compare(w)
  <2>1. PICK p \in Values :
          session' = [session EXCEPT ![w] = [session[w] EXCEPT !.plan = p, !.phase = "open"]]
    BY <1>2, CompareKeepsPlans
  <2>2. session' \in Sessions
    BY <1>1, <2>1, OpenIsTyped DEF Typed, TypeOK, Sessions
  <2> QED  BY <1>2, <2>2 DEF Compare, Typed, TypeOK, stored, Sessions
<1>3. ASSUME NEW b \in Buckets, Write(w, b)  PROVE TypeOK'
  <2>1. PICK p, q \in Values :
          /\ p = [session[w].plan EXCEPT ![b] = None]
          /\ q \in {session[w].written, [session[w].written EXCEPT ![b] = session[w].plan[b]]}
          /\ session' = [session EXCEPT ![w] = [session[w] EXCEPT !.plan = p, !.written = q]]
    BY <1>3, WriteMovesPlan, Zenon
  <2>2. session' \in Sessions
    BY <1>1, <2>1, RewrittenIsTyped DEF Typed, TypeOK, Sessions
  <2> QED  BY <1>3, <2>2 DEF Write, Typed, TypeOK, stored, Sessions
<1> QED  BY <1>2, <1>3

\* A commit opens the next transaction of a rebuild, or has the job completed.
LEMMA CommittedIsTyped ==
  ASSUME NEW s \in Session, NEW phase \in {"between", "committed"}
  PROVE  LET committed == [Opened(s.task) EXCEPT !.left = s.left, !.phase = phase]
         IN /\ committed \in Session
            /\ committed.plan = NoValues /\ committed.written = NoValues
            /\ committed.task = s.task /\ committed.left = s.left
<1>1. s.task \in Jobs /\ s.left \in SUBSET Events
  BY DEF Session
<1> DEFINE o == Opened(s.task)
<1>2. o \in Session /\ o.plan = NoValues /\ o.written = NoValues /\ o.task = s.task
  BY <1>1, OpenedIsTyped, Zenon
<1> HIDE DEF o
<1>3. LET committed == [o EXCEPT !.left = s.left, !.phase = phase]
      IN /\ committed \in Session
         /\ committed.plan = NoValues /\ committed.written = NoValues
         /\ committed.task = s.task /\ committed.left = s.left
  BY <1>1, <1>2 DEF Session
<1> QED  BY <1>3, Zenon DEF o

\* Committing keeps the types.
LEMMA CommitIsTyped ==
  ASSUME Typed, NEW w \in Workers, Commit(w)
  PROVE  TypeOK'
<1> DEFINE s == session[w]
           rows == Given(s.written)
           phase == IF s.task = Rebuild THEN "between" ELSE "committed"
           committed == [Opened(s.task) EXCEPT !.left = s.left, !.phase = phase]
<1>1. s \in Session
  BY SessionIsTyped DEF Commit, Ready, Typed
<1>2. s.written \in Values /\ rows \subseteq Buckets
  BY <1>1 DEF Session, Given
<1>3. bucket' \in [Buckets -> SUBSET Events]
  BY <1>2 DEF Commit, Values, Given, Typed, TypeOK
<1>4. raced' \subseteq Buckets
  BY <1>2 DEF Commit, Typed, TypeOK
<1>5. session' = [session EXCEPT ![w] = committed]
  BY DEF Commit
<1>6. committed \in Session
  BY <1>1, CommittedIsTyped
<1> HIDE DEF committed
<1> QED  BY <1>3, <1>4, <1>5, <1>6 DEF Commit, Typed, TypeOK, stored

\* What ends a session keeps the types.
LEMMA EndIsTyped ==
  ASSUME Typed, NEW w \in Workers, Complete(w) \/ Lose(w) \/ BreakDeadlock(w)
  PROVE  TypeOK'
<1>1. CASE Complete(w)
  <2>1. session[w].task \in Jobs
    BY <1>1, SessionIsTyped DEF Complete, Typed, Session
  <2> QED  BY <1>1, <2>1, SettleIsTyped DEF Complete, Typed, TypeOK, stored, Sessions
<1>2. CASE Lose(w)
  BY <1>2 DEF Lose, Typed, TypeOK, stored
<1>3. CASE BreakDeadlock(w)
  <2>1. session[w].task \in Jobs
    BY <1>3, SessionIsTyped DEF BreakDeadlock, WaitsFor, Typed, Session
  <2>2. CASE session' = [session EXCEPT ![w] = None] /\ UNCHANGED <<job, attempts>>
    BY <1>3, <2>2 DEF BreakDeadlock, Typed, TypeOK, stored
  <2>3. CASE Settle(w, session[w].task, "exhausted")
    BY <1>3, <2>1, <2>3, SettleIsTyped DEF BreakDeadlock, Typed, TypeOK, stored, Sessions
  <2> QED  BY <1>3, <2>2, <2>3 DEF BreakDeadlock
<1> QED  BY <1>1, <1>2, <1>3

\* The setting is chosen once.
LEMMA SettingStays ==
  ASSUME [Next]_vars
  PROVE  setting' = setting
BY DEF Next, vars, Accept, CreateRun, QueueRebuild, Redact, Tick, Begin, BeginRun, BeginRebuild,
       BeginEvent, Proceed, RebuildNext, Read, Compare, Write, Commit, Complete, Lose, BreakDeadlock

\* Every step keeps the types.
LEMMA TypedStep ==
  ASSUME Typed, [Next]_vars
  PROVE  Typed'
<1>1. setting' \in Setting
  BY SettingStays DEF Typed
<1>2. TypeOK'
  <2>1. CASE UNCHANGED vars
    BY <2>1 DEF vars, Typed, TypeOK
  <2>2. CASE \E e \in Events : Accept(e)
    BY <2>2, OutsideIsTyped DEF Typed
  <2>3. CASE CreateRun \/ QueueRebuild \/ Redact \/ Tick
    BY <2>3, OutsideIsTyped DEF Typed
  <2>4. ASSUME NEW w \in Workers, Begin(w) \/ Proceed(w) \/ Lose(w) \/ BreakDeadlock(w)
        PROVE  TypeOK'
    BY <2>4, BeginIsTyped, RebuildNextIsTyped, ReadIsTyped, WritingIsTyped, CommitIsTyped,
       EndIsTyped DEF Proceed
  <2> QED  BY <2>1, <2>2, <2>3, <2>4 DEF Next
<1> QED  BY <1>1, <1>2 DEF Typed

\* So do the initial states.
LEMMA InitIsTyped == Init => Typed
BY ConstantsAssumption DEF Init, Typed, TypeOK

\* The variables keep their types for every number of events, buckets and handlers.
THEOREM TypeCorrect == Spec => [](TypeOK /\ setting \in Setting)
<1>1. Init => Typed
  BY InitIsTyped
<1>2. Typed /\ [Next]_vars => Typed'
  BY TypedStep
<1> QED  BY <1>1, <1>2, PTL DEF Spec, Typed

-----------------------------------------------------------------------------
(* No event is counted together with its correction.  The buckets are written from   *)
(* what handlers have read, possibly long ago and beside each other: the invariant    *)
(* says that of every set that may still be written. *)

Clean(S) == \A e, c \in S : setting.of[c] # e

CleanRows(values) == \A b \in Buckets : values[b] # None => Clean(values[b])

CleanSession(s) == CleanRows(s.plan) /\ CleanRows(s.written)

CleanInv ==
  /\ \A b \in Buckets : Clean(bucket[b])
  /\ \A w \in Workers : session[w] # None => CleanSession(session[w])

\* What is read at any watermark counts no event with its correction.
LEMMA AggregateIsClean ==
  ASSUME NEW at, NEW b
  PROVE  Clean(Aggregate(EffectiveAt(at), b))
BY DEF Clean, Aggregate, Within, EffectiveAt

\* Who has read and written nothing is clean.
LEMMA NoValuesAreClean == CleanRows(NoValues)
BY DEF CleanRows, NoValues

\* Sessions that noted that they met are as clean as they were.
LEMMA SharedIsClean ==
  ASSUME Typed, CleanInv, NEW w \in Workers, NEW B \in SUBSET Buckets
  PROVE  \A o \in Workers : IF session[o] = None THEN Shared(w, B)[o] = None
                            ELSE CleanSession(Shared(w, B)[o])
<1>1. session \in Sessions
  BY DEF Typed, TypeOK, Sessions
<1> QED  BY <1>1, SharedKeepsSessions DEF CleanInv, CleanSession

\* A handler starts clean; a run with clean plans.
LEMMA BeginIsClean ==
  ASSUME Typed, CleanInv, NEW w \in Workers, Begin(w)
  PROVE  \A o \in Workers : session'[o] # None => CleanSession(session'[o])
<1>0. session \in Sessions /\ NoValues \in Values
  BY DEF Typed, TypeOK, Sessions, NoValues, Values
<1>1. ASSUME NEW e \in Events, BeginEvent(w, e)
      PROVE  \A o \in Workers : session'[o] # None => CleanSession(session'[o])
  <2>1. e \in Jobs
    BY DEF Jobs
  <2>2. CASE FailPermanently(w, e)
    BY <1>0, <2>2 DEF FailPermanently, Settle, CleanInv, Sessions
  <2>3. CASE session' = [session EXCEPT ![w] = Processing(Opened(e), e)]
    <3>1. CleanSession(Processing(Opened(e), e))
      BY <2>1, OpenedIsTyped, ProcessingIsTyped, NoValuesAreClean DEF CleanSession, Typed
    <3> QED  BY <1>0, <2>3, <3>1 DEF CleanInv, Sessions
  <2> QED  BY <1>1, <2>2, <2>3 DEF BeginEvent
<1>2. ASSUME BeginRebuild(w)
      PROVE  \A o \in Workers : session'[o] # None => CleanSession(session'[o])
  <2>1. Rebuild \in Jobs /\ Stored \in SUBSET Events
    BY DEF Jobs, Stored
  <2>2. CASE FailPermanently(w, Rebuild)
    BY <1>0, <2>2 DEF FailPermanently, Settle, CleanInv, Sessions
  <2>3. CASE session' = [session EXCEPT ![w] = [Opened(Rebuild) EXCEPT !.left = Stored]]
    <3> DEFINE opened == [Opened(Rebuild) EXCEPT !.left = Stored]
    <3>1. Opened(Rebuild) \in Session
          /\ Opened(Rebuild).plan = NoValues /\ Opened(Rebuild).written = NoValues
      BY <2>1, OpenedIsTyped, Zenon
    <3>2. opened.plan = Opened(Rebuild).plan /\ opened.written = Opened(Rebuild).written
      BY <2>1, <3>1, LeftIsTyped, Zenon
    <3>3. CleanSession(opened)
      <4> HIDE DEF opened
      <4> QED  BY <3>1, <3>2, NoValuesAreClean DEF CleanSession
    <3> HIDE DEF opened
    <3> QED  BY <1>0, <2>3, <3>3 DEF CleanInv, Sessions, opened
  <2> QED  BY <1>2, <2>2, <2>3 DEF BeginRebuild
<1>3. ASSUME BeginRun(w)
      PROVE  \A o \in Workers : session'[o] # None => CleanSession(session'[o])
  <2>1. Run \in Jobs
    BY DEF Jobs
  <2>2. CASE FailPermanently(w, Run)
    BY <1>0, <2>2 DEF FailPermanently, Settle, CleanInv, Sessions
  <2>3. CASE run # "completed" /\ ~FailPermanently(w, Run)
    <3> DEFINE met == {b \in Buckets : \E o \in Workers : Touches(o, b)}
               values == [b \in Buckets |-> Aggregate(EffectiveAt(watermark), b)]
               opened == [Opened(Run) EXCEPT !.plan = values, !.shared = met,
                                             !.phase = "compare"]
    <3>1. session' = [Shared(w, Buckets) EXCEPT ![w] = opened]
      BY <1>3, <2>3 DEF BeginRun
    <3>2. values \in Values /\ CleanRows(values)
      BY AggregateIsTyped, AggregateIsClean DEF Values, EffectiveAt, Stored, CleanRows
    <3>3. Opened(Run) \in Session /\ Opened(Run).written = NoValues
      BY <2>1, OpenedIsTyped, Zenon
    <3>4. met \in SUBSET Buckets
      OBVIOUS
    <3>5. opened.plan = values /\ opened.written = Opened(Run).written
      <4> HIDE DEF met, values
      <4>1. opened.plan = values
        BY <3>2, <3>3 DEF Session
      <4>2. opened.written = Opened(Run).written
        BY <3>2, <3>3 DEF Session
      <4> QED  BY <4>1, <4>2
    <3>6. CleanSession(opened)
      <4> HIDE DEF opened, values
      <4> QED  BY <3>2, <3>3, <3>5, NoValuesAreClean DEF CleanSession
    <3>7. Shared(w, Buckets) \in Sessions
      BY <1>0, SharedKeepsSessions
    <3>8. \A o \in Workers : IF session[o] = None THEN Shared(w, Buckets)[o] = None
                             ELSE CleanSession(Shared(w, Buckets)[o])
      BY SharedIsClean
    <3> HIDE DEF opened
    <3> QED  BY <3>1, <3>6, <3>7, <3>8 DEF Sessions
  <2>4. CASE run = "completed"
    <3> DEFINE ended == [Opened(Run) EXCEPT !.phase = "committed"]
    <3>1. session' = [session EXCEPT ![w] = ended]
      BY <1>3, <2>4 DEF BeginRun
    <3>2. ended.plan = NoValues /\ ended.written = NoValues
      BY <2>1, OpenedIsTyped, EndedIsTyped, Zenon
    <3>3. CleanSession(ended)
      <4> HIDE DEF ended
      <4> QED  BY <3>2, NoValuesAreClean DEF CleanSession
    <3> HIDE DEF ended
    <3> QED  BY <1>0, <3>1, <3>3 DEF CleanInv, Sessions
  <2> QED  BY <2>2, <2>3, <2>4
<1> QED  BY <1>1, <1>2, <1>3 DEF Begin

\* What a rebuild takes up next, what a handler reads, compares and writes is clean.
LEMMA ProceedIsClean ==
  ASSUME Typed, CleanInv, NEW w \in Workers, Proceed(w)
  PROVE  \A o \in Workers : session'[o] # None => CleanSession(session'[o])
<1>0. session \in Sessions /\ NoValues \in Values
  BY DEF Typed, TypeOK, Sessions, NoValues, Values
<1>1. session[w] # None /\ session[w] \in Session /\ CleanSession(session[w])
  BY SessionIsTyped DEF Proceed, RebuildNext, Read, Compare, Write, Commit, Ready, Complete,
     Typed, CleanInv
<1>2. CASE RebuildNext(w)
  <2>1. PICK e \in session[w].left :
          \/ FailPermanently(w, Rebuild)
          \/ session' = [session EXCEPT
                           ![w] = [Processing(session[w], e) EXCEPT !.left = @ \ {e}]]
    BY <1>2 DEF RebuildNext
  <2>2. CASE FailPermanently(w, Rebuild)
    BY <1>0, <2>2 DEF FailPermanently, Settle, CleanInv, Sessions
  <2>3. CASE session' = [session EXCEPT
                           ![w] = [Processing(session[w], e) EXCEPT !.left = @ \ {e}]]
    <3> DEFINE p == Processing(session[w], e)
               next == [p EXCEPT !.left = @ \ {e}]
    <3>1. e \in Events
      BY <1>1 DEF Session
    <3>2. p \in Session /\ p.plan = session[w].plan /\ p.written = session[w].written
      BY <1>1, <3>1, ProcessingIsTyped DEF Typed
    <3>3. next.plan = p.plan /\ next.written = p.written
      <4> HIDE DEF p
      <4> QED  BY <3>2 DEF Session
    <3>4. CleanSession(next)
      <4> HIDE DEF next, p
      <4> QED  BY <1>1, <3>2, <3>3 DEF CleanSession
    <3>5. session' = [session EXCEPT ![w] = next]
      BY <2>3
    <3> HIDE DEF next
    <3> QED  BY <1>0, <3>4, <3>5 DEF CleanInv, Sessions
  <2> QED  BY <2>1, <2>2, <2>3
<1>3. CASE Read(w)
  <2> DEFINE b == Head(session[w].todo)
  <2>1. b \in Buckets /\ session[w].todo \in Seq(Buckets) /\ session[w].todo # <<>>
    BY <1>1, <1>3 DEF Session, Read
  <2>2. CASE AggregateThrows(Effective, b)
    BY <1>0, <1>3, <2>2 DEF Read, FailPermanently, Settle, CleanInv, Sessions
  <2>3. CASE ~AggregateThrows(Effective, b)
    <3> DEFINE before == Shared(w, {b})[w]
               planned == [before EXCEPT !.todo = Tail(@),
                                         !.plan[b] = Aggregate(Effective, b)]
    <3>1. session' = [Shared(w, {b}) EXCEPT ![w] = planned]
      BY <1>3, <2>3, ReadPlans
    <3>2. Shared(w, {b}) \in Sessions /\ before \in Session
      BY <1>0, <1>1, <2>1, SharedKeepsSessions
    <3>3. \A o \in Workers : IF session[o] = None THEN Shared(w, {b})[o] = None
                             ELSE CleanSession(Shared(w, {b})[o])
      BY <2>1, SharedIsClean
    <3>4. CleanSession(before)
      BY <1>1, <3>3
    <3>5. Aggregate(Effective, b) \in SUBSET Events /\ Clean(Aggregate(Effective, b))
      BY AggregateIsTyped, AggregateIsClean DEF Effective, EffectiveAt, Stored
    <3>6. before.todo # <<>>
      BY <1>1, <2>1 DEF Shared, Session
    <3>7. /\ planned.plan = [before.plan EXCEPT ![b] = Aggregate(Effective, b)]
          /\ planned.written = before.written
      <4> HIDE DEF before, b
      <4> QED  BY <2>1, <3>2, <3>5, <3>6, PlannedIsTyped
    <3>8. before.plan \in Values
      BY <3>2 DEF Session
    <3>9. CleanSession(planned)
      <4> HIDE DEF planned, before, b
      <4> QED  BY <3>4, <3>5, <3>7, <3>8 DEF CleanSession, CleanRows, Values
    <3> HIDE DEF planned
    <3> QED  BY <3>1, <3>2, <3>3, <3>9 DEF Sessions
  <2> QED  BY <2>2, <2>3
<1>4. CASE Compare(w)
  <2>1. PICK p \in Values :
          /\ \A b \in Buckets : p[b] \in {None, session[w].plan[b]}
          /\ session' = [session EXCEPT ![w] = [session[w] EXCEPT !.plan = p, !.phase = "open"]]
    BY <1>4, CompareKeepsPlans, Zenon
  <2> DEFINE compared == [session[w] EXCEPT !.plan = p, !.phase = "open"]
  <2>2. compared.plan = p /\ compared.written = session[w].written
    BY <1>1, OpenIsTyped
  <2>3. CleanSession(compared)
    <3> HIDE DEF compared
    <3> QED  BY <1>1, <2>1, <2>2 DEF CleanSession, CleanRows
  <2> HIDE DEF compared
  <2> QED  BY <1>0, <2>1, <2>3 DEF CleanInv, Sessions, compared
<1>5. ASSUME NEW b \in Buckets, Write(w, b)
      PROVE  \A o \in Workers : session'[o] # None => CleanSession(session'[o])
  <2>1. PICK p, q \in Values :
          /\ p = [session[w].plan EXCEPT ![b] = None]
          /\ q \in {session[w].written, [session[w].written EXCEPT ![b] = session[w].plan[b]]}
          /\ session' = [session EXCEPT ![w] = [session[w] EXCEPT !.plan = p, !.written = q]]
    BY <1>5, WriteMovesPlan, Zenon
  <2> DEFINE rewritten == [session[w] EXCEPT !.plan = p, !.written = q]
  <2>2. rewritten.plan = p /\ rewritten.written = q
    BY <1>1, RewrittenIsTyped
  <2>3. session[w].plan \in Values /\ session[w].written \in Values
    BY <1>1 DEF Session
  <2>4. CleanRows(p)
    BY <1>1, <2>1, <2>3 DEF CleanSession, CleanRows, Values
  <2>5. CleanRows(q)
    BY <1>1, <2>1, <2>3 DEF CleanSession, CleanRows, Values
  <2>6. CleanSession(rewritten)
    <3> HIDE DEF rewritten
    <3> QED  BY <2>2, <2>4, <2>5 DEF CleanSession
  <2> HIDE DEF rewritten
  <2> QED  BY <1>0, <2>1, <2>6 DEF CleanInv, Sessions, rewritten
<1>6. CASE Commit(w)
  <2> DEFINE s == session[w]
             phase == IF s.task = Rebuild THEN "between" ELSE "committed"
             committed == [Opened(s.task) EXCEPT !.left = s.left, !.phase = phase]
  <2>1. session' = [session EXCEPT ![w] = committed]
    BY <1>6 DEF Commit
  <2>2. committed.plan = NoValues /\ committed.written = NoValues
    BY <1>1, CommittedIsTyped
  <2>3. CleanSession(committed)
    <3> HIDE DEF committed
    <3> QED  BY <2>2, NoValuesAreClean DEF CleanSession
  <2> HIDE DEF committed
  <2> QED  BY <1>0, <2>1, <2>3 DEF CleanInv, Sessions
<1>7. CASE Complete(w)
  BY <1>0, <1>7 DEF Complete, Settle, CleanInv, Sessions
<1> QED  BY <1>2, <1>3, <1>4, <1>5, <1>6, <1>7 DEF Proceed

\* The buckets change at commits only, to what a clean session has written.
LEMMA BucketsAreClean ==
  ASSUME Typed, CleanInv, [Next]_vars
  PROVE  \A b \in Buckets : Clean(bucket'[b])
<1>1. CASE \E w \in Workers : Commit(w)
  <2>1. PICK w \in Workers : Commit(w)
    BY <1>1
  <2>2. CleanSession(session[w])
    BY <2>1 DEF Commit, Ready, CleanInv
  <2>3. \A b \in Buckets : bucket'[b] = IF b \in Given(session[w].written)
                                        THEN session[w].written[b] ELSE bucket[b]
    BY <2>1 DEF Commit
  <2> QED  BY <2>2, <2>3 DEF CleanInv, CleanSession, CleanRows, Given
<1>2. CASE ~\E w \in Workers : Commit(w)
  <2>1. bucket' = bucket
    BY <1>2 DEF Next, vars, Accept, CreateRun, QueueRebuild, Redact, Tick, Begin, BeginRun,
       BeginRebuild, BeginEvent, Proceed, RebuildNext, Read, Compare, Write, Complete, Lose,
       BreakDeadlock
  <2> QED  BY <2>1 DEF CleanInv
<1> QED  BY <1>1, <1>2

\* Every step keeps the invariant.
LEMMA CleanStep ==
  ASSUME Typed, CleanInv, [Next]_vars
  PROVE  CleanInv'
<1>1. \A o \in Workers : session'[o] # None => CleanSession(session'[o])
  <2>0. session \in Sessions
    BY DEF Typed, TypeOK, Sessions
  <2>1. ASSUME NEW w \in Workers, Lose(w) \/ BreakDeadlock(w)
        PROVE  \A o \in Workers : session'[o] # None => CleanSession(session'[o])
    BY <2>0, <2>1 DEF Lose, BreakDeadlock, Settle, CleanInv, Sessions
  <2>2. CASE UNCHANGED session
    BY <2>2 DEF CleanInv
  <2>3. UNCHANGED session \/ \E w \in Workers : Begin(w) \/ Proceed(w) \/ Lose(w)
                                                \/ BreakDeadlock(w)
    BY DEF Next, vars, Accept, CreateRun, QueueRebuild, Redact, Tick
  <2> QED  BY <2>1, <2>2, <2>3, BeginIsClean, ProceedIsClean
<1>2. \A b \in Buckets : Clean(bucket'[b])
  BY BucketsAreClean
<1>3. setting' = setting
  BY SettingStays
<1> QED  BY <1>1, <1>2, <1>3 DEF CleanInv, CleanSession, CleanRows, Clean

\* No bucket ever counts an event together with a correction of it: for any number of
\* events, handlers and attempts, and any order of their steps.
THEOREM CountedOnce == Spec => []NeverCountedTwice
<1>1. Init => Typed /\ CleanInv
  <2>1. ASSUME Init  PROVE CleanInv
    BY <2>1 DEF Init, CleanInv, Clean
  <2> QED  BY <2>1, InitIsTyped
<1>2. Typed /\ CleanInv /\ [Next]_vars => Typed' /\ CleanInv'
  BY TypedStep, CleanStep
<1>3. CleanInv => NeverCountedTwice
  BY DEF CleanInv, Clean, NeverCountedTwice
<1> QED  BY <1>1, <1>2, <1>3, PTL DEF Spec

-----------------------------------------------------------------------------
(* Why an accepted event fails.  Retention removes the properties of processed events  *)
(* only, and a processed event stays processed, because a session is the only one of  *)
(* its job and ends the job when it ends itself. *)

JobInv ==
  /\ \A e \in redacted : e \in Stored /\ job[e] = "done"
  /\ \A w \in Workers : session[w] # None =>
       /\ job[session[w].task] = "queued"
       /\ session[w].phase = "between" => session[w].task = Rebuild
  /\ \A w, o \in Workers :
       session[w] # None /\ session[o] # None /\ w # o => session[w].task # session[o].task
  /\ FailsForOlderEventsOnly

\* Every session is one there was before, with the job it had.
SameTasks ==
  \A o \in Workers : session'[o] # None =>
    /\ session[o] # None /\ session'[o].task = session[o].task
    /\ session'[o].phase = "between" =>
         session[o].phase = "between" \/ session[o].task = Rebuild

\* w has taken up a job that was free; the other sessions are as before.
TakesUp(w, j) ==
  /\ Claims(w, j)
  /\ \A o \in Workers \ {w} : session'[o] # None =>
       /\ session[o] # None /\ session'[o].task = session[o].task
       /\ session'[o].phase = session[o].phase
  /\ session'[w].task = j /\ (session'[w].phase = "between" => j = Rebuild)

\* The job that w has, or could take up, ends.
Ends(w, j) ==
  /\ session[w] # None => session[w].task = j
  /\ session[w] = None => Claims(w, j)
  /\ \E outcome \in {"done", "failed", "exhausted"} :
       /\ Settle(w, j, outcome)
       /\ outcome = "failed" /\ j \in Events =>
            SourceRedacted(j) \/ (setting.erased = "rejected" /\ redacted # {})

\* Only what ends a job, the API and operators write the jobs.
LEMMA SameTasksKeepsJobInv ==
  ASSUME Typed, JobInv, SameTasks, UNCHANGED <<setting, received, redacted, job>>
  PROVE  JobInv'
<1>1. \A w \in Workers : session'[w] # None =>
        /\ job'[session'[w].task] = "queued"
        /\ session'[w].phase = "between" => session'[w].task = Rebuild
  BY DEF SameTasks, JobInv
<1>2. \A w, o \in Workers :
        session'[w] # None /\ session'[o] # None /\ w # o => session'[w].task # session'[o].task
  BY DEF SameTasks, JobInv
<1>3. \A e \in redacted' : e \in Stored' /\ job'[e] = "done"
  BY DEF JobInv, Stored, stored
<1>4. FailsForOlderEventsOnly'
  BY DEF JobInv, FailsForOlderEventsOnly, stored
<1> QED  BY <1>1, <1>2, <1>3, <1>4 DEF JobInv

\* A free job is in no other session.
LEMMA TakingUpKeepsJobInv ==
  ASSUME Typed, JobInv, NEW w \in Workers, NEW j \in Jobs, TakesUp(w, j),
         UNCHANGED <<setting, received, redacted, job>>
  PROVE  JobInv'
<1>1. \A o \in Workers : session'[o] # None =>
        /\ job'[session'[o].task] = "queued"
        /\ session'[o].phase = "between" => session'[o].task = Rebuild
  BY DEF TakesUp, Claims, JobInv
<1>2. \A v, o \in Workers :
        session'[v] # None /\ session'[o] # None /\ v # o => session'[v].task # session'[o].task
  BY DEF TakesUp, Claims, JobInv
<1>3. \A e \in redacted' : e \in Stored' /\ job'[e] = "done"
  BY DEF JobInv, Stored, stored
<1>4. FailsForOlderEventsOnly'
  BY DEF JobInv, FailsForOlderEventsOnly, stored
<1> QED  BY <1>1, <1>2, <1>3, <1>4 DEF JobInv

\* A job that ends was open, so its event has its properties.
LEMMA EndingKeepsJobInv ==
  ASSUME Typed, JobInv, NEW w \in Workers, NEW j \in Jobs, Ends(w, j),
         UNCHANGED <<setting, received, redacted>>
  PROVE  JobInv'
<1> USE DEF Typed, TypeOK
<1>1. job[j] = "queued" /\ \A o \in Workers \ {w} : session[o] # None => session[o].task # j
  BY DEF Ends, Claims, JobInv
<1>2. PICK outcome \in {"done", "failed", "exhausted"} :
        /\ Settle(w, j, outcome)
        /\ outcome = "failed" /\ j \in Events =>
             SourceRedacted(j) \/ (setting.erased = "rejected" /\ redacted # {})
  BY DEF Ends
<1>3. /\ job' = [job EXCEPT ![j] = outcome]
      /\ session' = [session EXCEPT ![w] = None]
  BY <1>2 DEF Settle
<1>4. \A o \in Workers : session'[o] # None => o # w /\ session'[o] = session[o]
  BY <1>3
<1>5. \A o \in Workers : session'[o] # None =>
        /\ job'[session'[o].task] = "queued"
        /\ session'[o].phase = "between" => session'[o].task = Rebuild
  BY <1>1, <1>3, <1>4 DEF JobInv
<1>6. \A v, o \in Workers :
        session'[v] # None /\ session'[o] # None /\ v # o => session'[v].task # session'[o].task
  BY <1>4 DEF JobInv
<1>7. \A e \in redacted' : e # j /\ e \in Stored' /\ job'[e] = "done"
  BY <1>1, <1>3 DEF JobInv, Stored, stored
<1>8. FailsForOlderEventsOnly'
  <2> SUFFICES ASSUME NEW e \in Events, job'[e] = "failed"
               PROVE  \/ setting.of[e] \in redacted
                      \/ setting.erased = "rejected" /\ e \notin redacted /\ redacted # {}
    BY DEF FailsForOlderEventsOnly, stored
  <2>1. CASE e = j
    <3>1. outcome = "failed" /\ e \notin redacted
      BY <1>1, <1>3, <2>1 DEF JobInv
    <3> QED  BY <1>2, <2>1, <3>1 DEF SourceRedacted
  <2>2. CASE e # j
    <3>1. job[e] = "failed"
      BY <1>3, <2>2 DEF Jobs
    <3> QED  BY <3>1 DEF JobInv, FailsForOlderEventsOnly
  <2> QED  BY <2>1, <2>2
<1> QED  BY <1>5, <1>6, <1>7, <1>8 DEF JobInv

\* Accepting events, asking for runs and rebuilds, and retention keep the invariant.
LEMMA OutsideKeepsJobInv ==
  ASSUME Typed, JobInv,
         (\E e \in Events : Accept(e)) \/ CreateRun \/ QueueRebuild \/ Redact \/ Tick
  PROVE  JobInv'
<1> USE DEF Typed, TypeOK
<1>0. session' = session /\ setting' = setting
  BY DEF Accept, CreateRun, QueueRebuild, Redact, Tick
<1>1. ASSUME NEW j \in Jobs, job' = [job EXCEPT ![j] = "queued"], j \notin redacted,
             redacted' = redacted, \A e \in Stored : e \in Stored'
      PROVE  JobInv'
  <2>1. \A w \in Workers : session'[w] # None =>
          /\ job'[session'[w].task] = "queued"
          /\ session'[w].phase = "between" => session'[w].task = Rebuild
    <3>1. \A w \in Workers : session[w] # None => session[w].task \in Jobs
      BY DEF Session
    <3> QED  BY <1>0, <1>1, <3>1 DEF JobInv
  <2>2. \A w, o \in Workers :
          session'[w] # None /\ session'[o] # None /\ w # o
            => session'[w].task # session'[o].task
    BY <1>0 DEF JobInv
  <2>3. \A e \in redacted' : e \in Stored' /\ job'[e] = "done"
    BY <1>1 DEF JobInv, Jobs
  <2>4. FailsForOlderEventsOnly'
    BY <1>0, <1>1 DEF JobInv, FailsForOlderEventsOnly, Jobs
  <2> QED  BY <2>1, <2>2, <2>3, <2>4 DEF JobInv
<1>2. ASSUME NEW e \in Events, Accept(e)  PROVE JobInv'
  <2>1. PICK at \in now - MaxLag..now : at >= 0 /\ received' = [received EXCEPT ![e] = at]
    BY <1>2 DEF Accept
  <2>2. e \notin Stored /\ \A x \in Stored : x \in Stored'
    BY <1>2, <2>1 DEF Accept, Acceptable, Stored
  <2>3. e \in Jobs /\ e \notin redacted
    BY <2>2 DEF JobInv, Jobs
  <2> QED  BY <1>1, <1>2, <2>2, <2>3 DEF Accept
<1>3. CASE CreateRun
  <2>1. Run \in Jobs /\ Run \notin redacted
    BY ConstantsAssumption DEF Jobs
  <2> QED  BY <1>1, <1>3, <2>1 DEF CreateRun, stored, Stored
<1>4. CASE QueueRebuild
  <2>1. Rebuild \in Jobs /\ Rebuild \notin redacted
    BY ConstantsAssumption DEF Jobs
  <2> QED  BY <1>1, <1>4, <2>1 DEF QueueRebuild, stored, Stored
<1>5. CASE Redact
  <2>1. \A e \in redacted' : e \in Stored' /\ job'[e] = "done"
    BY <1>5 DEF Redact, Eligible, Stored, JobInv
  <2>2. FailsForOlderEventsOnly'
    BY <1>5, <2>1 DEF Redact, FailsForOlderEventsOnly, JobInv
  <2> QED  BY <1>0, <1>5, <2>1, <2>2 DEF JobInv, Redact
<1>6. CASE Tick
  BY <1>6 DEF Tick, stored, JobInv, FailsForOlderEventsOnly, Stored
<1> QED  BY <1>2, <1>3, <1>4, <1>5, <1>6

\* A handler that starts takes up its job, or ends it at once.
LEMMA BeginTakesUp ==
  ASSUME Typed, NEW w \in Workers, Begin(w)
  PROVE  \E j \in Jobs : \/ TakesUp(w, j) /\ UNCHANGED job
                         \/ Ends(w, j)
<1>0. session \in Sessions
  BY DEF Typed, TypeOK, Sessions
<1>1. ASSUME NEW e \in Events, BeginEvent(w, e)
      PROVE  (TakesUp(w, e) /\ UNCHANGED job) \/ Ends(w, e)
  <2>1. e \in Jobs /\ Claims(w, e)
    BY <1>1 DEF BeginEvent, Jobs
  <2>2. CASE SourceRedacted(e)
    <3>1. Settle(w, e, "failed")
      BY <1>1, <2>2 DEF BeginEvent, FailPermanently
    <3> QED  BY <2>1, <2>2, <3>1 DEF Ends, Claims
  <2>3. CASE ~SourceRedacted(e)
    <3>1. session' = [session EXCEPT ![w] = Processing(Opened(e), e)] /\ UNCHANGED job
      BY <1>1, <2>3 DEF BeginEvent, Claimed
    <3>2. Processing(Opened(e), e).task = e /\ Processing(Opened(e), e).phase = "open"
      BY DEF Processing, Opened
    <3> QED  BY <1>0, <2>1, <3>1, <3>2 DEF TakesUp, Sessions
  <2> QED  BY <2>2, <2>3
<1>2. ASSUME BeginRebuild(w)
      PROVE  (TakesUp(w, Rebuild) /\ UNCHANGED job) \/ Ends(w, Rebuild)
  <2>1. Claims(w, Rebuild) /\ Rebuild \notin Events
    BY <1>2, ConstantsAssumption DEF BeginRebuild
  <2>2. CASE redacted # {}
    <3>1. Settle(w, Rebuild, "failed")
      BY <1>2, <2>2 DEF BeginRebuild, FailPermanently
    <3> QED  BY <2>1, <3>1 DEF Ends, Claims
  <2>3. CASE redacted = {}
    <3> DEFINE opened == [Opened(Rebuild) EXCEPT !.left = Stored]
    <3>1. session' = [session EXCEPT ![w] = opened] /\ UNCHANGED job
      BY <1>2, <2>3 DEF BeginRebuild, Claimed
    <3>2. opened.task = Rebuild
      BY DEF Opened
    <3> HIDE DEF opened
    <3> QED  BY <1>0, <2>1, <3>1, <3>2 DEF TakesUp, Sessions
  <2> QED  BY <2>2, <2>3
<1>3. ASSUME BeginRun(w)  PROVE (TakesUp(w, Run) /\ UNCHANGED job) \/ Ends(w, Run)
  <2>1. Claims(w, Run) /\ Run \notin Events
    BY <1>3, ConstantsAssumption DEF BeginRun
  <2>2. CASE run # "completed" /\ EffectiveAt(watermark) \intersect redacted # {}
    <3>1. Settle(w, Run, "failed")
      BY <1>3, <2>2 DEF BeginRun, FailPermanently
    <3> QED  BY <2>1, <3>1 DEF Ends, Claims
  <2>3. CASE run # "completed" /\ EffectiveAt(watermark) \intersect redacted = {}
    <3> DEFINE met == {b \in Buckets : \E o \in Workers : Touches(o, b)}
               values == [b \in Buckets |-> Aggregate(EffectiveAt(watermark), b)]
               opened == [Opened(Run) EXCEPT !.plan = values, !.shared = met,
                                             !.phase = "compare"]
    <3>1. session' = [Shared(w, Buckets) EXCEPT ![w] = opened] /\ UNCHANGED job
      BY <1>3, <2>3 DEF BeginRun, Claimed
    <3>2. opened.task = Run /\ opened.phase = "compare"
      BY DEF Opened
    <3>3. Shared(w, Buckets) \in Sessions
          /\ \A o \in Workers :
               IF session[o] = None THEN Shared(w, Buckets)[o] = None
               ELSE /\ Shared(w, Buckets)[o].task = session[o].task
                    /\ Shared(w, Buckets)[o].phase = session[o].phase
      BY <1>0, SharedKeepsSessions
    <3> HIDE DEF opened
    <3> QED  BY <2>1, <3>1, <3>2, <3>3 DEF TakesUp, Sessions
  <2>4. CASE run = "completed"
    <3> DEFINE ended == [Opened(Run) EXCEPT !.phase = "committed"]
    <3>1. session' = [session EXCEPT ![w] = ended] /\ UNCHANGED job
      BY <1>3, <2>4 DEF BeginRun, Claimed
    <3>2. ended.task = Run /\ ended.phase = "committed"
      BY DEF Opened
    <3> HIDE DEF ended
    <3> QED  BY <1>0, <2>1, <3>1, <3>2 DEF TakesUp, Sessions
  <2> QED  BY <2>2, <2>3, <2>4
<1>4. Run \in Jobs /\ Rebuild \in Jobs /\ \A e \in Events : e \in Jobs
  BY DEF Jobs
<1> QED  BY <1>1, <1>2, <1>3, <1>4 DEF Begin

\* A handler that runs on keeps its job, or ends it.
LEMMA ProceedKeepsTasks ==
  ASSUME Typed, JobInv, NEW w \in Workers, Proceed(w) \/ Lose(w) \/ BreakDeadlock(w)
  PROVE  \/ SameTasks /\ UNCHANGED job
         \/ \E j \in Jobs : Ends(w, j)
<1>0. session \in Sessions
  BY DEF Typed, TypeOK, Sessions
<1>1. session[w] # None /\ session[w] \in Session /\ session[w].task \in Jobs
  <2>1. session[w] # None
    BY DEF Proceed, RebuildNext, Read, Compare, Write, Commit, Ready, Complete, Lose,
       BreakDeadlock, WaitsFor
  <2>2. session[w] \in Session
    BY <2>1, SessionIsTyped DEF Typed
  <2> QED  BY <2>1, <2>2 DEF Session
<1>2. ASSUME NEW s, session' = [session EXCEPT ![w] = s], s.task = session[w].task,
             s.phase = "between" => session[w].task = Rebuild
      PROVE  SameTasks
  BY <1>0, <1>1, <1>2 DEF SameTasks, Sessions
<1>3. ASSUME session' = [session EXCEPT ![w] = None]  PROVE SameTasks
  BY <1>0, <1>3 DEF SameTasks, Sessions
<1>4. CASE RebuildNext(w)
  <2>1. session[w].task = Rebuild /\ Rebuild \notin Events
    BY <1>1, <1>4, ConstantsAssumption DEF RebuildNext, JobInv
  <2>2. PICK e \in session[w].left :
          \/ FailPermanently(w, Rebuild)
          \/ /\ session' = [session EXCEPT
                              ![w] = [Processing(session[w], e) EXCEPT !.left = @ \ {e}]]
             /\ UNCHANGED job
    BY <1>4 DEF RebuildNext
  <2>3. CASE FailPermanently(w, Rebuild)
    <3>1. Ends(w, Rebuild)
      BY <1>1, <2>1, <2>3 DEF Ends, FailPermanently
    <3> QED  BY <3>1 DEF Jobs
  <2>4. CASE ~FailPermanently(w, Rebuild)
    <3> DEFINE next == [Processing(session[w], e) EXCEPT !.left = @ \ {e}]
    <3>1. next.task = session[w].task /\ next.phase = "open"
      BY <1>1 DEF Processing, Session
    <3>2. session' = [session EXCEPT ![w] = next] /\ UNCHANGED job
      BY <2>2, <2>4
    <3> HIDE DEF next
    <3> QED  BY <1>2, <3>1, <3>2
  <2> QED  BY <2>3, <2>4
<1>5. CASE Read(w)
  <2> DEFINE b == Head(session[w].todo)
  <2>1. b \in Buckets
    BY <1>1, <1>5 DEF Session, Read
  <2>2. CASE AggregateThrows(Effective, b)
    <3>1. Settle(w, session[w].task, "failed")
      BY <1>5, <2>2 DEF Read, FailPermanently
    <3>2. setting.erased = "rejected" /\ redacted # {}
      BY <2>2 DEF AggregateThrows
    <3> QED  BY <1>1, <3>1, <3>2 DEF Ends
  <2>3. CASE ~AggregateThrows(Effective, b)
    <3> DEFINE planned == [Shared(w, {b})[w] EXCEPT !.todo = Tail(@),
                                                    !.plan[b] = Aggregate(Effective, b)]
    <3>1. session' = [Shared(w, {b}) EXCEPT ![w] = planned] /\ UNCHANGED job
      BY <1>5, <2>3, ReadPlans DEF Read
    <3>2. Shared(w, {b}) \in Sessions
          /\ \A o \in Workers :
               IF session[o] = None THEN Shared(w, {b})[o] = None
               ELSE /\ Shared(w, {b})[o] \in Session
                    /\ Shared(w, {b})[o].task = session[o].task
                    /\ Shared(w, {b})[o].phase = session[o].phase
      BY <1>0, <2>1, SharedKeepsSessions
    <3>3. planned.task = session[w].task /\ planned.phase = session[w].phase
      BY <1>1, <3>2 DEF Session
    <3> HIDE DEF planned
    <3> QED  BY <1>1, <3>1, <3>2, <3>3 DEF SameTasks, Sessions
  <2> QED  BY <2>2, <2>3
<1>6. CASE Compare(w)
  <2>1. PICK p \in Values :
          session' = [session EXCEPT ![w] = [session[w] EXCEPT !.plan = p, !.phase = "open"]]
    <3>1. PICK p \in Values :
            /\ \A b \in Buckets : p[b] \in {None, session[w].plan[b]}
            /\ session' = [session EXCEPT ![w] = [session[w] EXCEPT !.plan = p, !.phase = "open"]]
      BY <1>6, CompareKeepsPlans, Zenon
    <3> QED  BY <3>1
  <2> DEFINE compared == [session[w] EXCEPT !.plan = p, !.phase = "open"]
  <2>2. compared.task = session[w].task /\ compared.phase = "open"
    BY <1>1 DEF Session
  <2> HIDE DEF compared
  <2> QED  BY <1>2, <1>6, <2>1, <2>2 DEF Compare, compared
<1>7. ASSUME NEW b \in Buckets, Write(w, b)  PROVE SameTasks /\ UNCHANGED job
  <2>1. PICK p, q \in Values :
          /\ p = [session[w].plan EXCEPT ![b] = None]
          /\ q \in {session[w].written, [session[w].written EXCEPT ![b] = session[w].plan[b]]}
          /\ session' = [session EXCEPT ![w] = [session[w] EXCEPT !.plan = p, !.written = q]]
    BY <1>7, WriteMovesPlan, Zenon
  <2> DEFINE rewritten == [session[w] EXCEPT !.plan = p, !.written = q]
  <2>2. rewritten.task = session[w].task /\ rewritten.phase = "open"
    BY <1>1, <1>7 DEF Session, Write
  <2> HIDE DEF rewritten
  <2> QED  BY <1>2, <1>7, <2>1, <2>2 DEF Write, rewritten
<1>8. CASE Commit(w)
  <2> DEFINE s == session[w]
             phase == IF s.task = Rebuild THEN "between" ELSE "committed"
             committed == [Opened(s.task) EXCEPT !.left = s.left, !.phase = phase]
  <2>1. session' = [session EXCEPT ![w] = committed] /\ UNCHANGED job
    BY <1>8 DEF Commit
  <2>2. committed.task = s.task /\ committed.phase = phase
    BY DEF Opened
  <2> HIDE DEF committed
  <2> QED  BY <1>2, <2>1, <2>2
<1>9. CASE Complete(w)
  <2>1. Ends(w, session[w].task)
    BY <1>1, <1>9 DEF Complete, Ends
  <2> QED  BY <1>1, <2>1
<1>10. CASE Lose(w)
  BY <1>3, <1>10 DEF Lose
<1>11. CASE BreakDeadlock(w)
  <2>1. CASE Settle(w, session[w].task, "exhausted")
    <3>1. Ends(w, session[w].task)
      BY <1>1, <2>1 DEF Ends
    <3> QED  BY <1>1, <3>1
  <2>2. CASE ~Settle(w, session[w].task, "exhausted")
    BY <1>3, <1>11, <2>2 DEF BreakDeadlock
  <2> QED  BY <2>1, <2>2
<1> QED  BY <1>4, <1>5, <1>6, <1>7, <1>8, <1>9, <1>10, <1>11 DEF Proceed

\* Every step keeps the invariant.
LEMMA JobStep ==
  ASSUME Typed, JobInv, [Next]_vars
  PROVE  JobInv'
<1>1. CASE UNCHANGED vars
  BY <1>1 DEF vars, stored, JobInv, FailsForOlderEventsOnly, Stored
<1>2. CASE (\E e \in Events : Accept(e)) \/ CreateRun \/ QueueRebuild \/ Redact \/ Tick
  BY <1>2, OutsideKeepsJobInv
<1>3. ASSUME NEW w \in Workers, Begin(w)  PROVE JobInv'
  <2>1. UNCHANGED <<setting, received, redacted>>
    BY <1>3 DEF Begin, BeginEvent, BeginRebuild, BeginRun, stored
  <2> QED  BY <1>3, <2>1, BeginTakesUp, TakingUpKeepsJobInv, EndingKeepsJobInv
<1>4. ASSUME NEW w \in Workers, Proceed(w) \/ Lose(w) \/ BreakDeadlock(w)  PROVE JobInv'
  <2>1. UNCHANGED <<setting, received, redacted>>
    BY <1>4 DEF Proceed, RebuildNext, Read, Compare, Write, Commit, Complete, Lose,
       BreakDeadlock, stored
  <2> QED  BY <1>4, <2>1, ProceedKeepsTasks, SameTasksKeepsJobInv, EndingKeepsJobInv
<1> QED  BY <1>1, <1>2, <1>3, <1>4 DEF Next

\* Processing fails for good only for what happened to older events, whatever retention,
\* rebuilds, runs and losses do.
THEOREM FailuresAreOld == Spec => []FailsForOlderEventsOnly
<1>1. Init => Typed /\ JobInv
  <2>1. ASSUME Init  PROVE JobInv
    BY <2>1 DEF Init, JobInv, FailsForOlderEventsOnly, Jobs
  <2> QED  BY <2>1, InitIsTyped
<1>2. Typed /\ JobInv /\ [Next]_vars => Typed' /\ JobInv'
  BY TypedStep, JobStep
<1>3. JobInv => FailsForOlderEventsOnly
  BY DEF JobInv
<1> QED  BY <1>1, <1>2, <1>3, PTL DEF Spec

-----------------------------------------------------------------------------
(* Buckets without a race are exact.  A bucket is written from what was read long before, *)
(* so the invariant says of every value on its way, and of every row, which events it   *)
(* takes account of: those that had been read for this bucket when it was read.         *)

\* The content of a bucket if S were all the events there are.
EffectiveOf(S) ==
  {e \in S : e \notin setting.reversals /\ ~\E c \in S : setting.of[c] = e}

Content(S, b) == Within(EffectiveOf(S), b)

Affects(e, b) == b \in {Affected(e)[i] : i \in DOMAIN Affected(e)}

\* The buckets a session has yet to read, and its values for one it has read.
Ahead(s) == {s.todo[i] : i \in DOMAIN s.todo}

Held(s, b) == {s.plan[b], s.written[b]} \ {None}

\* The processing of an event has read a bucket; it is done with it, in this transaction
\* or for good.
HasRead(e, b) ==
  \/ job[e] = "done"
  \/ \E w \in Workers : session[w] # None /\ session[w].task = e /\ b \notin Ahead(session[w])

Passed(e, b) ==
  \/ job[e] = "done"
  \/ \E w \in Workers : /\ session[w] # None /\ session[w].task = e
                        /\ b \notin Ahead(session[w]) /\ Held(session[w], b) = {}

\* A session's value for a bucket takes account of the event it processes and, unless it met
\* another session there, of all events that have been read for it; a run, of those up to its
\* watermark.
Snapshot(s, b, v) ==
  \E S \in SUBSET Stored :
    /\ v = Content(S, b)
    /\ s.task \in Events => s.task \in S
    /\ b \notin s.shared =>
         \A e \in Stored \ S : Affects(e, b) /\ HasRead(e, b) =>
                                 s.task = Run /\ ~(received[e] <= watermark)

\* A row takes account of all events that are done with it.
RowIsExact(b) ==
  b \notin raced =>
    \E S \in SUBSET Stored :
      /\ bucket[b] = Content(S, b)
      /\ \A e \in Stored : Affects(e, b) /\ Passed(e, b) => e \in S

\* Between transactions a session has read and written nothing; only runs compare.
Quiet(s) ==
  /\ s.phase \in {"between", "committed"} =>
       s.todo = <<>> /\ s.plan = NoValues /\ s.written = NoValues
  /\ s.phase = "compare" => s.task = Run

SessionIsExact(s) ==
  Quiet(s) /\ \A b \in Buckets : \A v \in Held(s, b) : Snapshot(s, b, v)

ClockInv ==
  /\ \A e \in Stored : received[e] <= now
  /\ \A e \in Events : job[e] # "none" => e \in Stored
  /\ job[Run] # "none" => watermark \in Nat
  /\ "retain" \notin setting.occurs => redacted = {}

ExactInv ==
  /\ ClockInv
  /\ \A w \in Workers : session[w] # None => SessionIsExact(session[w])
  /\ \A b \in Buckets : RowIsExact(b)

\* A meter that skips events without properties cannot be exact once there are some.
NothingIsSkipped == \A s \in Settings : s.erased = "skipped" => "retain" \notin s.occurs

\* An event affects its own bucket, and that of the event it corrects.
LEMMA AffectsOwn ==
  ASSUME setting \in Setting, NEW e \in Events, NEW b \in Buckets, setting.bucket[e] = b
  PROVE  Affects(e, b)
<1> DEFINE x == setting.bucket[setting.of[e]]
<1>1. b # None
  BY ConstantsAssumption
<1>2. CASE Affected(e) = <<b>>
  BY <1>2 DEF Affects
<1>3. CASE Affected(e) = Append(<<b>>, x)
  <2> HIDE DEF x
  <2>1. Append(<<b>>, x)[1] = b /\ 1 \in DOMAIN Append(<<b>>, x)
    OBVIOUS
  <2> QED  BY <1>3, <2>1 DEF Affects
<1> QED  BY <1>1, <1>2, <1>3 DEF Affected

LEMMA AffectsCorrected ==
  ASSUME setting \in Setting, NEW c \in Events, NEW e \in Events, NEW b \in Buckets,
         setting.of[c] = e, setting.bucket[e] = b
  PROVE  Affects(c, b)
<1> DEFINE own == IF setting.bucket[c] = None THEN <<>> ELSE <<setting.bucket[c]>>
<1>1. b # None /\ e # None
  BY ConstantsAssumption
<1>2. CASE setting.bucket[c] = b
  BY <1>2, AffectsOwn
<1>3. CASE setting.bucket[c] # b
  <2>1. Affected(c) = Append(own, b)
    BY <1>1, <1>3 DEF Affected
  <2>2. setting.bucket[c] \in Buckets \union {None}
    BY DEF Setting
  <2>3. own \in Seq(Buckets)
    BY <2>2
  <2>4. Append(own, b)[Len(own) + 1] = b /\ Len(own) + 1 \in DOMAIN Append(own, b)
    <3> HIDE DEF own
    <3> QED  BY <2>3
  <2> HIDE DEF own
  <2> QED  BY <2>1, <2>4 DEF Affects
<1> QED  BY <1>2, <1>3

\* The content of a bucket is decided by the events that affect it.
LEMMA ContentIsDecided ==
  ASSUME setting \in Setting, NEW S \in SUBSET Stored, NEW b \in Buckets,
         \A e \in Stored : Affects(e, b) => e \in S
  PROVE  Content(S, b) = Content(Stored, b)
<1>0. Stored \subseteq Events
  BY DEF Stored
<1>1. \A e \in Stored : setting.bucket[e] = b => e \in S
  BY <1>0, AffectsOwn
<1>2. \A c, e \in Stored : setting.of[c] = e /\ setting.bucket[e] = b => c \in S
  BY <1>0, AffectsCorrected
<1> QED  BY <1>1, <1>2 DEF Content, Within, EffectiveOf

\* Two sets of events that leave a bucket empty do so together.
LEMMA EmptyTogether ==
  ASSUME NEW S, NEW T, NEW b, Content(S, b) = {}, Content(T, b) = {}
  PROVE  Content(S \union T, b) = {}
BY DEF Content, Within, EffectiveOf

\* What a statement reads is the content of the bucket, now or up to a watermark.
LEMMA EffectiveIsContent ==
  ASSUME Typed, ClockInv
  PROVE  /\ Effective = EffectiveOf(Stored)
         /\ \A at : EffectiveAt(at) = EffectiveOf({e \in Stored : received[e] <= at})
BY DEF ClockInv, Effective, EffectiveAt, EffectiveOf

\* Values keep what they take account of as long as no other session reads the bucket unseen.
LEMMA SnapshotStays ==
  ASSUME NEW s, NEW t, NEW b, NEW v, Snapshot(s, b, v),
         setting' = setting, watermark' = watermark \/ s.task # Run,
         \A e \in Stored : e \in Stored' /\ received'[e] = received[e],
         t.task = s.task, b \in s.shared => b \in t.shared,
         \/ b \in t.shared
         \/ \A e \in Stored' : Affects(e, b) /\ HasRead(e, b)' =>
              e \in Stored /\ (HasRead(e, b) \/ e = s.task)
  PROVE  Snapshot(t, b, v)'
<1>1. PICK S \in SUBSET Stored :
         /\ v = Content(S, b)
         /\ s.task \in Events => s.task \in S
         /\ b \notin s.shared =>
              \A e \in Stored \ S : Affects(e, b) /\ HasRead(e, b) =>
                                      s.task = Run /\ ~(received[e] <= watermark)
  BY DEF Snapshot
<1>2. S \in SUBSET Stored' /\ v = Content(S, b)'
  BY <1>1 DEF Content, Within, EffectiveOf
<1>3. \A e : Affects(e, b)' <=> Affects(e, b)
  BY DEF Affects, Affected
<1>4. ASSUME b \notin t.shared, NEW e \in Stored' \ S, Affects(e, b)', HasRead(e, b)'
      PROVE  t.task = Run /\ ~(received'[e] <= watermark')
  <2>1. e \in Stored /\ (HasRead(e, b) \/ e = s.task)
    BY <1>3, <1>4
  <2>2. e \in Events
    BY <2>1 DEF Stored
  <2>3. e # s.task
    BY <1>1, <1>4, <2>2
  <2> QED  BY <1>1, <1>3, <1>4, <2>1, <2>3
<1> QED  BY <1>1, <1>2, <1>4 DEF Snapshot

\* Rows that are not written keep it as long as no other event is done with them.
LEMMA RowStays ==
  ASSUME NEW b, RowIsExact(b), bucket'[b] = bucket[b], b \notin raced' => b \notin raced,
         setting' = setting, \A e \in Stored : e \in Stored',
         \A e \in Stored' : Affects(e, b) /\ Passed(e, b)' => e \in Stored /\ Passed(e, b)
  PROVE  RowIsExact(b)'
<1> SUFFICES ASSUME b \notin raced'
             PROVE  \E S \in SUBSET Stored' :
                      /\ bucket'[b] = Content(S, b)'
                      /\ \A e \in Stored' : Affects(e, b)' /\ Passed(e, b)' => e \in S
  BY DEF RowIsExact
<1>1. PICK S \in SUBSET Stored :
         /\ bucket[b] = Content(S, b)
         /\ \A e \in Stored : Affects(e, b) /\ Passed(e, b) => e \in S
  BY DEF RowIsExact
<1>2. Content(S, b)' = Content(S, b) /\ S \in SUBSET Stored'
  BY DEF Content, Within, EffectiveOf
<1>3. \A e : Affects(e, b)' <=> Affects(e, b)
  BY DEF Affects, Affected
<1> QED  BY <1>1, <1>2, <1>3

\* A session that starts, and one that neither reads nor lets go of anything.
Fresh(t) ==
  /\ Quiet(t) /\ t.plan = NoValues /\ t.written = NoValues
  /\ t.task \in Events => \A b \in Buckets : Affects(t.task, b) => b \in Ahead(t)

GoesOn(s, t) ==
  /\ t.task = s.task /\ Ahead(t) = Ahead(s) /\ s.shared \subseteq t.shared /\ Quiet(t)
  /\ \A b \in Buckets :
       /\ Held(t, b) \subseteq Held(s, b)
       /\ s.task \in Events /\ Held(t, b) = {} => Held(s, b) = {}

\* Whoever has read nothing holds nothing.
LEMMA NothingHeld ==
  ASSUME NEW s, s.plan = NoValues, s.written = NoValues, NEW b \in Buckets
  PROVE  Held(s, b) = {}
BY DEF Held, NoValues

\* No event is read for a bucket, or done with it, but by a session that goes on.
LEMMA ReadsStay ==
  ASSUME setting' = setting, NEW b \in Buckets, NEW e \in Events, Affects(e, b),
         job'[e] = "done" => HasRead(e, b),
         \A o \in Workers : session'[o] # None /\ session'[o].task = e =>
           \/ Fresh(session'[o])
           \/ session[o] # None /\ GoesOn(session[o], session'[o]),
         HasRead(e, b)'
  PROVE  HasRead(e, b)
<1>1. CASE job'[e] = "done"
  BY <1>1
<1>2. ASSUME NEW o \in Workers, session'[o] # None, session'[o].task = e,
             b \notin Ahead(session'[o])
      PROVE  HasRead(e, b)
  BY <1>2 DEF Fresh, GoesOn, HasRead
<1>3. job'[e] = "done" \/ \E o \in Workers : session'[o] # None /\ session'[o].task = e
                                             /\ b \notin Ahead(session'[o])
  BY DEF HasRead, Ahead
<1> QED  BY <1>1, <1>2, <1>3

LEMMA PassesStay ==
  ASSUME setting' = setting, NEW b \in Buckets, NEW e \in Events, Affects(e, b),
         job'[e] = "done" => Passed(e, b),
         \A o \in Workers : session'[o] # None /\ session'[o].task = e =>
           \/ Fresh(session'[o])
           \/ session[o] # None /\ GoesOn(session[o], session'[o]),
         Passed(e, b)'
  PROVE  Passed(e, b)
<1>1. CASE job'[e] = "done"
  BY <1>1
<1>2. ASSUME NEW o \in Workers, session'[o] # None, session'[o].task = e,
             b \notin Ahead(session'[o]), Held(session'[o], b) = {}
      PROVE  Passed(e, b)
  BY <1>2 DEF Fresh, GoesOn, Passed
<1>3. job'[e] = "done" \/ \E o \in Workers : session'[o] # None /\ session'[o].task = e
                                             /\ b \notin Ahead(session'[o])
                                             /\ Held(session'[o], b) = {}
  BY DEF Passed, Ahead, Held
<1> QED  BY <1>1, <1>2, <1>3

\* A job that is done now was done, or its handler has committed.
CompletesAsCommitted ==
  \A e \in Events : job'[e] = "done" =>
    \/ job[e] = "done"
    \/ \E w \in Workers : session[w] # None /\ session[w].task = e
                          /\ session[w].phase = "committed"

LEMMA CommittedHasPassed ==
  ASSUME ExactInv, NEW e \in Events, NEW b \in Buckets, job'[e] = "done", CompletesAsCommitted
  PROVE  HasRead(e, b) /\ Passed(e, b)
<1>1. CASE job[e] = "done"
  BY <1>1 DEF HasRead, Passed
<1>2. ASSUME NEW w \in Workers, session[w] # None, session[w].task = e,
             session[w].phase = "committed"
      PROVE  HasRead(e, b) /\ Passed(e, b)
  <2>1. /\ session[w].todo = <<>>
        /\ session[w].plan = NoValues /\ session[w].written = NoValues
    BY <1>2 DEF ExactInv, SessionIsExact, Quiet
  <2>2. Ahead(session[w]) = {} /\ Held(session[w], b) = {}
    BY <2>1, NothingHeld DEF Ahead
  <2> QED  BY <1>2, <2>2 DEF HasRead, Passed
<1> QED  BY <1>1, <1>2 DEF CompletesAsCommitted

\* Sessions that start, go on or end keep everything exact.
LEMMA SessionsMove ==
  ASSUME Typed, ExactInv, ClockInv',
         UNCHANGED <<setting, received, watermark, bucket, raced>>,
         CompletesAsCommitted,
         \A o \in Workers : session'[o] # None =>
           \/ Fresh(session'[o])
           \/ session[o] # None /\ GoesOn(session[o], session'[o])
  PROVE  ExactInv'
<1>0. Stored' = Stored /\ Stored \subseteq Events
  BY DEF Stored
<1>1. ASSUME NEW b \in Buckets, NEW e \in Stored, Affects(e, b)
      PROVE  /\ HasRead(e, b)' => HasRead(e, b)
             /\ Passed(e, b)' => Passed(e, b)
  <2>1. e \in Events
    BY <1>0
  <2>2. job'[e] = "done" => HasRead(e, b) /\ Passed(e, b)
    BY <2>1, CommittedHasPassed
  <2>3. HasRead(e, b)' => HasRead(e, b)
    BY <1>1, <2>1, <2>2, ReadsStay
  <2>4. Passed(e, b)' => Passed(e, b)
    BY <1>1, <2>1, <2>2, PassesStay
  <2> QED  BY <2>3, <2>4
<1>2. ASSUME NEW o \in Workers, session'[o] # None
      PROVE  SessionIsExact(session[o])'
  <2>1. CASE Fresh(session'[o])
    <3>1. Quiet(session[o])'
      BY <2>1 DEF Fresh, Quiet
    <3>2. \A b \in Buckets : Held(session[o], b)' = {}
      BY <2>1 DEF Fresh, Held, NoValues
    <3> QED  BY <3>1, <3>2 DEF SessionIsExact
  <2>2. CASE session[o] # None /\ GoesOn(session[o], session'[o])
    <3>1. Quiet(session[o])'
      BY <2>2 DEF GoesOn, Quiet
    <3>2. ASSUME NEW b \in Buckets, NEW v \in Held(session[o], b)'
          PROVE  Snapshot(session[o], b, v)'
      <4>1. Snapshot(session[o], b, v)
        BY <2>2, <3>2 DEF GoesOn, ExactInv, SessionIsExact, Held
      <4>2. session'[o].task = session[o].task
            /\ (b \in session[o].shared => b \in session'[o].shared)
        BY <2>2 DEF GoesOn
      <4> QED  BY <1>0, <1>1, <4>1, <4>2, SnapshotStays
    <3> QED  BY <3>1, <3>2 DEF SessionIsExact
  <2> QED  BY <1>2, <2>1, <2>2
<1>3. ASSUME NEW b \in Buckets  PROVE RowIsExact(b)'
  BY <1>0, <1>1, RowStays DEF ExactInv
<1> QED  BY <1>2, <1>3 DEF ExactInv

\* Jobs of events are completed after the commit of their handler only.
LEMMA JobsComplete ==
  ASSUME Typed, JobInv, [Next]_vars
  PROVE  CompletesAsCommitted
<1> SUFFICES ASSUME NEW e \in Events, job'[e] = "done", job[e] # "done"
             PROVE  \E w \in Workers : session[w] # None /\ session[w].task = e
                                       /\ session[w].phase = "committed"
  BY DEF CompletesAsCommitted
<1>0. e \in Jobs /\ e # Rebuild /\ job \in [Jobs -> {"none", "queued", "done", "failed", "exhausted"}]
  BY ConstantsAssumption DEF Jobs, Typed, TypeOK
<1>1. ASSUME NEW w \in Workers, Complete(w)
      PROVE  session[w] # None /\ session[w].task = e /\ session[w].phase = "committed"
  <2>1. job' = [job EXCEPT ![session[w].task] = "done"]
    BY <1>1 DEF Complete, Settle
  <2>2. session[w].task = e
    BY <1>0, <2>1
  <2>3. session[w] # None /\ session[w].phase # "between"
    BY <1>0, <1>1, <2>2 DEF Complete, JobInv
  <2> QED  BY <1>1, <2>2, <2>3 DEF Complete
<1>2. ASSUME NEW j, NEW x \in {"queued", "failed", "exhausted"}, job' = [job EXCEPT ![j] = x]
      PROVE  FALSE
  BY <1>0, <1>2
<1>3. CASE UNCHANGED vars \/ (\E a \in Events : Accept(a)) \/ CreateRun \/ QueueRebuild \/ Redact
           \/ Tick
  BY <1>2, <1>3 DEF vars, Accept, CreateRun, QueueRebuild, Redact, Tick
<1>4. ASSUME NEW w \in Workers, Begin(w)  PROVE FALSE
  BY <1>2, <1>4 DEF Begin, BeginEvent, BeginRebuild, BeginRun, FailPermanently, Settle, Claimed
<1>5. ASSUME NEW w \in Workers, Proceed(w) \/ Lose(w) \/ BreakDeadlock(w), ~Complete(w)
      PROVE  FALSE
  BY <1>2, <1>5 DEF Proceed, RebuildNext, Read, Compare, Write, Commit, Lose, BreakDeadlock,
     FailPermanently, Settle
<1> QED  BY <1>1, <1>3, <1>4, <1>5 DEF Next

\* The clock goes on, and jobs are queued for what is stored.
LEMMA ClockStep ==
  ASSUME Typed, JobInv, ClockInv, [Next]_vars
  PROVE  ClockInv'
<1>0. /\ now \in Nat /\ received \in [Events -> Nat \union {None}]
      /\ job \in [Jobs -> {"none", "queued", "done", "failed", "exhausted"}]
      /\ Run \in Jobs /\ Rebuild \in Jobs /\ \A e \in Events : e \in Jobs /\ e # Run /\ e # Rebuild
      /\ Run # Rebuild
  BY ConstantsAssumption DEF Typed, TypeOK, Jobs
<1>1. setting' = setting
  BY SettingStays
<1>2. CASE \E e \in Events : Accept(e)
  <2>1. PICK e \in Events : Accept(e)
    BY <1>2
  <2>2. PICK at \in now - MaxLag..now : at >= 0 /\ received' = [received EXCEPT ![e] = at]
    BY <2>1 DEF Accept
  <2>3. at \in Nat /\ at <= now /\ at # None
    BY <1>0, <2>2, ConstantsAssumption
  <2>4. Stored' = Stored \union {e}
    BY <1>0, <2>2, <2>3 DEF Stored
  <2>5. \A x \in Stored' : received'[x] <= now
    BY <1>0, <2>2, <2>3, <2>4 DEF ClockInv, Stored
  <2>6. \A x \in Events : job'[x] # "none" => x \in Stored'
    BY <1>0, <2>1, <2>4 DEF ClockInv, Accept
  <2> QED  BY <1>0, <1>1, <2>1, <2>5, <2>6 DEF ClockInv, Accept
<1>3. CASE CreateRun \/ QueueRebuild
  BY <1>0, <1>1, <1>3 DEF CreateRun, QueueRebuild, ClockInv, Stored, stored
<1>4. CASE Redact \/ Tick \/ UNCHANGED vars
  <2>1. Stored' = Stored /\ UNCHANGED <<received, job, watermark>>
    BY <1>4 DEF Redact, Tick, vars, stored, Stored
  <2>2. now' \in Nat /\ now <= now'
    BY <1>0, <1>4 DEF Redact, Tick, vars
  <2>3. \A e \in Stored : received[e] \in Nat
    BY <1>0 DEF Stored
  <2>4. \A e \in Stored' : received'[e] <= now'
    BY <1>0, <2>1, <2>2, <2>3 DEF ClockInv
  <2>5. "retain" \notin setting.occurs => redacted' = {}
    BY <1>4 DEF Redact, Tick, vars, stored, ClockInv
  <2> QED  BY <1>1, <2>1, <2>4, <2>5 DEF ClockInv
<1>5. ASSUME NEW w \in Workers, Begin(w) \/ Proceed(w) \/ Lose(w) \/ BreakDeadlock(w)
      PROVE  ClockInv'
  <2>1. UNCHANGED <<now, received, redacted, watermark>>
    BY <1>5 DEF Begin, BeginEvent, BeginRebuild, BeginRun, Proceed, RebuildNext, Read, Compare,
       Write, Commit, Complete, Lose, BreakDeadlock, stored
  <2>2. \A j \in Jobs : job'[j] # "none" => job[j] # "none"
    <3>1. CASE UNCHANGED job
      BY <3>1
    <3>2. ASSUME NEW j \in Jobs, Ends(w, j) \/ \E o \in Workers : Ends(o, j)
          PROVE  \A i \in Jobs : job'[i] # "none" => job[i] # "none"
      <4>1. job[j] # "none"
        BY <3>2 DEF Ends, Claims, JobInv
      <4>2. PICK x : job' = [job EXCEPT ![j] = x]
        BY <3>2 DEF Ends, Settle
      <4> QED  BY <1>0, <4>1, <4>2
    <3> QED  BY <1>5, <3>1, <3>2, BeginTakesUp, ProceedKeepsTasks
  <2> QED  BY <1>0, <1>1, <2>1, <2>2 DEF ClockInv, Stored
<1> QED  BY <1>2, <1>3, <1>4, <1>5 DEF Next

\* One session starts, goes on or ends.
LEMMA OneMoves ==
  ASSUME Typed, JobInv, ExactInv, [Next]_vars, NEW w \in Workers, NEW t,
         session' = [session EXCEPT ![w] = t],
         UNCHANGED <<setting, received, watermark, bucket, raced>>,
         t = None \/ Fresh(t) \/ (session[w] # None /\ GoesOn(session[w], t))
  PROVE  ExactInv'
<1>1. ASSUME NEW o \in Workers, session'[o] # None
      PROVE  Fresh(session'[o]) \/ (session[o] # None /\ GoesOn(session[o], session'[o]))
  <2>0. session \in Sessions
    BY DEF Typed, TypeOK, Sessions
  <2>1. CASE o = w
    BY <1>1, <2>0, <2>1 DEF Sessions
  <2>2. CASE o # w
    <3>1. session'[o] = session[o]
      BY <2>0, <2>2 DEF Sessions
    <3>2. Quiet(session[o])
      BY <1>1, <3>1 DEF ExactInv, SessionIsExact
    <3> QED  BY <1>1, <3>1, <3>2 DEF GoesOn
  <2> QED  BY <2>1, <2>2
<1>2. CompletesAsCommitted /\ ClockInv'
  BY JobsComplete, ClockStep DEF ExactInv
<1> QED  BY <1>1, <1>2, SessionsMove

\* The session that takes up an event has all its buckets ahead.
LEMMA ProcessingIsFresh ==
  ASSUME setting \in Setting, NEW s \in Session, NEW e \in Events, s.plan = NoValues,
         s.written = NoValues, s.task = e \/ s.task \notin Events
  PROVE  Fresh(Processing(s, e))
<1> DEFINE p == Processing(s, e)
<1>1. /\ p \in Session /\ p.plan = NoValues /\ p.written = NoValues /\ p.task = s.task
  BY ProcessingIsTyped
<1>2. p.todo = Affected(e) /\ p.phase = "open"
  BY DEF Processing, Session
<1> HIDE DEF p
<1>3. Quiet(p)
  BY <1>2 DEF Quiet
<1>4. p.task \in Events => \A b \in Buckets : Affects(p.task, b) => b \in Ahead(p)
  BY <1>1, <1>2 DEF Affects, Ahead
<1> QED  BY <1>1, <1>3, <1>4 DEF Fresh, p

\* The session of a rebuild with its page, and that of a run that is completed already.
LEMMA OpenedIsFresh ==
  ASSUME NEW E \in SUBSET Events
  PROVE  /\ Fresh([Opened(Rebuild) EXCEPT !.left = E])
         /\ Fresh([Opened(Run) EXCEPT !.phase = "committed"])
<1>1. Run \notin Events /\ Rebuild \notin Events
  BY ConstantsAssumption
<1> QED  BY <1>1 DEF Fresh, Quiet, Opened

\* The next event of a rebuild.
LEMMA NextIsFresh ==
  ASSUME Typed, JobInv, ExactInv, NEW w \in Workers, session[w] # None,
         session[w].phase = "between", NEW e \in Events
  PROVE  Fresh([Processing(session[w], e) EXCEPT !.left = @ \ {e}])
<1> DEFINE p == Processing(session[w], e)
           n == [p EXCEPT !.left = @ \ {e}]
<1>1. session[w] \in Session /\ session[w].task = Rebuild /\ Rebuild \notin Events
  BY SessionIsTyped, ConstantsAssumption DEF Typed, JobInv
<1>2. session[w].plan = NoValues /\ session[w].written = NoValues
  BY DEF ExactInv, SessionIsExact, Quiet
<1>3. Fresh(p) /\ p \in Session /\ p.task = Rebuild
  BY <1>1, <1>2, ProcessingIsFresh, ProcessingIsTyped DEF Typed
<1> HIDE DEF p
<1>4. /\ n.plan = p.plan /\ n.written = p.written /\ n.task = p.task
      /\ n.phase = p.phase /\ n.todo = p.todo
  BY <1>3 DEF Session
<1> HIDE DEF n
<1> QED  BY <1>1, <1>3, <1>4 DEF Fresh, Quiet, n, p

\* A run has read every bucket up to its watermark, and met whoever works on one.
LEMMA RunIsExact ==
  ASSUME Typed, JobInv, ExactInv, [Next]_vars, NEW w \in Workers, BeginRun(w),
         run # "completed", EffectiveAt(watermark) \intersect redacted = {}
  PROVE  ExactInv'
<1> DEFINE met == {b \in Buckets : \E o \in Workers : Touches(o, b)}
           values == [b \in Buckets |-> Aggregate(EffectiveAt(watermark), b)]
           opened == [Opened(Run) EXCEPT !.plan = values, !.shared = met, !.phase = "compare"]
           S == {e \in Stored : received[e] <= watermark}
<1>0. session \in Sessions /\ Run \in Jobs /\ Run \notin Events /\ Stored \subseteq Events
  BY ConstantsAssumption DEF Typed, TypeOK, Sessions, Jobs, Stored
<1>1. session' = [Shared(w, Buckets) EXCEPT ![w] = opened] /\ session[w] = None
  BY DEF BeginRun, Claims
<1>2. UNCHANGED <<setting, received, watermark, bucket, raced>>
  BY DEF BeginRun, stored
<1>3. ClockInv' /\ CompletesAsCommitted
  BY JobsComplete, ClockStep DEF ExactInv
<1>4. /\ opened.task = Run /\ opened.plan = values /\ opened.written = NoValues
      /\ opened.phase = "compare" /\ opened.todo = <<>> /\ opened.shared = met
  BY DEF Opened
<1>5. \A b \in Buckets : values[b] = Content(S, b) /\ values[b] # None
  <2>1. EffectiveAt(watermark) = EffectiveOf(S)
    BY EffectiveIsContent DEF ExactInv
  <2>2. \A b \in Buckets : Aggregate(EffectiveAt(watermark), b) = Within(EffectiveAt(watermark), b)
    BY DEF Aggregate, Within
  <2>3. \A b \in Buckets : Content(S, b) \in SUBSET Events
    BY <1>0 DEF Content, Within, EffectiveOf
  <2> QED  BY <2>1, <2>2, <2>3, ConstantsAssumption DEF Content
<1> HIDE DEF opened, values, met, S
<1>6. ASSUME NEW o \in Workers \ {w}, session'[o] # None
      PROVE  session[o] # None /\ GoesOn(session[o], session'[o])
  <2> DEFINE m == {b \in Buckets : \E a \in Workers \ {w} : Touches(a, b)}
             more == {b \in m : Touches(o, b)}
             marked == [session[o] EXCEPT !.shared = @ \union more]
  <2>1. Shared(w, Buckets) \in Sessions
    BY <1>0, SharedKeepsSessions
  <2>2. session'[o] = Shared(w, Buckets)[o] /\ session[o] # None
    BY <1>1, <1>6, <2>1, <1>0, SharedKeepsSessions DEF Sessions
  <2>3. session'[o] = marked
    BY <2>2 DEF Shared
  <2>4. session[o] \in Session
    BY <1>0, <2>2 DEF Sessions
  <2>5. /\ marked.task = session[o].task /\ marked.todo = session[o].todo
        /\ marked.plan = session[o].plan /\ marked.written = session[o].written
        /\ marked.phase = session[o].phase /\ session[o].shared \subseteq marked.shared
    BY <2>4 DEF Session
  <2>6. Quiet(session[o])
    BY <2>2 DEF ExactInv, SessionIsExact
  <2> HIDE DEF marked
  <2> QED  BY <2>2, <2>3, <2>5, <2>6 DEF GoesOn, Quiet, Held, Ahead
<1>7. session'[w] = opened
  <2>1. Shared(w, Buckets) \in Sessions
    BY <1>0, SharedKeepsSessions
  <2> QED  BY <1>1, <2>1 DEF Sessions
<1>8. ASSUME NEW b \in Buckets, NEW e \in Stored, Affects(e, b)
      PROVE  /\ HasRead(e, b)' => HasRead(e, b)
             /\ Passed(e, b)' => Passed(e, b)
  <2>1. e \in Events /\ e # Run
    BY <1>0
  <2>2. job'[e] = "done" => HasRead(e, b) /\ Passed(e, b)
    BY <1>3, <2>1, CommittedHasPassed
  <2>3. \A o \in Workers : session'[o] # None /\ session'[o].task = e =>
           \/ Fresh(session'[o])
           \/ session[o] # None /\ GoesOn(session[o], session'[o])
    BY <1>4, <1>6, <1>7, <2>1
  <2>4. HasRead(e, b)' => HasRead(e, b)
    BY <1>2, <1>8, <2>1, <2>2, <2>3, ReadsStay
  <2>5. Passed(e, b)' => Passed(e, b)
    BY <1>2, <1>8, <2>1, <2>2, <2>3, PassesStay
  <2> QED  BY <2>4, <2>5
<1>9. Stored' = Stored
  BY <1>2 DEF Stored
<1>10. ASSUME NEW o \in Workers \ {w}, session'[o] # None  PROVE SessionIsExact(session[o])'
  <2>1. session[o] # None /\ GoesOn(session[o], session'[o])
    BY <1>6, <1>10
  <2>2. ASSUME NEW b \in Buckets, NEW v \in Held(session[o], b)'
        PROVE  Snapshot(session[o], b, v)'
    <3>1. Snapshot(session[o], b, v)
      BY <2>1, <2>2 DEF GoesOn, ExactInv, SessionIsExact, Held
    <3>2. session'[o].task = session[o].task
          /\ (b \in session[o].shared => b \in session'[o].shared)
      BY <2>1 DEF GoesOn
    <3> QED  BY <1>2, <1>8, <1>9, <3>1, <3>2, SnapshotStays
  <2> QED  BY <2>1, <2>2 DEF SessionIsExact, GoesOn, Quiet
<1>11. SessionIsExact(session[w])'
  <2>1. Quiet(session[w])'
    BY <1>4, <1>7 DEF Quiet
  <2>2. ASSUME NEW b \in Buckets, NEW v \in Held(session[w], b)'
        PROVE  Snapshot(session[w], b, v)'
    <3>0. PICK T : T = S
      OBVIOUS
    <3>1. v = Content(T, b)
      BY <1>4, <1>5, <1>7, <2>2, <3>0 DEF Held, NoValues
    <3>2. T \in SUBSET Stored /\ \A e \in Stored \ T : ~(received[e] <= watermark)
      BY <3>0 DEF S
    <3>3. v = Content(T, b)' /\ T \in SUBSET Stored'
      BY <1>2, <1>9, <3>1, <3>2 DEF Content, Within, EffectiveOf
    <3>4. \A e \in Stored' \ T : ~(received'[e] <= watermark')
      BY <1>2, <1>9, <3>2
    <3> QED  BY <1>0, <1>4, <1>7, <3>3, <3>4 DEF Snapshot
  <2> QED  BY <2>1, <2>2 DEF SessionIsExact
<1>12. ASSUME NEW b \in Buckets  PROVE RowIsExact(b)'
  BY <1>2, <1>8, <1>9, RowStays DEF ExactInv
<1> QED  BY <1>3, <1>10, <1>11, <1>12 DEF ExactInv

\* A job that is taken up.
LEMMA BeginIsExact ==
  ASSUME Typed, JobInv, ExactInv, [Next]_vars, NEW w \in Workers, Begin(w)
  PROVE  ExactInv'
<1>1. UNCHANGED <<setting, received, watermark, bucket, raced>>
  BY DEF Begin, BeginEvent, BeginRebuild, BeginRun, stored
<1>2. CASE session' = [session EXCEPT ![w] = None]
  BY <1>1, <1>2, OneMoves
<1>3. ASSUME NEW e \in Events, BeginEvent(w, e), session' # [session EXCEPT ![w] = None]
      PROVE  ExactInv'
  <2>1. session' = [session EXCEPT ![w] = Processing(Opened(e), e)] /\ e \in Jobs
    BY <1>3 DEF BeginEvent, FailPermanently, Settle, Jobs
  <2>2. Fresh(Processing(Opened(e), e))
    BY <2>1, OpenedIsTyped, ProcessingIsFresh DEF Typed
  <2> QED  BY <1>1, <2>1, <2>2, OneMoves
<1>4. CASE BeginRebuild(w) /\ session' # [session EXCEPT ![w] = None]
  <2>1. session' = [session EXCEPT ![w] = [Opened(Rebuild) EXCEPT !.left = Stored]]
    BY <1>4 DEF BeginRebuild, FailPermanently, Settle
  <2>2. Fresh([Opened(Rebuild) EXCEPT !.left = Stored])
    BY OpenedIsFresh DEF Stored
  <2> QED  BY <1>1, <2>1, <2>2, OneMoves
<1>5. CASE BeginRun(w) /\ run = "completed"
  <2>1. session' = [session EXCEPT ![w] = [Opened(Run) EXCEPT !.phase = "committed"]]
    BY <1>5 DEF BeginRun
  <2>2. Fresh([Opened(Run) EXCEPT !.phase = "committed"])
    BY OpenedIsFresh
  <2> QED  BY <1>1, <2>1, <2>2, OneMoves
<1>6. CASE BeginRun(w) /\ run # "completed" /\ session' # [session EXCEPT ![w] = None]
  <2>1. EffectiveAt(watermark) \intersect redacted = {}
    BY <1>6 DEF BeginRun, FailPermanently, Settle
  <2> QED  BY <1>6, <2>1, RunIsExact
<1> QED  BY <1>2, <1>3, <1>4, <1>5, <1>6 DEF Begin

\* What a statement reads is the whole content of the bucket, unless a meter skips events.
LEMMA ReadsContent ==
  ASSUME Typed, ClockInv, NothingIsSkipped, NEW b, ~AggregateThrows(Effective, b)
  PROVE  Aggregate(Effective, b) = Content(Stored, b)
<1>1. Effective = EffectiveOf(Stored)
  BY EffectiveIsContent
<1>2. setting.erased \in {"counted", "skipped", "rejected"} /\ setting \in Settings
  BY DEF Typed, TypeOK, Setting
<1>3. CASE setting.erased = "counted"
  BY <1>1, <1>3 DEF Aggregate, Content, Within
<1>4. CASE setting.erased = "skipped"
  <2>1. redacted = {}
    BY <1>2, <1>4 DEF NothingIsSkipped, ClockInv
  <2> QED  BY <1>1, <2>1 DEF Aggregate, Content, Within
<1>5. CASE setting.erased = "rejected"
  BY <1>1, <1>5 DEF Aggregate, AggregateThrows, Content, Within
<1> QED  BY <1>2, <1>3, <1>4, <1>5

\* What Read makes of the sessions.
LEMMA ReadMoves ==
  ASSUME Typed, JobInv, ExactInv, NEW w \in Workers, Read(w),
         ~AggregateThrows(Effective, Head(session[w].todo))
  PROVE  LET b == Head(session[w].todo)
         IN /\ b \in Buckets /\ Aggregate(Effective, b) \in SUBSET Events
            /\ \A o \in Workers : session'[o] # None =>
                 /\ session[o] # None /\ session'[o].task = session[o].task
                 /\ session[o].shared \subseteq session'[o].shared
                 /\ Quiet(session'[o])
                 /\ o # w => Ahead(session'[o]) = Ahead(session[o])
                 /\ \A c \in Buckets \ {b} : c \in Ahead(session[o]) => c \in Ahead(session'[o])
                 /\ \A c \in Buckets : o # w \/ c # b => Held(session'[o], c) = Held(session[o], c)
                 /\ o # w /\ Held(session[o], b) # {} => b \in session'[o].shared
            /\ Held(session'[w], b) \subseteq Held(session[w], b) \union {Aggregate(Effective, b)}
            /\ Aggregate(Effective, b) \in Held(session'[w], b)
<1> DEFINE b == Head(session[w].todo)
           A == Aggregate(Effective, b)
           before == Shared(w, {b})[w]
           planned == [before EXCEPT !.todo = Tail(@), !.plan[b] = A]
           m == {c \in {b} : \E a \in Workers \ {w} : Touches(a, c)}
<1>0. session \in Sessions /\ session[w] # None /\ session[w] \in Session
  BY SessionIsTyped DEF Typed, TypeOK, Sessions, Read
<1>1. b \in Buckets /\ session[w].todo \in Seq(Buckets) /\ session[w].todo # <<>>
      /\ session[w].phase = "open"
  BY <1>0 DEF Session, Read
<1>2. session' = [Shared(w, {b}) EXCEPT ![w] = planned]
  BY ReadPlans
<1>3. /\ Shared(w, {b}) \in Sessions
      /\ \A o \in Workers :
           IF session[o] = None THEN Shared(w, {b})[o] = None
           ELSE /\ Shared(w, {b})[o] \in Session
                /\ Shared(w, {b})[o].plan = session[o].plan
                /\ Shared(w, {b})[o].written = session[o].written
                /\ Shared(w, {b})[o].task = session[o].task
                /\ Shared(w, {b})[o].phase = session[o].phase
  BY <1>0, <1>1, SharedKeepsSessions
<1>4. A \in SUBSET Events /\ A # None
  BY AggregateIsTyped, ConstantsAssumption DEF Effective, EffectiveAt, Stored
<1>5. \A o \in Workers : session[o] # None =>
        /\ Shared(w, {b})[o].todo = session[o].todo
        /\ session[o].shared \subseteq Shared(w, {b})[o].shared
        /\ o # w /\ Touches(o, b) => b \in Shared(w, {b})[o].shared
  <2> SUFFICES ASSUME NEW o \in Workers, session[o] # None
               PROVE  /\ Shared(w, {b})[o].todo = session[o].todo
                      /\ session[o].shared \subseteq Shared(w, {b})[o].shared
                      /\ o # w /\ Touches(o, b) => b \in Shared(w, {b})[o].shared
    OBVIOUS
  <2> DEFINE more == IF o = w THEN m ELSE {c \in m : Touches(o, c)}
             marked == [session[o] EXCEPT !.shared = @ \union more]
  <2>1. Shared(w, {b})[o] = marked
    BY DEF Shared
  <2>2. session[o] \in Session
    BY <1>0 DEF Sessions
  <2>3. marked.todo = session[o].todo /\ marked.shared = session[o].shared \union more
    <3> HIDE DEF more
    <3> QED  BY <2>2 DEF Session
  <2>4. o # w /\ Touches(o, b) => b \in more
    OBVIOUS
  <2> HIDE DEF marked, more
  <2> QED  BY <2>1, <2>3, <2>4
<1>6. /\ planned.plan = [before.plan EXCEPT ![b] = A] /\ planned.written = before.written
      /\ planned.task = before.task
      /\ planned.todo = Tail(before.todo) /\ planned.shared = before.shared
      /\ planned.phase = before.phase
  <2>1. before \in Session /\ before.todo # <<>>
    BY <1>0, <1>1, <1>3, <1>5
  <2> HIDE DEF before, A, b
  <2>2. /\ planned.plan = [before.plan EXCEPT ![b] = A] /\ planned.written = before.written
        /\ planned.task = before.task
    BY <1>1, <1>4, <2>1, PlannedIsTyped
  <2> QED  BY <2>1, <2>2 DEF Session
<1>7. session'[w] = planned /\ \A o \in Workers \ {w} : session'[o] = Shared(w, {b})[o]
  BY <1>2, <1>3 DEF Sessions
<1>8. before.plan = session[w].plan /\ before.written = session[w].written
      /\ before.task = session[w].task /\ before.todo = session[w].todo
      /\ session[w].shared \subseteq before.shared /\ before.phase = "open"
      /\ session[w].plan \in Values
  BY <1>0, <1>1, <1>3, <1>5 DEF Session
<1> HIDE DEF planned, before, A
<1>9. \A c \in Buckets \ {b} : c \in Ahead(session[w]) => c \in Ahead(planned)
  <2> SUFFICES ASSUME NEW c \in Buckets \ {b}, NEW i \in DOMAIN session[w].todo,
                      c = session[w].todo[i]
               PROVE  c \in Ahead(planned)
    BY DEF Ahead
  <2> DEFINE s == session[w].todo
  <2>1. s \in Seq(Buckets) /\ s # <<>> /\ b = Head(s)
    BY <1>1
  <2>2. planned.todo = Tail(s)
    BY <1>6, <1>8
  <2>3. i - 1 \in DOMAIN Tail(s) /\ Tail(s)[i - 1] = c
    <3> HIDE DEF s, b
    <3>1. i \in 1..Len(s) /\ i # 1
      BY <2>1 DEF s
    <3> QED  BY <2>1, <3>1 DEF s
  <2> QED  BY <2>2, <2>3 DEF Ahead
<1>10. ASSUME NEW o \in Workers \ {w}, session'[o] # None
       PROVE  /\ session[o] # None /\ session'[o].task = session[o].task
              /\ session[o].shared \subseteq session'[o].shared
              /\ Quiet(session'[o])
              /\ Ahead(session'[o]) = Ahead(session[o])
              /\ \A c \in Buckets : Held(session'[o], c) = Held(session[o], c)
              /\ Held(session[o], b) # {} => b \in session'[o].shared
  <2>1. session[o] # None /\ session'[o] = Shared(w, {b})[o]
    BY <1>3, <1>7, <1>10
  <2>2. Quiet(session[o])
    BY <2>1 DEF ExactInv, SessionIsExact
  <2>3. Held(session[o], b) # {} => Touches(o, b)
    BY <1>1, <2>1 DEF Held, Touches, Given
  <2>4. /\ session'[o].plan = session[o].plan /\ session'[o].written = session[o].written
        /\ session'[o].task = session[o].task /\ session'[o].phase = session[o].phase
        /\ session'[o].todo = session[o].todo
    BY <1>3, <1>5, <2>1
  <2>5. Quiet(session'[o])
    BY <2>2, <2>4 DEF Quiet
  <2> QED  BY <1>5, <2>1, <2>3, <2>4, <2>5 DEF Held, Ahead
<1>11. Quiet(planned)
  BY <1>6, <1>8 DEF Quiet
<1>12. \A c \in Buckets \ {b} : Held(planned, c) = Held(session[w], c)
  BY <1>1, <1>6, <1>8 DEF Held, Values
<1>13. Held(planned, b) = {A, session[w].written[b]} \ {None}
  BY <1>1, <1>6, <1>8 DEF Held, Values
<1>14. /\ session'[w].task = session[w].task /\ session[w].shared \subseteq session'[w].shared
       /\ Quiet(session'[w])
  BY <1>6, <1>7, <1>8, <1>11
<1>15. /\ \A c \in Buckets \ {b} : c \in Ahead(session[w]) => c \in Ahead(session'[w])
       /\ \A c \in Buckets \ {b} : Held(session'[w], c) = Held(session[w], c)
  BY <1>7, <1>9, <1>12
<1>16. /\ Held(session'[w], b) \subseteq Held(session[w], b) \union {A}
       /\ A \in Held(session'[w], b)
  <2>1. session[w].written[b] \in Held(session[w], b) \union {None}
    BY DEF Held
  <2>2. Held(session'[w], b) = {A, session[w].written[b]} \ {None}
    BY <1>7, <1>13
  <2> QED  BY <1>4, <2>1, <2>2
<1> QED  BY <1>0, <1>1, <1>4, <1>10, <1>14, <1>15, <1>16, Zenon DEF A

\* Reading takes account of every stored event, and is noted by whoever works on the bucket.
LEMMA ReadIsExact ==
  ASSUME Typed, JobInv, ExactInv, NothingIsSkipped, [Next]_vars, NEW w \in Workers, Read(w),
         ~AggregateThrows(Effective, Head(session[w].todo))
  PROVE  ExactInv'
<1> DEFINE b == Head(session[w].todo)
           A == Aggregate(Effective, b)
<1>0. Stored \subseteq Events /\ session[w] # None /\ session[w] \in Session
  BY SessionIsTyped DEF Stored, Typed, Read
<1>1. UNCHANGED <<setting, received, job, watermark, bucket, raced>> /\ Stored' = Stored
  BY DEF Read, stored, Stored
<1>2. ClockInv'
  BY ClockStep DEF ExactInv
<1>3. /\ b \in Buckets /\ A = Content(Stored, b)
      /\ \A o \in Workers : session'[o] # None =>
           /\ session[o] # None /\ session'[o].task = session[o].task
           /\ session[o].shared \subseteq session'[o].shared
           /\ Quiet(session'[o])
           /\ o # w => Ahead(session'[o]) = Ahead(session[o])
           /\ \A c \in Buckets \ {b} : c \in Ahead(session[o]) => c \in Ahead(session'[o])
           /\ \A c \in Buckets : o # w \/ c # b => Held(session'[o], c) = Held(session[o], c)
           /\ o # w /\ Held(session[o], b) # {} => b \in session'[o].shared
      /\ Held(session'[w], b) \subseteq Held(session[w], b) \union {A}
      /\ A \in Held(session'[w], b)
  BY ReadMoves, ReadsContent DEF ExactInv
<1> HIDE DEF A
<1>4. session[w].task \in Events => session[w].task \in Stored
  BY <1>0 DEF JobInv, ExactInv, ClockInv
<1>5. ASSUME NEW c \in Buckets, NEW e \in Stored, HasRead(e, c)'
      PROVE  HasRead(e, c) \/ (c = b /\ e = session[w].task)
  <2>1. CASE job'[e] = "done"
    BY <1>1, <2>1 DEF HasRead
  <2>2. ASSUME NEW o \in Workers, session'[o] # None, session'[o].task = e,
               c \notin Ahead(session'[o])
        PROVE  HasRead(e, c) \/ (c = b /\ e = session[w].task)
    BY <1>3, <2>2 DEF HasRead
  <2>3. job'[e] = "done" \/ \E o \in Workers : session'[o] # None /\ session'[o].task = e
                                               /\ c \notin Ahead(session'[o])
    BY <1>5 DEF HasRead, Ahead
  <2> QED  BY <2>1, <2>2, <2>3
<1>6. ASSUME NEW c \in Buckets, NEW e \in Stored, Passed(e, c)'
      PROVE  Passed(e, c)
  <2>1. CASE job'[e] = "done"
    BY <1>1, <2>1 DEF Passed
  <2>2. ASSUME NEW o \in Workers, session'[o] # None, session'[o].task = e,
               c \notin Ahead(session'[o]), Held(session'[o], c) = {}
        PROVE  Passed(e, c)
    <3>1. o # w \/ c # b
      BY <1>3, <2>2
    <3>2. c \notin Ahead(session[o]) /\ Held(session[o], c) = {}
      BY <1>3, <2>2, <3>1
    <3> QED  BY <1>3, <2>2, <3>2 DEF Passed
  <2>3. job'[e] = "done" \/ \E o \in Workers : session'[o] # None /\ session'[o].task = e
                                               /\ c \notin Ahead(session'[o])
                                               /\ Held(session'[o], c) = {}
    BY <1>6 DEF Passed, Ahead, Held
  <2> QED  BY <2>1, <2>2, <2>3
<1>7. ASSUME NEW o \in Workers, session'[o] # None, NEW c \in Buckets,
             NEW v \in Held(session[o], c)', v \in Held(session[o], c)
      PROVE  Snapshot(session[o], c, v)'
  <2>1. Snapshot(session[o], c, v)
    BY <1>3, <1>7 DEF ExactInv, SessionIsExact
  <2>2. c \in session'[o].shared \/ c # b \/ o = w
    BY <1>3, <1>7
  <2>3. session'[o].task = session[o].task
        /\ (c \in session[o].shared => c \in session'[o].shared)
    BY <1>3, <1>7
  <2>4. \/ c \in session'[o].shared
        \/ \A e \in Stored' : Affects(e, c) /\ HasRead(e, c)' =>
             e \in Stored /\ (HasRead(e, c) \/ e = session[o].task)
    BY <1>1, <1>5, <2>2
  <2> QED  BY <1>1, <2>1, <2>3, <2>4, SnapshotStays
<1>8. ASSUME session'[w] # None, NEW x \in Buckets, x = b, NEW v, v = A
      PROVE  Snapshot(session[w], x, v)'
  <2>1. PICK T : T = Stored
    OBVIOUS
  <2>2. v = Content(T, x)
    BY <1>3, <1>8, <2>1
  <2>3. v = Content(T, x)' /\ T \in SUBSET Stored' /\ T = Stored'
    BY <1>1, <2>1, <2>2 DEF Content, Within, EffectiveOf
  <2>4. session'[w].task \in Events => session'[w].task \in T
    BY <1>3, <1>4, <1>8, <2>1
  <2> QED  BY <2>3, <2>4 DEF Snapshot
<1>9. ASSUME NEW o \in Workers, session'[o] # None  PROVE SessionIsExact(session[o])'
  <2>1. Quiet(session[o])'
    BY <1>3, <1>9 DEF Quiet
  <2>2. ASSUME NEW c \in Buckets, NEW v \in Held(session[o], c)'
        PROVE  Snapshot(session[o], c, v)'
    <3>1. CASE v \in Held(session[o], c)
      BY <1>7, <1>9, <2>2, <3>1
    <3>2. CASE v \notin Held(session[o], c)
      <4>1. v \in Held(session'[o], c)
        BY <2>2 DEF Held
      <4>2. o = w /\ c = b /\ v = A
        BY <1>3, <1>9, <3>2, <4>1
      <4> QED  BY <1>8, <1>9, <4>2
    <3> QED  BY <3>1, <3>2
  <2> QED  BY <2>1, <2>2 DEF SessionIsExact
<1>10. ASSUME NEW c \in Buckets  PROVE RowIsExact(c)'
  BY <1>1, <1>6, RowStays DEF ExactInv
<1> QED  BY <1>2, <1>9, <1>10 DEF ExactInv

\* Comparing drops what need not be repaired.
LEMMA CompareIsExact ==
  ASSUME Typed, JobInv, ExactInv, [Next]_vars, NEW w \in Workers, Compare(w)
  PROVE  ExactInv'
<1> DEFINE s == session[w]
<1>1. s \in Session /\ s # None /\ s.phase = "compare"
  BY SessionIsTyped DEF Compare, Typed
<1>2. s.task = Run /\ Run \notin Events
  BY <1>1, ConstantsAssumption DEF ExactInv, SessionIsExact, Quiet
<1>3. PICK p \in Values :
        /\ \A b \in Buckets : p[b] \in {None, session[w].plan[b]}
        /\ session' = [session EXCEPT ![w] = [session[w] EXCEPT !.plan = p, !.phase = "open"]]
  BY CompareKeepsPlans, Zenon
<1> DEFINE t == [s EXCEPT !.plan = p, !.phase = "open"]
<1>4. /\ t.plan = p /\ t.written = s.written /\ t.task = s.task /\ t.todo = s.todo
      /\ t.shared = s.shared /\ t.phase = "open"
  BY <1>1 DEF Session
<1>5. UNCHANGED <<setting, received, watermark, bucket, raced>>
  BY DEF Compare, stored
<1>6. session' = [session EXCEPT ![w] = t]
  BY <1>3
<1> HIDE DEF t
<1>7. GoesOn(s, t)
  BY <1>2, <1>3, <1>4 DEF GoesOn, Quiet, Ahead, Held
<1> QED  BY <1>1, <1>5, <1>6, <1>7, OneMoves

\* What Write makes of its session: a value becomes a row that is locked, or a deletion of
\* nothing is over.
LEMMA WriteMoves ==
  ASSUME Typed, NEW w \in Workers, NEW b \in Buckets, Write(w, b)
  PROVE  \E t :
           /\ session' = [session EXCEPT ![w] = t]
           /\ t.task = session[w].task /\ t.todo = session[w].todo
           /\ t.shared = session[w].shared /\ t.phase = "open"
           /\ session[w].plan[b] # None
           /\ \A c \in Buckets \ {b} : Held(t, c) = Held(session[w], c)
           /\ \/ /\ session[w].plan[b] = {} /\ bucket[b] = {}
                 /\ Held(t, b) \subseteq Held(session[w], b)
              \/ Held(t, b) = {session[w].plan[b]}
<1> DEFINE s == session[w]
           p == [s.plan EXCEPT ![b] = None]
           q == [s.written EXCEPT ![b] = s.plan[b]]
<1>1. s \in Session /\ s.phase = "open"
  BY SessionIsTyped DEF Write, Typed
<1>2. s.plan \in Values /\ s.written \in Values
  BY <1>1 DEF Session
<1>3. CASE DeletesNothing(w, b) /\ session' = [session EXCEPT ![w].plan[b] = None]
  <2> DEFINE t == [s EXCEPT !.plan = p]
  <2>1. session' = [session EXCEPT ![w] = t]
    BY <1>3
  <2>2. t.task = s.task /\ t.todo = s.todo /\ t.shared = s.shared /\ t.phase = s.phase
        /\ t.plan = p /\ t.written = s.written
    <3> HIDE DEF p
    <3> QED  BY <1>1 DEF Session
  <2> HIDE DEF t
  <2>3. \A c \in Buckets \ {b} : Held(t, c) = Held(s, c)
    BY <1>2, <2>2 DEF Held, Values
  <2>4. Held(t, b) \subseteq Held(s, b)
    BY <1>2, <2>2 DEF Held, Values
  <2> QED  BY <1>1, <1>3, <2>1, <2>2, <2>3, <2>4 DEF DeletesNothing, Write
<1>4. CASE session' = [session EXCEPT ![w].plan[b] = None,
                                      ![w].written[b] = session[w].plan[b]]
  <2> DEFINE t == [s EXCEPT !.plan = p, !.written = q]
  <2>1. session' = [session EXCEPT ![w] = t]
    BY <1>1, <1>4 DEF Typed, TypeOK, Session
  <2>2. t.task = s.task /\ t.todo = s.todo /\ t.shared = s.shared /\ t.phase = s.phase
        /\ t.plan = p /\ t.written = q
    <3> HIDE DEF p, q
    <3> QED  BY <1>1 DEF Session
  <2> HIDE DEF t
  <2>3. \A c \in Buckets \ {b} : Held(t, c) = Held(s, c)
    BY <1>2, <2>2 DEF Held, Values
  <2>4. Held(t, b) = {s.plan[b]} /\ s.plan[b] # None
    BY <1>2, <2>2 DEF Held, Values, Write
  <2> QED  BY <1>1, <2>1, <2>2, <2>3, <2>4
<1> QED  BY <1>3, <1>4 DEF Write

\* A write keeps what is known of the value, and a deletion of nothing leaves a row that
\* takes account of both.
LEMMA WriteIsExact ==
  ASSUME Typed, JobInv, ExactInv, [Next]_vars, NEW w \in Workers, NEW b \in Buckets, Write(w, b)
  PROVE  ExactInv'
<1> DEFINE s == session[w]
<1>0. s # None /\ session \in Sessions /\ Stored \subseteq Events
  BY DEF Write, Typed, TypeOK, Sessions, Stored
<1>1. UNCHANGED <<setting, received, job, watermark, bucket, raced>> /\ Stored' = Stored
  BY DEF Write, stored, Stored
<1>2. PICK t :
        /\ session' = [session EXCEPT ![w] = t]
        /\ t.task = s.task /\ t.todo = s.todo /\ t.shared = s.shared /\ t.phase = "open"
        /\ s.plan[b] # None
        /\ \A c \in Buckets \ {b} : Held(t, c) = Held(s, c)
        /\ \/ s.plan[b] = {} /\ bucket[b] = {} /\ Held(t, b) \subseteq Held(s, b)
           \/ Held(t, b) = {s.plan[b]}
  BY WriteMoves
<1>3. Quiet(t) /\ Ahead(t) = Ahead(s) /\ s.plan[b] \in Held(s, b)
  BY <1>2 DEF Quiet, Ahead, Held
<1>4. CASE Held(t, b) # {}
  <2>1. Held(t, b) \subseteq Held(s, b)
    BY <1>2, <1>3
  <2>2. GoesOn(s, t)
    BY <1>2, <1>3, <1>4, <2>1 DEF GoesOn
  <2> QED  BY <1>0, <1>1, <1>2, <2>2, OneMoves
<1>5. CASE Held(t, b) = {}
  <2>1. s.plan[b] = {} /\ bucket[b] = {}
    BY <1>2, <1>5
  <2>2. session'[w] = t /\ \A o \in Workers \ {w} : session'[o] = session[o]
    BY <1>0, <1>2 DEF Sessions
  <2>3. \A o \in Workers : session'[o] # None =>
          /\ session[o] # None /\ session'[o].task = session[o].task
          /\ Ahead(session'[o]) = Ahead(session[o]) /\ session'[o].shared = session[o].shared
          /\ Quiet(session'[o])
          /\ \A c \in Buckets : Held(session'[o], c) \subseteq Held(session[o], c)
          /\ \A c \in Buckets : o # w \/ c # b => Held(session'[o], c) = Held(session[o], c)
    BY <1>0, <1>2, <1>3, <1>5, <2>2 DEF ExactInv, SessionIsExact
  <2>4. ASSUME NEW e \in Stored, NEW c \in Buckets, HasRead(e, c)'  PROVE HasRead(e, c)
    <3>1. job'[e] = "done" \/ \E o \in Workers : session'[o] # None /\ session'[o].task = e
                                                 /\ c \notin Ahead(session'[o])
      BY <2>4 DEF HasRead, Ahead
    <3> QED  BY <1>1, <2>3, <3>1 DEF HasRead
  <2>5. ASSUME NEW e \in Stored, NEW c \in Buckets, Passed(e, c)'
        PROVE  Passed(e, c) \/ (c = b /\ e = s.task)
    <3>1. job'[e] = "done" \/ \E o \in Workers : session'[o] # None /\ session'[o].task = e
                                                 /\ c \notin Ahead(session'[o])
                                                 /\ Held(session'[o], c) = {}
      BY <2>5 DEF Passed, Ahead, Held
    <3> QED  BY <1>1, <2>3, <3>1 DEF Passed
  <2>6. ASSUME NEW o \in Workers, session'[o] # None  PROVE SessionIsExact(session[o])'
    <3>1. Quiet(session[o])'
      BY <2>3, <2>6 DEF Quiet
    <3>2. ASSUME NEW c \in Buckets, NEW v \in Held(session[o], c)'
          PROVE  Snapshot(session[o], c, v)'
      <4>1. Snapshot(session[o], c, v)
        BY <2>3, <2>6, <3>2 DEF ExactInv, SessionIsExact, Held
      <4>2. session'[o].task = session[o].task /\ session'[o].shared = session[o].shared
        BY <2>3, <2>6
      <4> QED  BY <1>1, <2>4, <4>1, <4>2, SnapshotStays
    <3> QED  BY <3>1, <3>2 DEF SessionIsExact
  <2>7. ASSUME NEW c \in Buckets \ {b}  PROVE RowIsExact(c)'
    BY <1>1, <2>5, RowStays DEF ExactInv
  <2>8. RowIsExact(b)'
    <3> SUFFICES ASSUME b \notin raced'
                 PROVE  \E S \in SUBSET Stored' :
                          /\ bucket'[b] = Content(S, b)'
                          /\ \A e \in Stored' : Affects(e, b)' /\ Passed(e, b)' => e \in S
      BY DEF RowIsExact
    <3>1. PICK S \in SUBSET Stored :
            /\ bucket[b] = Content(S, b)
            /\ \A e \in Stored : Affects(e, b) /\ Passed(e, b) => e \in S
      BY <1>1 DEF ExactInv, RowIsExact
    <3>2. Snapshot(s, b, {})
      BY <1>0, <1>3, <2>1 DEF ExactInv, SessionIsExact
    <3>3. PICK T \in SUBSET Stored : Content(T, b) = {} /\ (s.task \in Events => s.task \in T)
      BY <3>2 DEF Snapshot
    <3> DEFINE U == S \union T
    <3>4. Content(U, b) = {}
      BY <2>1, <3>1, <3>3, EmptyTogether
    <3>5. U \in SUBSET Stored' /\ bucket'[b] = Content(U, b)'
      BY <1>1, <2>1, <3>4 DEF Content, Within, EffectiveOf
    <3>6. \A e \in Stored' : Affects(e, b)' /\ Passed(e, b)' => e \in U
      BY <1>0, <1>1, <2>5, <3>1, <3>3 DEF Affects, Affected
    <3> QED  BY <3>5, <3>6
  <2>9. ClockInv'
    BY ClockStep DEF ExactInv
  <2> QED  BY <2>6, <2>7, <2>8, <2>9 DEF ExactInv
<1> QED  BY <1>4, <1>5

\* A commit makes rows of values; they are exact unless their session met another one, or is a
\* repair that newer events preceded.
LEMMA CommitIsExact ==
  ASSUME Typed, JobInv, ExactInv, [Next]_vars, NEW w \in Workers, Commit(w)
  PROVE  ExactInv'
<1> DEFINE s == session[w]
           rows == Given(s.written)
           phase == IF s.task = Rebuild THEN "between" ELSE "committed"
           t == [Opened(s.task) EXCEPT !.left = s.left, !.phase = phase]
<1>0. /\ s # None /\ s \in Session /\ session \in Sessions /\ Stored \subseteq Events
      /\ Run \in Jobs /\ received \in [Events -> Nat \union {None}]
  BY SessionIsTyped DEF Commit, Ready, Typed, TypeOK, Sessions, Stored, Jobs
<1>1. UNCHANGED <<setting, received, job, watermark>> /\ Stored' = Stored
  BY DEF Commit, Stored
<1>2. s.plan = NoValues /\ s.todo = <<>>
  BY DEF Commit, Ready
<1>3. /\ t.task = s.task /\ t.todo = <<>> /\ t.plan = NoValues /\ t.written = NoValues
  BY DEF Opened
<1>4. session' = [session EXCEPT ![w] = t]
  BY DEF Commit
<1> HIDE DEF t
<1>5. session'[w] = t /\ \A o \in Workers \ {w} : session'[o] = session[o]
  BY <1>0, <1>4 DEF Sessions
<1>6. Quiet(t) /\ (\A b \in Buckets : Held(t, b) = {}) /\ Ahead(t) = {} /\ Ahead(s) = {}
  <2>1. Quiet(t)
    <3>1. t.phase \in {"between", "committed"}
      BY DEF t, Opened
    <3> QED  BY <1>3, <3>1 DEF Quiet
  <2> QED  BY <1>2, <1>3, <2>1, NothingHeld DEF Ahead
<1>7. ASSUME NEW e \in Stored, NEW b \in Buckets, HasRead(e, b)'  PROVE HasRead(e, b)
  <2>1. job'[e] = "done" \/ \E o \in Workers : session'[o] # None /\ session'[o].task = e
                                               /\ b \notin Ahead(session'[o])
    BY <1>7 DEF HasRead, Ahead
  <2> QED  BY <1>0, <1>1, <1>3, <1>5, <1>6, <2>1 DEF HasRead
<1>8. ASSUME NEW o \in Workers, session'[o] # None  PROVE SessionIsExact(session[o])'
  <2>1. CASE o = w
    <3>1. Quiet(session[o])' /\ \A b \in Buckets : Held(session[o], b)' = {}
      BY <1>5, <1>6, <2>1 DEF Quiet, Held
    <3> QED  BY <3>1 DEF SessionIsExact
  <2>2. CASE o # w
    <3>1. session'[o] = session[o] /\ SessionIsExact(session[o])
      BY <1>5, <1>8, <2>2 DEF ExactInv
    <3>2. Quiet(session[o])'
      BY <3>1 DEF SessionIsExact, Quiet
    <3>3. ASSUME NEW b \in Buckets, NEW v \in Held(session[o], b)'
          PROVE  Snapshot(session[o], b, v)'
      <4>1. Snapshot(session[o], b, v)
        BY <3>1, <3>3 DEF SessionIsExact, Held
      <4> QED  BY <1>1, <1>7, <3>1, <4>1, SnapshotStays
    <3> QED  BY <3>2, <3>3 DEF SessionIsExact
  <2> QED  BY <2>1, <2>2
<1>9. /\ bucket' = [b \in Buckets |-> IF b \in rows THEN s.written[b] ELSE bucket[b]]
      /\ raced' = (raced \ rows)
                  \union (rows \intersect (s.shared \union {b \in rows : s.task = Run /\ Newer(b)}))
  BY DEF Commit
<1>10. ASSUME NEW b \in Buckets, b \in rows  PROVE RowIsExact(b)'
  <2> SUFFICES ASSUME b \notin raced'
               PROVE  \E S \in SUBSET Stored' :
                        /\ bucket'[b] = Content(S, b)'
                        /\ \A e \in Stored' : Affects(e, b)' /\ Passed(e, b)' => e \in S
    BY DEF RowIsExact
  <2>1. bucket'[b] = s.written[b] /\ b \notin s.shared /\ ~(s.task = Run /\ Newer(b))
    BY <1>9, <1>10
  <2>2. s.written[b] \in Held(s, b)
    BY <1>10 DEF Held, Given
  <2>3. Snapshot(s, b, s.written[b])
    BY <1>0, <2>2 DEF ExactInv, SessionIsExact
  <2>4. PICK S \in SUBSET Stored :
          /\ s.written[b] = Content(S, b)
          /\ b \notin s.shared =>
               \A e \in Stored \ S : Affects(e, b) /\ HasRead(e, b) =>
                                       s.task = Run /\ ~(received[e] <= watermark)
    BY <2>3 DEF Snapshot
  <2>5. ASSUME NEW e \in Stored, Affects(e, b), HasRead(e, b), e \notin S  PROVE FALSE
    <3>1. s.task = Run /\ ~(received[e] <= watermark)
      BY <2>1, <2>4, <2>5
    <3>2. watermark \in Nat
      BY <1>0, <3>1 DEF JobInv, ExactInv, ClockInv
    <3>3. received[e] \in Nat
      BY <1>0 DEF Stored
    <3>4. received[e] > watermark
      BY <3>1, <3>2, <3>3
    <3> QED  BY <2>1, <2>5, <3>1, <3>4 DEF Newer, Affects
  <2>6. S \in SUBSET Stored' /\ bucket'[b] = Content(S, b)'
    BY <1>1, <2>1, <2>4 DEF Content, Within, EffectiveOf
  <2>7. \A e \in Stored' : Passed(e, b)' => HasRead(e, b)'
    BY DEF Passed, HasRead
  <2>8. \A e \in Stored' : Affects(e, b)' /\ Passed(e, b)' => e \in S
    BY <1>1, <1>7, <2>5, <2>7 DEF Affects, Affected
  <2> QED  BY <2>6, <2>8
<1>11. ASSUME NEW b \in Buckets, b \notin rows  PROVE RowIsExact(b)'
  <2>1. Held(s, b) = {}
    BY <1>2, <1>11 DEF Held, Given, NoValues
  <2>2. ASSUME NEW e \in Stored, Passed(e, b)'  PROVE Passed(e, b)
    <3>1. job'[e] = "done" \/ \E o \in Workers : session'[o] # None /\ session'[o].task = e
                                                 /\ b \notin Ahead(session'[o])
                                                 /\ Held(session'[o], b) = {}
      BY <2>2 DEF Passed, Ahead, Held
    <3> QED  BY <1>0, <1>1, <1>3, <1>5, <1>6, <2>1, <3>1 DEF Passed
  <2>3. bucket'[b] = bucket[b] /\ (b \notin raced' => b \notin raced)
    BY <1>9, <1>11
  <2> QED  BY <1>1, <2>2, <2>3, RowStays DEF ExactInv
<1>12. ClockInv'
  BY ClockStep DEF ExactInv
<1> QED  BY <1>8, <1>10, <1>11, <1>12 DEF ExactInv

\* A new event is ahead of everybody, and what happens to runs, rebuilds and properties
\* changes nothing that was read.
LEMMA OutsideIsExact ==
  ASSUME Typed, JobInv, ExactInv, [Next]_vars,
         (\E e \in Events : Accept(e)) \/ CreateRun \/ QueueRebuild \/ Redact \/ Tick
         \/ UNCHANGED vars
  PROVE  ExactInv'
<1>0. /\ session \in Sessions /\ Stored \subseteq Events
      /\ job \in [Jobs -> {"none", "queued", "done", "failed", "exhausted"}]
      /\ Run \in Jobs /\ received \in [Events -> Nat \union {None}]
  BY DEF Typed, TypeOK, Sessions, Stored, Jobs
<1>1. UNCHANGED <<setting, session, bucket, raced>>
  BY DEF Accept, CreateRun, QueueRebuild, Redact, Tick, vars
<1>2. ClockInv' /\ CompletesAsCommitted
  BY ClockStep, JobsComplete DEF ExactInv
<1>3. \A e \in Stored : e \in Stored' /\ received'[e] = received[e]
  <2>1. CASE \E e \in Events : Accept(e)
    <3>1. PICK e \in Events : Accept(e)
      BY <2>1
    <3>2. e \notin Stored /\ \E at \in now - MaxLag..now : received' = [received EXCEPT ![e] = at]
      BY <3>1 DEF Accept, Acceptable
    <3> QED  BY <1>0, <3>2 DEF Stored
  <2>2. CASE UNCHANGED received
    BY <2>2 DEF Stored
  <2> QED  BY <2>1, <2>2 DEF CreateRun, QueueRebuild, Redact, Tick, vars, stored
<1>4. ASSUME NEW w \in Workers, session[w] # None  PROVE watermark' = watermark \/ session[w].task # Run
  <2>1. session[w].task = Run => job[Run] # "none"
    BY <1>4 DEF JobInv
  <2> QED  BY <2>1 DEF Accept, CreateRun, QueueRebuild, Redact, Tick, vars, stored
<1>5. ASSUME NEW e \in Stored', NEW b, HasRead(e, b)' \/ Passed(e, b)'
      PROVE  e \in Stored /\ (HasRead(e, b)' => HasRead(e, b)) /\ (Passed(e, b)' => Passed(e, b))
  <2>1. e \in Events
    BY DEF Stored
  <2>2. job'[e] = "done" => job[e] = "done"
    BY <1>0, <2>1 DEF Accept, CreateRun, QueueRebuild, Redact, Tick, vars, Jobs
  <2>3. (HasRead(e, b)' => HasRead(e, b)) /\ (Passed(e, b)' => Passed(e, b))
    BY <1>1, <2>2 DEF HasRead, Passed, Ahead, Held
  <2>4. HasRead(e, b)
    BY <1>5, <2>3 DEF HasRead, Passed
  <2>5. job[e] # "none"
    BY <2>4 DEF HasRead, JobInv
  <2> QED  BY <2>1, <2>3, <2>5 DEF ExactInv, ClockInv
<1>6. ASSUME NEW w \in Workers, session'[w] # None  PROVE SessionIsExact(session[w])'
  <2>1. session'[w] = session[w] /\ SessionIsExact(session[w])
    BY <1>1, <1>6 DEF ExactInv
  <2>2. Quiet(session[w])'
    BY <2>1 DEF SessionIsExact, Quiet
  <2>3. ASSUME NEW b \in Buckets, NEW v \in Held(session[w], b)'
        PROVE  Snapshot(session[w], b, v)'
    <3>1. Snapshot(session[w], b, v)
      BY <2>1, <2>3 DEF SessionIsExact, Held
    <3> QED  BY <1>1, <1>3, <1>4, <1>5, <1>6, <2>1, <3>1, SnapshotStays
  <2> QED  BY <2>2, <2>3 DEF SessionIsExact
<1>7. ASSUME NEW b \in Buckets  PROVE RowIsExact(b)'
  BY <1>1, <1>3, <1>5, RowStays DEF ExactInv
<1> QED  BY <1>2, <1>6, <1>7 DEF ExactInv

\* Every step keeps everything exact.
LEMMA ExactStep ==
  ASSUME Typed, JobInv, ExactInv, NothingIsSkipped, [Next]_vars
  PROVE  ExactInv'
<1>1. ASSUME NEW w \in Workers, session' = [session EXCEPT ![w] = None],
             UNCHANGED <<setting, received, watermark, bucket, raced>>
      PROVE  ExactInv'
  BY <1>1, OneMoves
<1>2. ASSUME NEW w \in Workers, Complete(w) \/ Lose(w) \/ BreakDeadlock(w)  PROVE ExactInv'
  <2>1. session' = [session EXCEPT ![w] = None]
        /\ UNCHANGED <<setting, received, watermark, bucket, raced>>
    BY <1>2 DEF Complete, Lose, BreakDeadlock, Settle, stored
  <2> QED  BY <1>1, <2>1
<1>3. ASSUME NEW w \in Workers, RebuildNext(w)  PROVE ExactInv'
  <2>1. PICK e \in session[w].left :
          \/ FailPermanently(w, Rebuild)
          \/ session' = [session EXCEPT
                           ![w] = [Processing(session[w], e) EXCEPT !.left = @ \ {e}]]
    BY <1>3 DEF RebuildNext
  <2>2. UNCHANGED <<setting, received, watermark, bucket, raced>>
    BY <1>3 DEF RebuildNext, stored
  <2>3. CASE FailPermanently(w, Rebuild)
    BY <1>1, <2>2, <2>3 DEF FailPermanently, Settle
  <2>4. CASE session' = [session EXCEPT
                           ![w] = [Processing(session[w], e) EXCEPT !.left = @ \ {e}]]
    <3>1. session[w] # None /\ session[w].phase = "between" /\ session[w] \in Session
      BY <1>3, SessionIsTyped DEF RebuildNext, Typed
    <3>2. e \in Events
      BY <3>1 DEF Session
    <3>3. Fresh([Processing(session[w], e) EXCEPT !.left = @ \ {e}])
      BY <3>1, <3>2, NextIsFresh
    <3> QED  BY <2>2, <2>4, <3>3, OneMoves
  <2> QED  BY <2>1, <2>3, <2>4
<1>4. ASSUME NEW w \in Workers, Read(w)  PROVE ExactInv'
  <2>1. CASE AggregateThrows(Effective, Head(session[w].todo))
    <3>1. session' = [session EXCEPT ![w] = None]
          /\ UNCHANGED <<setting, received, watermark, bucket, raced>>
      BY <1>4, <2>1 DEF Read, FailPermanently, Settle, stored
    <3> QED  BY <1>1, <3>1
  <2>2. CASE ~AggregateThrows(Effective, Head(session[w].todo))
    BY <1>4, <2>2, ReadIsExact
  <2> QED  BY <2>1, <2>2
<1>5. ASSUME NEW w \in Workers, Begin(w) \/ Proceed(w) \/ Lose(w) \/ BreakDeadlock(w)
      PROVE  ExactInv'
  BY <1>2, <1>3, <1>4, <1>5, BeginIsExact, CompareIsExact, WriteIsExact, CommitIsExact DEF Proceed
<1>6. CASE (\E e \in Events : Accept(e)) \/ CreateRun \/ QueueRebuild \/ Redact \/ Tick
           \/ UNCHANGED vars
  BY <1>6, OutsideIsExact
<1> QED  BY <1>5, <1>6 DEF Next

\* A bucket whose events are processed is exactly their terminal effective events, unless its
\* last writer ran beside another one or was a repair that newer events preceded: after any
\* losses, deadlocks, rebuilds and runs, and after retention too, as long as no meter skips
\* the events that have lost their properties.
THEOREM BucketsAreExact ==
  ASSUME NothingIsSkipped
  PROVE  Spec => []UnracedBucketsAreExact
<1>1. Init => Typed /\ JobInv /\ ExactInv
  <2>1. ASSUME Init  PROVE JobInv
    BY <2>1 DEF Init, JobInv, FailsForOlderEventsOnly, Jobs
  <2>2. ASSUME Init  PROVE ExactInv
    <3>1. Stored = {} /\ redacted = {} /\ Run \in Jobs
      BY <2>2 DEF Init, Stored, Jobs
    <3>2. ClockInv
      BY <2>2, <3>1 DEF Init, ClockInv, Jobs
    <3>3. \A b \in Buckets : bucket[b] = Content({}, b)
      BY <2>2 DEF Init, Content, Within, EffectiveOf
    <3>4. \A b \in Buckets : RowIsExact(b)
      BY <3>1, <3>3 DEF RowIsExact
    <3> QED  BY <2>2, <3>2, <3>4 DEF Init, ExactInv
  <2> QED  BY <2>1, <2>2, InitIsTyped
<1>2. Typed /\ JobInv /\ ExactInv /\ [Next]_vars => Typed' /\ JobInv' /\ ExactInv'
  BY TypedStep, JobStep, ExactStep
<1>3. Typed /\ ExactInv => UnracedBucketsAreExact
  <2> SUFFICES ASSUME Typed, ExactInv, NEW b \in Buckets, Processed(b), b \notin raced
               PROVE  bucket[b] = Within(Effective, b)
    BY DEF UnracedBucketsAreExact
  <2>1. PICK S \in SUBSET Stored :
          /\ bucket[b] = Content(S, b)
          /\ \A e \in Stored : Affects(e, b) /\ Passed(e, b) => e \in S
    BY DEF ExactInv, RowIsExact
  <2>2. \A e \in Stored : Affects(e, b) => e \in S
    BY <2>1 DEF Processed, Affects, Passed
  <2>3. Content(S, b) = Content(Stored, b)
    BY <2>2, ContentIsDecided DEF Typed
  <2>4. Effective = EffectiveOf(Stored)
    BY EffectiveIsContent DEF ExactInv
  <2> QED  BY <2>1, <2>3, <2>4 DEF Content
<1> QED  BY <1>1, <1>2, <1>3, PTL DEF Spec
=============================================================================
