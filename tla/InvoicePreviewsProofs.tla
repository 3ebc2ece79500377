----------------------- MODULE InvoicePreviewsProofs ------------------------
(***************************************************************************)
(* Proofs about InvoicePreviews: the types, that one revision at a time is *)
(* asked for and awaited, that outcomes are final, and which events the    *)
(* revisions of a series have seen.                                        *)
(***************************************************************************)
EXTENDS InvoicePreviews, TLAPS

-----------------------------------------------------------------------------
(* Sessions *)

Sessions == [Workers -> Session \union {None}]

Phases == {"series", "latest", "row", "exports", "insert", "lock", "repair", "watermark",
           "events", "complete", "failing", "ended", "failed"}

Rows == Revisions \union Exports \union {Run}

Locks == Rows \union {Series}

\* A session becomes s, which only moves on to another phase with other locks.
Becomes(w, s, phase, locks) ==
  /\ s \in Session /\ session' = [session EXCEPT ![w] = s]
  /\ s.phase = phase /\ s.locks = locks
  /\ s.task = session[w].task /\ s.latest = session[w].latest

\* The transaction ends or goes on with other locks.
LEMMA LockingBecomes ==
  ASSUME session \in Sessions, NEW w \in Workers, session[w] # None,
         NEW phase \in Phases, NEW locks \in SUBSET Locks,
         session' = [session EXCEPT ![w].phase = phase, ![w].locks = locks]
  PROVE  \E s : Becomes(w, s, phase, locks)
<1> DEFINE s == [session[w] EXCEPT !.phase = phase, !.locks = locks]
<1>1. session[w] \in Session
  BY DEF Sessions
<1>2. /\ s \in Session /\ s.phase = phase /\ s.locks = locks
      /\ s.task = session[w].task /\ s.latest = session[w].latest
  BY <1>1 DEF Session, Phases, Locks, Rows
<1>3. session' = [session EXCEPT ![w] = s]
  BY <1>1 DEF Sessions, Session
<1> HIDE DEF s
<1> QED  BY <1>2, <1>3, Zenon DEF Becomes

\* Handlers that end their transaction.
LEMMA LeaveBecomes ==
  ASSUME session \in Sessions, NEW w \in Workers, session[w] # None,
         NEW phase \in Phases, Leave(w, phase)
  PROVE  \E s : Becomes(w, s, phase, {})
BY LockingBecomes DEF Leave

\* Handlers that read or lock something and go on.
LEMMA MovingBecomes ==
  ASSUME session \in Sessions, NEW w \in Workers, session[w] # None, NEW phase \in Phases,
         session' = [session EXCEPT ![w].phase = phase]
  PROVE  \E s : Becomes(w, s, phase, session[w].locks)
<1> DEFINE s == [session[w] EXCEPT !.phase = phase]
<1>1. session[w] \in Session
  BY DEF Sessions
<1>2. /\ s \in Session /\ s.phase = phase /\ s.locks = session[w].locks
      /\ s.task = session[w].task /\ s.latest = session[w].latest
  BY <1>1 DEF Session, Phases
<1>3. session' = [session EXCEPT ![w] = s]
  BY <1>1 DEF Sessions, Session
<1> HIDE DEF s
<1> QED  BY <1>2, <1>3, Zenon DEF Becomes

LEMMA FoundBecomes ==
  ASSUME session \in Sessions, NEW w \in Workers, session[w] # None, NEW r \in Revisions,
         session' = [session EXCEPT ![w].phase = "row", ![w].latest = r]
  PROVE  \E s : /\ s \in Session /\ session' = [session EXCEPT ![w] = s]
                /\ s.phase = "row" /\ s.locks = session[w].locks
                /\ s.task = session[w].task /\ s.latest = r
<1> DEFINE s == [session[w] EXCEPT !.phase = "row", !.latest = r]
<1>1. session[w] \in Session
  BY DEF Sessions
<1>2. /\ s \in Session /\ s.phase = "row" /\ s.locks = session[w].locks
      /\ s.task = session[w].task /\ s.latest = r
  BY <1>1 DEF Session
<1>3. session' = [session EXCEPT ![w] = s]
  BY <1>1 DEF Sessions, Session
<1> HIDE DEF s
<1> QED  BY <1>2, <1>3, Zenon

LEMMA AdjustingBecomes ==
  ASSUME session \in Sessions, NEW w \in Workers, session[w] # None,
         NEW a \in Revisions \union {None},
         session' = [session EXCEPT ![w].phase = "insert", ![w].adjusts = a]
  PROVE  \E s : Becomes(w, s, "insert", session[w].locks)
<1> DEFINE s == [session[w] EXCEPT !.phase = "insert", !.adjusts = a]
<1>1. session[w] \in Session
  BY DEF Sessions
<1>2. /\ s \in Session /\ s.phase = "insert" /\ s.locks = session[w].locks
      /\ s.task = session[w].task /\ s.latest = session[w].latest
  BY <1>1 DEF Session
<1>3. session' = [session EXCEPT ![w] = s]
  BY <1>1 DEF Sessions, Session
<1> HIDE DEF s
<1> QED  BY <1>2, <1>3, Zenon DEF Becomes

LEMMA WatermarkBecomes ==
  ASSUME session \in Sessions, NEW w \in Workers, session[w] # None, NEW at \in Nat,
         session' = [session EXCEPT ![w].phase = "events", ![w].watermark = at]
  PROVE  \E s : Becomes(w, s, "events", session[w].locks)
<1> DEFINE s == [session[w] EXCEPT !.phase = "events", !.watermark = at]
<1>1. session[w] \in Session
  BY DEF Sessions
<1>2. /\ s \in Session /\ s.phase = "events" /\ s.locks = session[w].locks
      /\ s.task = session[w].task /\ s.latest = session[w].latest
  BY <1>1 DEF Session
<1>3. session' = [session EXCEPT ![w] = s]
  BY <1>1 DEF Sessions, Session
<1> HIDE DEF s
<1> QED  BY <1>2, <1>3, Zenon DEF Becomes

LEMMA CountedBecomes ==
  ASSUME session \in Sessions, NEW w \in Workers, session[w] # None,
         NEW counted \in SUBSET Events, NEW seen \in SUBSET Events,
         session' = [session EXCEPT ![w].phase = "complete", ![w].counted = counted,
                                    ![w].seen = seen]
  PROVE  \E s : Becomes(w, s, "complete", session[w].locks)
<1> DEFINE s == [session[w] EXCEPT !.phase = "complete", !.counted = counted, !.seen = seen]
<1>1. session[w] \in Session
  BY DEF Sessions
<1>2. /\ s \in Session /\ s.phase = "complete" /\ s.locks = session[w].locks
      /\ s.task = session[w].task /\ s.latest = session[w].latest
  BY <1>1 DEF Session
<1>3. session' = [session EXCEPT ![w] = s]
  BY <1>1 DEF Sessions, Session
<1> HIDE DEF s
<1> QED  BY <1>2, <1>3, Zenon DEF Becomes

\* A new session.
LEMMA OpenedIsTyped ==
  ASSUME now \in Nat, NEW j \in Jobs, NEW phase \in Phases
  PROVE  /\ Opened(j, phase) \in Session
         /\ Opened(j, phase).phase = phase /\ Opened(j, phase).locks = {}
         /\ Opened(j, phase).task = j
BY DEF Opened, Session, Phases

-----------------------------------------------------------------------------
(* The inductive invariant *)

Exists(row) ==
  IF row = Run THEN run # "none"
  ELSE IF row \in Revisions THEN preview[row] # None ELSE export[row] # None

\* The revisions have no gap, and only the latest may be pending.
Numbered ==
  \A r \in Requested :
    /\ \A q \in Revisions : q <= r => q \in Requested
    /\ preview[r].status = "pending" => IsLatest(r)

\* An export stays with a completed revision.
Pinned ==
  \A x \in Exports : export[x] # None =>
    preview[export[x].revision] # None /\ preview[export[x].revision].status = "completed"

JobsHaveRows == \A row \in Rows : job[row] # "none" => Exists(row)

\* What a handler knows from the statements it has behind it, as long as its locks last.
Knows(s) ==
  /\ s.task \in Rows => Exists(s.task)
  /\ s.phase \in {"lock", "failing", "repair", "watermark", "events", "complete"} =>
       s.task \in Rows
  /\ s.phase \in {"repair", "watermark", "events", "complete"} =>
       s.task \in s.locks /\ Status(s.task) = "pending"
  /\ s.phase = "repair" => s.task = Run
  /\ s.phase \in {"watermark", "events"} => s.task \in Revisions
  /\ s.phase = "complete" => s.task # Run
  /\ s.phase \in {"series", "latest", "row", "exports", "insert"} =>
       /\ s.task \in Events \union {Run}
       /\ s.task = Run => Run \in s.locks /\ run = "pending"
  /\ s.phase \in {"latest", "row", "exports", "insert"} => Series \in s.locks
  /\ s.phase \in {"row", "exports", "insert"} => s.latest \in Revisions /\ IsLatest(s.latest)
  /\ s.phase \in {"exports", "insert"} => preview[s.latest].status # "pending"

HandlersKnow == \A w \in Workers : session[w] # None => Knows(session[w])

LocksExclude ==
  \A w, o \in Workers : w # o /\ session[w] # None /\ session[o] # None =>
    session[w].locks \intersect session[o].locks = {}

TablesInv == Numbered /\ Pinned /\ JobsHaveRows

IInv == TypeOK /\ TablesInv /\ HandlersKnow /\ LocksExclude

\* The types of all variables but the sessions.
TablesTyped ==
  /\ now \in Nat /\ lost \in Nat
  /\ setting \in Settings
  /\ received \in [Events -> Nat \union {None}]
  /\ redacted \subseteq Events
  /\ preview \in [Revisions -> Preview \union {None}]
  /\ export \in [Exports -> Export \union {None}]
  /\ run \in {"none", "pending", "completed", "failed"}
  /\ job \in [Jobs -> {"none", "queued", "done", "failed", "exhausted"}]
  /\ holder \in [Jobs -> Workers \union {None}]

LEMMA TypesSplit == TypeOK <=> TablesTyped /\ session \in Sessions
BY DEF TypeOK, TablesTyped, Sessions

\* The kinds of rows and locks differ.
LEMMA KindsDiffer ==
  /\ Run \notin Revisions /\ Run \notin Exports /\ Run \notin Events
  /\ Series \notin Rows /\ Exports \intersect Revisions = {}
  /\ Events \intersect Revisions = {}
  /\ Revisions \subseteq Nat /\ None \notin Revisions
BY ConstantsAssumption DEF Revisions, Rows

-----------------------------------------------------------------------------
(* What a step of one handler does to the others *)

\* No row appears under a handler or goes away, and none that it has locked is settled.
Undisturbed(o) ==
  /\ \A row \in Rows : Exists(row) => Exists(row)'
  /\ \A row \in Rows : /\ Exists(row) /\ Status(row) = "pending"
                       /\ row \in session[o].locks
                       => Status(row)' = "pending"
  /\ Series \in session[o].locks /\ Requested # {} => Requested' = Requested
  /\ \A r \in Requested : preview[r].status # "pending" => preview'[r].status # "pending"

\* What a handler knows stays true while nobody disturbs it.
LEMMA UndisturbedKnow ==
  ASSUME NEW o \in Workers, session[o] # None, session'[o] = session[o],
         Knows(session[o]), Undisturbed(o)
  PROVE  Knows(session[o])'
<1> DEFINE s == session[o]
<1>1. s.task \in Rows => Exists(s.task)'
  BY DEF Knows, Undisturbed
<1>2. s.phase \in {"repair", "watermark", "events", "complete"} => Status(s.task)' = "pending"
  BY DEF Knows, Undisturbed
<1>3. s.phase \in {"series", "latest", "row", "exports", "insert"} =>
        (s.task = Run => run' = "pending")
  <2>1. CASE s.task = Run /\ s.phase \in {"series", "latest", "row", "exports", "insert"}
    <3>1. Exists(Run) /\ Status(Run) = "pending" /\ Run \in session[o].locks /\ Run \in Rows
      BY <2>1 DEF Knows, Exists, Status, Rows
    <3>2. Status(Run)' = "pending"
      BY <3>1 DEF Undisturbed
    <3> QED  BY <3>2 DEF Status
  <2> QED  BY <2>1
<1>4. s.phase \in {"row", "exports", "insert"} => s.latest \in Revisions /\ Requested' = Requested
  BY DEF Knows, Undisturbed, IsLatest
<1>5. s.phase \in {"row", "exports", "insert"} => IsLatest(s.latest)'
  BY <1>4 DEF Knows, IsLatest
<1>6. s.phase \in {"exports", "insert"} => preview'[s.latest].status # "pending"
  BY <1>4 DEF Knows, Undisturbed, IsLatest
<1> QED  BY <1>1, <1>2, <1>3, <1>4, <1>5, <1>6 DEF Knows

\* A handler takes a lock only when no other one has it.
Takes(w, locks) ==
  \A lock \in locks : Free(w, lock) \/ (session[w] # None /\ lock \in session[w].locks)

\* What a handler has to show of its step.
LEMMA HandlerStep ==
  ASSUME IInv, NEW w \in Workers, NEW s \in Session,
         session' = [session EXCEPT ![w] = s], Takes(w, s.locks), Knows(session[w])',
         \A o \in Workers \ {w} : session[o] # None => Undisturbed(o),
         TablesTyped', TablesInv'
  PROVE  IInv'
<1>1. session \in Sessions
  BY TypesSplit DEF IInv
<1>2. /\ session' \in Sessions /\ session'[w] = s
      /\ \A o \in Workers \ {w} : session'[o] = session[o]
  BY <1>1 DEF Sessions
<1>3. TypeOK'
  BY <1>2 DEF TypeOK, TablesTyped, Sessions
<1>4. HandlersKnow'
  <2>1. ASSUME NEW o \in Workers \ {w}, session'[o] # None  PROVE Knows(session[o])'
    BY <1>2, <2>1, UndisturbedKnow DEF IInv, HandlersKnow
  <2> QED  BY <2>1 DEF HandlersKnow
<1>5. LocksExclude'
  <2>1. ASSUME NEW o \in Workers \ {w}, session[o] # None
        PROVE  s.locks \intersect session[o].locks = {}
    BY <2>1 DEF Takes, Free, IInv, LocksExclude
  <2>2. ASSUME NEW v \in Workers, NEW o \in Workers, v # o, session'[v] # None,
               session'[o] # None
        PROVE  session'[v].locks \intersect session'[o].locks = {}
    BY <1>2, <2>1, <2>2 DEF IInv, LocksExclude
  <2> QED  BY <2>2 DEF LocksExclude
<1> QED  BY <1>3, <1>4, <1>5 DEF IInv

SameRows == UNCHANGED <<preview, export, run>>

\* A step that changes no row disturbs nobody, and leaves what the tables are known to be.
LEMMA SameRowsKeep ==
  ASSUME IInv, SameRows
  PROVE  /\ Numbered' /\ Pinned'
         /\ \A o \in Workers : session[o] # None => Undisturbed(o)
         /\ \A row \in Rows : Exists(row)' = Exists(row)
         /\ job' = job => JobsHaveRows'
<1>1. \A row : Exists(row)' = Exists(row) /\ Status(row)' = Status(row)
  BY DEF SameRows, Exists, Status
<1>2. Requested' = Requested
  BY DEF SameRows, Requested
<1>3. \A r : IsLatest(r)' <=> IsLatest(r)
  BY <1>2 DEF IsLatest
<1>4. Numbered'
  BY <1>2, <1>3 DEF SameRows, IInv, TablesInv, Numbered
<1>5. Pinned'
  BY DEF SameRows, IInv, TablesInv, Pinned
<1>6. \A o \in Workers : session[o] # None => Undisturbed(o)
  BY <1>1, <1>2 DEF Undisturbed, SameRows
<1>7. job' = job => JobsHaveRows'
  BY <1>1 DEF IInv, TablesInv, JobsHaveRows
<1> QED  BY <1>1, <1>4, <1>5, <1>6, <1>7

\* A handler that reads or locks something, or ends its transaction without a write.
LEMMA ReadingStep ==
  ASSUME IInv, NEW w \in Workers, NEW s \in Session,
         session' = [session EXCEPT ![w] = s], Takes(w, s.locks), SameRows,
         Knows(s), TablesTyped', job' = job
  PROVE  IInv'
<1>1. session'[w] = s
  BY TypesSplit DEF IInv, Sessions
<1>2. \A row : Exists(row)' = Exists(row) /\ Status(row)' = Status(row)
  BY DEF SameRows, Exists, Status
<1>3. Requested' = Requested
  BY DEF SameRows, Requested
<1>4. Knows(session[w])'
  BY <1>1, <1>2, <1>3 DEF Knows, IsLatest, SameRows
<1>5. /\ \A o \in Workers \ {w} : session[o] # None => Undisturbed(o)
      /\ TablesInv'
  BY SameRowsKeep DEF TablesInv
<1> QED  BY <1>4, <1>5, HandlerStep

-----------------------------------------------------------------------------
(* Handlers that only read and lock *)

\* What holds of a handler at work.
LEMMA AtWork ==
  ASSUME IInv, NEW w \in Workers, session[w] # None
  PROVE  /\ session \in Sessions /\ session[w] \in Session /\ Knows(session[w])
         /\ TablesTyped /\ session[w].locks \in SUBSET Locks
BY TypesSplit DEF IInv, Sessions, HandlersKnow, Session, Locks, Rows

AllTables == <<now, events, preview, export, run, queue>>

LEMMA SameTablesAreTyped ==
  ASSUME TablesTyped, UNCHANGED AllTables
  PROVE  TablesTyped' /\ SameRows /\ job' = job
BY DEF TablesTyped, AllTables, events, queue, SameRows

\* A handler that starts knows that the row of its job exists.
LEMMA BeginKeeps ==
  ASSUME IInv, NEW w \in Workers, Begin(w)
  PROVE  IInv'
<1>0. TablesTyped /\ session \in Sessions
  BY TypesSplit DEF IInv
<1>1. PICK j \in Jobs, phase \in {"series", "failed", "lock"} :
        /\ Claims(w, j)
        /\ session' = [session EXCEPT ![w] = Opened(j, phase)]
        /\ UNCHANGED <<now, events, preview, export, run, job>>
        /\ phase = "lock" => j \in Rows
        /\ phase # "lock" => j \in Events
  BY DEF Begin, BeginEvent, BeginRow, Jobs, Rows
<1>2. /\ Opened(j, phase) \in Session
      /\ Opened(j, phase).phase = phase /\ Opened(j, phase).locks = {}
      /\ Opened(j, phase).task = j
  BY <1>0, <1>1, OpenedIsTyped DEF Phases, TablesTyped
<1>3. TablesTyped' /\ SameRows
  BY <1>0, <1>1 DEF TablesTyped, SameRows, events, Claims, Loses
<1>4. j \in Rows => Exists(j)
  BY <1>1 DEF Claims, IInv, TablesInv, JobsHaveRows
<1> DEFINE s == Opened(j, phase)
<1> HIDE DEF s
<1>5. s.phase = phase /\ s.locks = {} /\ s.task = j /\ s \in Session
  BY <1>2 DEF s
<1>6. Knows(s)
  BY <1>1, <1>4, <1>5, KindsDiffer DEF Knows
<1>7. Takes(w, s.locks)
  BY <1>5 DEF Takes
<1>8. session' = [session EXCEPT ![w] = s]
  BY <1>1 DEF s
<1> QED  BY <1>1, <1>3, <1>5, <1>6, <1>7, <1>8, ReadingStep

\* Whoever holds the lock of the series knows the latest revision.
LEMMA FindLatestKeeps ==
  ASSUME IInv, NEW w \in Workers, FindLatest(w)
  PROVE  IInv'
<1>1. /\ session \in Sessions /\ session[w] # None /\ session[w] \in Session
      /\ Knows(session[w]) /\ TablesTyped
  BY AtWork DEF FindLatest, In
<1>2. TablesTyped' /\ SameRows /\ job' = job
  BY <1>1, SameTablesAreTyped DEF FindLatest, AllTables
<1>3. PICK r \in Revisions :
        IsLatest(r) /\ session' = [session EXCEPT ![w].phase = "row", ![w].latest = r]
  BY DEF FindLatest
<1>4. PICK s : /\ s \in Session /\ session' = [session EXCEPT ![w] = s]
               /\ s.phase = "row" /\ s.locks = session[w].locks
               /\ s.task = session[w].task /\ s.latest = r
  BY <1>1, <1>3, FoundBecomes, Zenon
<1>5. Knows(s)
  BY <1>1, <1>3, <1>4 DEF Knows, FindLatest, In
<1>6. Takes(w, s.locks)
  BY <1>1, <1>4 DEF Takes
<1> QED  BY <1>2, <1>4, <1>5, <1>6, ReadingStep

\* The revision it has found is still the latest when it gets its row.
LEMMA ReadExportsKeeps ==
  ASSUME IInv, NEW w \in Workers, ReadExports(w)
  PROVE  IInv'
<1>1. /\ session \in Sessions /\ session[w] # None /\ session[w] \in Session
      /\ Knows(session[w]) /\ TablesTyped
  BY AtWork DEF ReadExports, In
<1>2. TablesTyped' /\ SameRows /\ job' = job
  BY <1>1, SameTablesAreTyped DEF ReadExports, AllTables
<1>3. PICK a \in Revisions \union {None} :
        session' = [session EXCEPT ![w].phase = "insert", ![w].adjusts = a]
  <2>1. session[w].latest \in Revisions
    BY <1>1 DEF Knows, ReadExports, In
  <2> QED  BY <2>1 DEF ReadExports
<1>4. PICK s : Becomes(w, s, "insert", session[w].locks)
  BY <1>1, <1>3, AdjustingBecomes, Zenon
<1>5. Knows(s)
  BY <1>1, <1>4 DEF Knows, ReadExports, In, Becomes
<1>6. Takes(w, s.locks)
  BY <1>1, <1>4 DEF Takes, Becomes
<1> QED  BY <1>2, <1>4, <1>5, <1>6, ReadingStep DEF Becomes

LEMMA ReadWatermarkKeeps ==
  ASSUME IInv, NEW w \in Workers, ReadWatermark(w)
  PROVE  IInv'
<1>1. /\ session \in Sessions /\ session[w] # None /\ session[w] \in Session
      /\ Knows(session[w]) /\ TablesTyped
  BY AtWork DEF ReadWatermark, In
<1>2. TablesTyped' /\ SameRows /\ job' = job
  BY <1>1, SameTablesAreTyped DEF ReadWatermark, AllTables
<1>3. PICK at \in Nat :
        session' = [session EXCEPT ![w].phase = "events", ![w].watermark = at]
  <2>1. session[w].task \in Revisions /\ Exists(session[w].task)
    BY <1>1 DEF Knows, ReadWatermark, In, Rows
  <2>2. preview[session[w].task] \in Preview
    BY <1>1, <2>1, KindsDiffer DEF Exists, TablesTyped
  <2>3. preview[session[w].task].created \in Nat
    BY <2>2 DEF Preview
  <2>4. \A e \in Stored : received[e] \in Nat
    BY <1>1 DEF Stored, TablesTyped
  <2> DEFINE created == preview[session[w].task].created
             last == {at \in {received[e] : e \in Stored} :
                        \A e \in Stored : received[e] <= at}
             marks == IF Stored = {} THEN {created} ELSE last
  <2>5. \E at \in marks :
          session' = [session EXCEPT ![w].phase = "events", ![w].watermark = at]
    BY DEF ReadWatermark
  <2>6. \A at \in marks : at \in Nat
    BY <2>3, <2>4
  <2> HIDE DEF marks
  <2> QED  BY <2>5, <2>6
<1>4. PICK s : Becomes(w, s, "events", session[w].locks)
  BY <1>1, <1>3, WatermarkBecomes, Zenon
<1>5. Knows(s)
  BY <1>1, <1>4 DEF Knows, ReadWatermark, In, Becomes
<1>6. Takes(w, s.locks)
  BY <1>1, <1>4 DEF Takes, Becomes
<1> QED  BY <1>2, <1>4, <1>5, <1>6, ReadingStep DEF Becomes

LEMMA ReadEventsKeeps ==
  ASSUME IInv, NEW w \in Workers, ReadEvents(w)
  PROVE  IInv'
<1>1. /\ session \in Sessions /\ session[w] # None /\ session[w] \in Session
      /\ Knows(session[w]) /\ TablesTyped /\ session[w].phase = "events"
  BY AtWork DEF ReadEvents, In
<1>2. TablesTyped' /\ SameRows /\ job' = job
  BY <1>1, SameTablesAreTyped DEF ReadEvents, AllTables
<1> DEFINE counted == EffectiveAt(session[w].watermark)
<1>3. counted \in SUBSET Events /\ Stored \in SUBSET Events
  BY DEF EffectiveAt, Stored
<1>4. CASE Leave(w, "failing")
  <2>1. PICK s : Becomes(w, s, "failing", {})
    BY <1>1, <1>4, LeaveBecomes, Zenon DEF Phases
  <2>2. Knows(s)
    BY <1>1, <2>1 DEF Knows, Becomes
  <2>3. Takes(w, s.locks)
    BY <2>1 DEF Takes, Becomes
  <2> QED  BY <1>2, <2>1, <2>2, <2>3, ReadingStep DEF Becomes
<1>5. CASE ~Leave(w, "failing")
  <2>1. session' = [session EXCEPT ![w].phase = "complete", ![w].counted = counted,
                                   ![w].seen = Stored]
    BY <1>5 DEF ReadEvents
  <2> HIDE DEF counted
  <2>2. PICK s : Becomes(w, s, "complete", session[w].locks)
    BY <1>1, <1>3, <2>1, CountedBecomes, Zenon
  <2>3. Knows(s)
    BY <1>1, <2>2, KindsDiffer DEF Knows, Becomes
  <2>4. Takes(w, s.locks)
    BY <1>1, <2>2 DEF Takes, Becomes
  <2> QED  BY <1>2, <2>2, <2>3, <2>4, ReadingStep DEF Becomes
<1> QED  BY <1>4, <1>5

\* A handler that gets its row and finds it pending knows both until it ends.
LEMMA LockRowKeeps ==
  ASSUME IInv, NEW w \in Workers, LockRow(w)
  PROVE  IInv'
<1>1. /\ session \in Sessions /\ session[w] # None /\ session[w] \in Session
      /\ Knows(session[w]) /\ TablesTyped /\ session[w].phase = "lock"
  BY AtWork DEF LockRow, In
<1>2. TablesTyped' /\ SameRows /\ job' = job
  BY <1>1, SameTablesAreTyped DEF LockRow, AllTables
<1> DEFINE row == session[w].task
<1>3. row \in Rows /\ Exists(row) /\ Free(w, row)
  BY <1>1 DEF Knows, LockRow
<1>4. CASE Leave(w, "ended")
  <2>1. PICK s : Becomes(w, s, "ended", {})
    BY <1>1, <1>4, LeaveBecomes, Zenon DEF Phases
  <2>2. Knows(s)
    BY <1>1, <2>1 DEF Knows, Becomes
  <2>3. Takes(w, s.locks)
    BY <2>1 DEF Takes, Becomes
  <2> QED  BY <1>2, <2>1, <2>2, <2>3, ReadingStep DEF Becomes
<1>5. CASE ~Leave(w, "ended")
  <2>1. /\ Status(row) = "pending"
        /\ session' = [session EXCEPT ![w].locks = {row}, ![w].phase = FirstPhase(row)]
    BY <1>5 DEF LockRow
  <2>2. FirstPhase(row) \in Phases /\ {row} \in SUBSET Locks
    BY <1>3 DEF FirstPhase, Phases, Locks
  <2>3. session' = [session EXCEPT ![w].phase = FirstPhase(row), ![w].locks = {row}]
    BY <1>1, <2>1 DEF Sessions, Session
  <2>4. PICK s : Becomes(w, s, FirstPhase(row), {row})
    <3> HIDE DEF row
    <3> QED  BY <1>1, <2>2, <2>3, LockingBecomes, Zenon
  <2>5. Knows(s)
    BY <1>1, <1>3, <2>1, <2>4, KindsDiffer DEF Knows, Becomes, FirstPhase
  <2>6. Takes(w, s.locks)
    BY <1>3, <2>4 DEF Takes, Becomes
  <2> QED  BY <1>2, <2>4, <2>5, <2>6, ReadingStep DEF Becomes
<1> QED  BY <1>4, <1>5

-----------------------------------------------------------------------------
(* Handlers that end, and settle their row *)

\* What others have locked is not what a handler with this lock writes.
LEMMA OthersHaveOtherLocks ==
  ASSUME IInv, NEW w \in Workers, NEW lock, session[w] # None,
         lock \in session[w].locks \/ Free(w, lock)
  PROVE  \A o \in Workers \ {w} : session[o] # None => lock \notin session[o].locks
BY DEF IInv, LocksExclude, Free

\* A handler that ends and settles the repair.
LEMMA SettlingRun ==
  ASSUME IInv, NEW w \in Workers, session[w] # None, NEW phase \in {"ended", "failed"},
         session[w].task = Run, Run \in session[w].locks \/ Free(w, Run), run = "pending",
         run' \in {"completed", "failed"}, Leave(w, phase),
         UNCHANGED <<now, events, preview, export, queue>>
  PROVE  IInv'
<1>1. /\ session \in Sessions /\ session[w] \in Session /\ Knows(session[w]) /\ TablesTyped
  BY AtWork
<1>2. PICK s : Becomes(w, s, phase, {})
  BY <1>1, LeaveBecomes, Zenon DEF Phases
<1>3. Takes(w, s.locks)
  BY <1>2 DEF Takes, Becomes
<1>4. TablesTyped'
  BY <1>1 DEF TablesTyped, events, queue
<1>5. \A row : /\ row # Run => Exists(row)' = Exists(row) /\ Status(row)' = Status(row)
               /\ Exists(Run)'
  BY DEF Exists, Status
<1>6. Requested' = Requested
  BY DEF Requested
<1>7. TablesInv'
  <2>1. Numbered'
    BY <1>6 DEF IInv, TablesInv, Numbered, IsLatest
  <2>2. Pinned'
    BY DEF IInv, TablesInv, Pinned
  <2>3. JobsHaveRows'
    BY <1>5 DEF IInv, TablesInv, JobsHaveRows, queue
  <2> QED  BY <2>1, <2>2, <2>3 DEF TablesInv
<1>8. \A o \in Workers \ {w} : session[o] # None => Run \notin session[o].locks
  BY OthersHaveOtherLocks
<1>9. \A o \in Workers \ {w} : session[o] # None => Undisturbed(o)
  BY <1>5, <1>6, <1>8 DEF Undisturbed
<1>10. session'[w] = s /\ s.task = Run /\ s.phase = phase
  BY <1>1, <1>2 DEF Becomes, Sessions
<1>11. Knows(session[w])'
  BY <1>5, <1>10 DEF Knows
<1> QED  BY <1>2, <1>3, <1>4, <1>7, <1>9, <1>11, HandlerStep DEF Becomes

\* A repair that ends is completed; the job of an event that ends writes nothing.
LEMMA ConcludingStep ==
  ASSUME IInv, NEW w \in Workers, session[w] # None,
         session[w].task = Run => Run \in session[w].locks /\ run = "pending",
         Leave(w, "ended"), Conclude(w), UNCHANGED <<now, events, preview, export, queue>>
  PROVE  IInv'
<1>1. /\ session \in Sessions /\ session[w] \in Session /\ Knows(session[w]) /\ TablesTyped
  BY AtWork
<1>2. CASE session[w].task # Run
  <2>1. TablesTyped' /\ SameRows /\ job' = job
    BY <1>1, <1>2, SameTablesAreTyped DEF AllTables, Conclude
  <2>2. PICK s : Becomes(w, s, "ended", {})
    BY <1>1, LeaveBecomes, Zenon DEF Phases
  <2>3. Knows(s)
    BY <1>1, <2>2 DEF Knows, Becomes
  <2>4. Takes(w, s.locks)
    BY <2>2 DEF Takes, Becomes
  <2> QED  BY <2>1, <2>2, <2>3, <2>4, ReadingStep DEF Becomes
<1>3. CASE session[w].task = Run
  BY <1>3, SettlingRun DEF Conclude
<1> QED  BY <1>2, <1>3

LEMMA LockSeriesKeeps ==
  ASSUME IInv, NEW w \in Workers, LockSeries(w)
  PROVE  IInv'
<1>1. /\ session \in Sessions /\ session[w] # None /\ session[w] \in Session
      /\ Knows(session[w]) /\ TablesTyped /\ session[w].phase = "series"
      /\ session[w].locks \in SUBSET Locks
  BY AtWork DEF LockSeries, In
<1>2. session[w].task = Run => Run \in session[w].locks /\ run = "pending"
  BY <1>1 DEF Knows
<1>3. CASE Requested = {}
  BY <1>1, <1>2, <1>3, ConcludingStep DEF LockSeries
<1>4. CASE Requested # {}
  <2>1. TablesTyped' /\ SameRows /\ job' = job
    BY <1>1, <1>4, SameTablesAreTyped DEF LockSeries, AllTables
  <2> DEFINE locks == session[w].locks \union {Series}
  <2>2. /\ Free(w, Series)
        /\ session' = [session EXCEPT ![w].phase = "latest", ![w].locks = locks]
    BY <1>1, <1>4 DEF LockSeries, Sessions, Session
  <2>3. locks \in SUBSET Locks
    BY <1>1 DEF Locks
  <2> HIDE DEF locks
  <2>4. PICK s : Becomes(w, s, "latest", locks)
    BY <1>1, <2>2, <2>3, LockingBecomes, Zenon DEF Phases
  <2>5. Knows(s)
    BY <1>1, <2>4 DEF Knows, Becomes, locks
  <2>6. Takes(w, s.locks)
    BY <1>1, <2>2, <2>4 DEF Takes, Becomes, locks
  <2> QED  BY <2>1, <2>4, <2>5, <2>6, ReadingStep DEF Becomes
<1> QED  BY <1>3, <1>4

LEMMA LockLatestKeeps ==
  ASSUME IInv, NEW w \in Workers, LockLatest(w)
  PROVE  IInv'
<1> DEFINE r == session[w].latest
<1>1. /\ session \in Sessions /\ session[w] # None /\ session[w] \in Session
      /\ Knows(session[w]) /\ TablesTyped /\ session[w].phase = "row"
      /\ session[w].locks \in SUBSET Locks
  BY AtWork DEF LockLatest, In
<1>2. session[w].task = Run => Run \in session[w].locks /\ run = "pending"
  BY <1>1 DEF Knows
<1>3. CASE ~Follows(session[w].task, r)
  BY <1>1, <1>2, <1>3, ConcludingStep DEF LockLatest
<1>4. CASE Follows(session[w].task, r)
  <2>1. TablesTyped' /\ SameRows /\ job' = job
    BY <1>1, <1>4, SameTablesAreTyped DEF LockLatest, AllTables
  <2> DEFINE locks == session[w].locks \union {r}
  <2>2. /\ Free(w, r)
        /\ session' = [session EXCEPT ![w].phase = "exports", ![w].locks = locks]
    BY <1>1, <1>4 DEF LockLatest, Sessions, Session
  <2>3. locks \in SUBSET Locks
    BY <1>1 DEF Locks, Rows, Knows
  <2> HIDE DEF locks
  <2>4. PICK s : Becomes(w, s, "exports", locks)
    BY <1>1, <2>2, <2>3, LockingBecomes, Zenon DEF Phases
  <2>5. Knows(s)
    BY <1>1, <1>4, <2>4 DEF Knows, Becomes, Follows, locks
  <2>6. Takes(w, s.locks)
    BY <1>1, <2>2, <2>4 DEF Takes, Becomes, locks
  <2> QED  BY <2>1, <2>4, <2>5, <2>6, ReadingStep DEF Becomes
<1> QED  BY <1>3, <1>4

LEMMA RepairKeeps ==
  ASSUME IInv, NEW w \in Workers, Repair(w)
  PROVE  IInv'
<1>1. /\ session \in Sessions /\ session[w] # None /\ session[w] \in Session
      /\ Knows(session[w]) /\ TablesTyped /\ session[w].phase = "repair"
  BY AtWork DEF Repair, In
<1>2. session[w].task = Run /\ Run \in session[w].locks /\ run = "pending"
  BY <1>1 DEF Knows, Status
<1>3. CASE Leave(w, "failing") /\ UNCHANGED run
  <2>1. TablesTyped' /\ SameRows /\ job' = job
    BY <1>1, <1>3, SameTablesAreTyped DEF Repair, AllTables
  <2>2. PICK s : Becomes(w, s, "failing", {})
    BY <1>1, <1>3, LeaveBecomes, Zenon DEF Phases
  <2>3. Knows(s)
    BY <1>1, <2>2 DEF Knows, Becomes
  <2>4. Takes(w, s.locks)
    BY <2>2 DEF Takes, Becomes
  <2> QED  BY <2>1, <2>2, <2>3, <2>4, ReadingStep DEF Becomes
<1>4. CASE Leave(w, "ended") /\ Conclude(w)
  BY <1>1, <1>2, <1>4, ConcludingStep DEF Repair
<1>5. CASE session' = [session EXCEPT ![w].phase = "series"] /\ UNCHANGED run
  <2>1. TablesTyped' /\ SameRows /\ job' = job
    BY <1>1, <1>5, SameTablesAreTyped DEF Repair, AllTables
  <2>2. PICK s : Becomes(w, s, "series", session[w].locks)
    BY <1>1, <1>5, MovingBecomes, Zenon DEF Phases
  <2>3. Knows(s)
    BY <1>1, <1>2, <2>2 DEF Knows, Becomes
  <2>4. Takes(w, s.locks)
    BY <1>1, <2>2 DEF Takes, Becomes
  <2> QED  BY <2>1, <2>2, <2>3, <2>4, ReadingStep DEF Becomes
<1> QED  BY <1>3, <1>4, <1>5 DEF Repair

\* A handler that ends and settles its revision.
LEMMA SettlingRevision ==
  ASSUME IInv, NEW w \in Workers, session[w] # None, NEW phase \in {"ended", "failed"},
         NEW r \in Revisions, r = session[w].task,
         r \in session[w].locks \/ Free(w, r),
         Exists(r), preview[r].status = "pending",
         NEW p \in Preview, p.status # "pending", preview' = [preview EXCEPT ![r] = p],
         Leave(w, phase), UNCHANGED <<now, events, export, run, queue>>
  PROVE  IInv'
<1>1. /\ session \in Sessions /\ session[w] \in Session /\ Knows(session[w]) /\ TablesTyped
  BY AtWork
<1>2. PICK s : Becomes(w, s, phase, {})
  BY <1>1, LeaveBecomes, Zenon DEF Phases
<1>3. Takes(w, s.locks)
  BY <1>2 DEF Takes, Becomes
<1>4. p # None /\ preview[r] # None /\ r \in Requested
  BY NoneAssumption, KindsDiffer DEF Exists, Requested
<1>5. TablesTyped'
  BY <1>1 DEF TablesTyped, events, queue
<1>6. /\ \A q \in Revisions : (preview'[q] # None) <=> (preview[q] # None)
      /\ \A q \in Revisions : preview'[q] = IF q = r THEN p ELSE preview[q]
  BY <1>1, <1>4 DEF TablesTyped
<1>7. Requested' = Requested
  BY <1>6 DEF Requested
<1>8. /\ \A row \in Rows : Exists(row) => Exists(row)'
      /\ \A row \in Rows : row # r => Status(row)' = Status(row)
  BY <1>6 DEF Exists, Status, Rows
<1>9. TablesInv'
  <2>1. Numbered'
    BY <1>6, <1>7 DEF IInv, TablesInv, Numbered, IsLatest, Requested
  <2>2. \A x \in Exports : export[x] # None => export[x].revision \in Revisions \ {r}
    BY <1>1, NoneAssumption DEF IInv, TablesInv, Pinned, TablesTyped, Export
  <2>3. Pinned'
    BY <1>6, <2>2 DEF IInv, TablesInv, Pinned
  <2>4. JobsHaveRows'
    BY <1>8 DEF IInv, TablesInv, JobsHaveRows, queue
  <2> QED  BY <2>1, <2>3, <2>4 DEF TablesInv
<1>10. \A o \in Workers \ {w} : session[o] # None => Undisturbed(o)
  <2>1. \A o \in Workers \ {w} : session[o] # None => r \notin session[o].locks
    BY OthersHaveOtherLocks
  <2>2. \A q \in Requested : preview[q].status # "pending" => preview'[q].status # "pending"
    BY <1>6 DEF Requested
  <2> QED  BY <1>7, <1>8, <2>1, <2>2 DEF Undisturbed
<1>11. session'[w] = s /\ s.task = r /\ s.phase = phase
  BY <1>1, <1>2 DEF Becomes, Sessions
<1>12. Knows(session[w])'
  BY <1>4, <1>8, <1>11 DEF Knows
<1> QED  BY <1>2, <1>3, <1>5, <1>9, <1>10, <1>12, HandlerStep DEF Becomes

\* A handler that ends and settles its export.
LEMMA SettlingExport ==
  ASSUME IInv, NEW w \in Workers, session[w] # None, NEW phase \in {"ended", "failed"},
         NEW x \in Exports, x = session[w].task,
         x \in session[w].locks \/ Free(w, x),
         Exists(x), NEW status \in {"completed", "failed"},
         export' = [export EXCEPT ![x].status = status],
         Leave(w, phase), UNCHANGED <<now, events, preview, run, queue>>
  PROVE  IInv'
<1>1. /\ session \in Sessions /\ session[w] \in Session /\ Knows(session[w]) /\ TablesTyped
  BY AtWork
<1>2. PICK s : Becomes(w, s, phase, {})
  BY <1>1, LeaveBecomes, Zenon DEF Phases
<1>3. Takes(w, s.locks)
  BY <1>2 DEF Takes, Becomes
<1>4. export[x] # None /\ export[x] \in Export
  BY <1>1, KindsDiffer DEF Exists, TablesTyped
<1> DEFINE settled == [export[x] EXCEPT !.status = status]
<1>5. settled \in Export /\ settled.revision = export[x].revision
  BY <1>4 DEF Export
<1>6. export' = [export EXCEPT ![x] = settled] /\ settled # None
  BY <1>5, NoneAssumption
<1> HIDE DEF settled
<1>7. TablesTyped'
  BY <1>1, <1>5, <1>6 DEF TablesTyped, events, queue
<1>8. \A y \in Exports : export'[y] = IF y = x THEN settled ELSE export[y]
  BY <1>1, <1>6 DEF TablesTyped
<1>9. Requested' = Requested
  BY DEF Requested
<1>10. /\ \A row \in Rows : Exists(row) => Exists(row)'
       /\ \A row \in Rows : row # x => Status(row)' = Status(row)
  BY <1>6, <1>8 DEF Exists, Status, Rows
<1>11. TablesInv'
  <2>1. Numbered'
    BY <1>9 DEF IInv, TablesInv, Numbered, IsLatest
  <2>2. Pinned'
    BY <1>4, <1>5, <1>8 DEF IInv, TablesInv, Pinned
  <2>3. JobsHaveRows'
    BY <1>10 DEF IInv, TablesInv, JobsHaveRows, queue
  <2> QED  BY <2>1, <2>2, <2>3 DEF TablesInv
<1>12. \A o \in Workers \ {w} : session[o] # None => Undisturbed(o)
  <2>1. \A o \in Workers \ {w} : session[o] # None => x \notin session[o].locks
    BY OthersHaveOtherLocks
  <2> QED  BY <1>9, <1>10, <2>1 DEF Undisturbed
<1>13. session'[w] = s /\ s.task = x /\ s.phase = phase
  BY <1>1, <1>2 DEF Becomes, Sessions
<1>14. Knows(session[w])'
  BY <1>10, <1>13 DEF Knows, Rows
<1> QED  BY <1>2, <1>3, <1>7, <1>11, <1>12, <1>14, HandlerStep DEF Becomes

LEMMA CompletePreviewKeeps ==
  ASSUME IInv, NEW w \in Workers, CompletePreview(w)
  PROVE  IInv'
<1> DEFINE s == session[w]
           r == s.task
           p == [preview[r] EXCEPT !.status = "completed", !.watermark = s.watermark,
                                   !.counted = s.counted, !.seen = s.seen]
<1>1. /\ session \in Sessions /\ s # None /\ s \in Session /\ Knows(s) /\ TablesTyped
      /\ s.phase = "complete" /\ r \in Revisions
  BY AtWork DEF CompletePreview, In
<1>2. Exists(r) /\ r \in s.locks /\ preview[r].status = "pending"
  BY <1>1, KindsDiffer DEF Knows, Rows, Status
<1>3. preview[r] \in Preview
  BY <1>1, <1>2, KindsDiffer DEF Exists, TablesTyped
<1>4. p \in Preview /\ p.status # "pending"
  BY <1>1, <1>3 DEF Preview, Session
<1>5. preview' = [preview EXCEPT ![r] = p]
  BY DEF CompletePreview
<1>6. Leave(w, "ended") /\ UNCHANGED <<now, events, export, run, queue>>
  BY DEF CompletePreview
<1> HIDE DEF p
<1> QED  BY <1>1, <1>2, <1>4, <1>5, <1>6, SettlingRevision

\* A handler that goes on to record a failure, or has found it recorded.
LEMMA FailingStep ==
  ASSUME IInv, NEW w \in Workers, session[w] # None, NEW phase \in {"failing", "failed"},
         session[w].task \in Rows, Leave(w, phase), UNCHANGED AllTables
  PROVE  IInv'
<1>1. /\ session \in Sessions /\ session[w] \in Session /\ Knows(session[w]) /\ TablesTyped
  BY AtWork
<1>2. TablesTyped' /\ SameRows /\ job' = job
  BY <1>1, SameTablesAreTyped
<1>3. PICK s : Becomes(w, s, phase, {})
  BY <1>1, LeaveBecomes, Zenon DEF Phases
<1>4. Knows(s)
  BY <1>1, <1>3 DEF Knows, Becomes
<1>5. Takes(w, s.locks)
  BY <1>3 DEF Takes, Becomes
<1> QED  BY <1>2, <1>3, <1>4, <1>5, ReadingStep DEF Becomes

LEMMA CompleteExportKeeps ==
  ASSUME IInv, NEW w \in Workers, CompleteExport(w)
  PROVE  IInv'
<1> DEFINE x == session[w].task
<1>1. /\ session \in Sessions /\ session[w] # None /\ Knows(session[w]) /\ TablesTyped
      /\ session[w].phase = "complete" /\ x \in Exports
  BY AtWork DEF CompleteExport, In
<1>2. Exists(x) /\ x \in session[w].locks /\ x \in Rows
  BY <1>1 DEF Knows, Rows
<1>3. CASE Leave(w, "failing") /\ UNCHANGED export
  BY <1>1, <1>2, <1>3, FailingStep DEF CompleteExport, AllTables
<1>4. CASE Leave(w, "ended") /\ export' = [export EXCEPT ![x].status = "completed"]
  BY <1>1, <1>2, <1>4, SettlingExport DEF CompleteExport
<1> QED  BY <1>3, <1>4 DEF CompleteExport

LEMMA FailKeeps ==
  ASSUME IInv, NEW w \in Workers, Fail(w)
  PROVE  IInv'
<1> DEFINE row == session[w].task
<1>1. /\ session \in Sessions /\ session[w] # None /\ session[w] \in Session
      /\ Knows(session[w]) /\ TablesTyped /\ session[w].phase = "failing"
  BY AtWork DEF Fail, In
<1>2. /\ row \in Rows /\ Exists(row) /\ Free(w, row) /\ Leave(w, "failed")
      /\ UNCHANGED <<now, events, queue>>
  BY <1>1 DEF Knows, Fail
<1>3. CASE UNCHANGED <<preview, export, run>>
  BY <1>1, <1>2, <1>3, FailingStep DEF AllTables
<1>4. CASE /\ Status(row) = "pending" /\ row \in Revisions
           /\ preview' = [preview EXCEPT ![row].status = "failed"]
           /\ UNCHANGED <<export, run>>
  <2> DEFINE p == [preview[row] EXCEPT !.status = "failed"]
  <2>1. preview[row].status = "pending" /\ preview[row] \in Preview
    BY <1>1, <1>2, <1>4, KindsDiffer DEF Status, Exists, TablesTyped
  <2>2. p \in Preview /\ p.status # "pending"
    BY <2>1 DEF Preview
  <2>3. preview' = [preview EXCEPT ![row] = p]
    BY <1>4
  <2> HIDE DEF p
  <2> QED  BY <1>1, <1>2, <1>4, <2>1, <2>2, <2>3, SettlingRevision
<1>5. CASE /\ row \in Exports /\ export' = [export EXCEPT ![row].status = "failed"]
           /\ UNCHANGED <<preview, run>>
  BY <1>1, <1>2, <1>5, SettlingExport
<1>6. CASE /\ Status(row) = "pending" /\ row = Run /\ run' = "failed"
           /\ UNCHANGED <<preview, export>>
  BY <1>1, <1>2, <1>6, SettlingRun DEF Status
<1> QED  BY <1>2, <1>3, <1>4, <1>5, <1>6 DEF Fail, FailPreview, FailExport, FailRun

\* The revision after the latest, which is settled, is new, and its handler alone can add it.
LEMMA AppendKeeps ==
  ASSUME IInv, NEW w \in Workers, Append(w)
  PROVE  IInv'
<1> DEFINE h == session[w]
           p == [status |-> "pending", created |-> h.at, watermark |-> None, counted |-> {},
                 adjusts |-> h.adjusts, cause |-> h.task, seen |-> {}]
<1>1. /\ session \in Sessions /\ h # None /\ h \in Session /\ Knows(h) /\ TablesTyped
      /\ h.phase = "insert"
  BY AtWork DEF Append, In
<1>2. /\ h.task \in Events \union {Run} /\ Series \in h.locks
      /\ h.task = Run => Run \in h.locks /\ run = "pending"
  BY <1>1 DEF Knows
<1>3. PICK r \in Revisions, q \in Revisions :
        /\ r = h.latest /\ q = r + 1 /\ preview[q] = None
        /\ IsLatest(r) /\ preview[r].status # "pending"
  <2>1. /\ h.latest \in Revisions /\ IsLatest(h.latest)
        /\ preview[h.latest].status # "pending"
    BY <1>1 DEF Knows
  <2>2. h.latest + 1 \in Revisions /\ preview[h.latest + 1] = None
    BY <2>1, ConstantsAssumption DEF Append, Revisions, IsLatest, Requested
  <2> QED  BY <2>1, <2>2
<1>4. p \in Preview /\ p # None /\ p.status = "pending"
  BY <1>1, <1>2, NoneAssumption DEF Preview, Session
<1>5. preview' = [preview EXCEPT ![q] = p] /\ job' = [job EXCEPT ![q] = "queued"]
  BY <1>3 DEF Append, Request
<1>6. PICK s : Becomes(w, s, "ended", {})
  BY <1>1, LeaveBecomes, Zenon DEF Append, Phases
<1>7. Takes(w, s.locks)
  BY <1>6 DEF Takes, Becomes
<1> HIDE DEF p
<1>8. \A x \in Revisions : preview'[x] = IF x = q THEN p ELSE preview[x]
  BY <1>1, <1>5 DEF TablesTyped
<1>9. Requested' = Requested \union {q} /\ q \notin Requested
  BY <1>3, <1>4, <1>8 DEF Requested
<1>10. run' \in {"none", "pending", "completed", "failed"} /\ (run # "none" => run' # "none")
       /\ (h.task # Run => run' = run)
  BY <1>1 DEF Append, Conclude, TablesTyped
<1>11. TablesTyped'
  <2>1. preview' \in [Revisions -> Preview \union {None}]
    BY <1>1, <1>4, <1>5 DEF TablesTyped
  <2>2. job' \in [Jobs -> {"none", "queued", "done", "failed", "exhausted"}]
    BY <1>1, <1>5 DEF TablesTyped
  <2> QED  BY <1>1, <1>10, <2>1, <2>2 DEF TablesTyped, Append, events
<1>12. \A row \in Rows : Exists(row) => Exists(row)'
  BY <1>4, <1>8, <1>10 DEF Exists, Append, Rows
<1>13. \A row \in Rows : row # q /\ (row # Run \/ h.task # Run) => Status(row)' = Status(row)
  BY <1>8, <1>10 DEF Status, Append, Rows
<1>14. TablesInv'
  <2>1. IsLatest(q)'
    BY <1>3, <1>9, KindsDiffer DEF IsLatest
  <2>2. ASSUME NEW o \in Requested  PROVE preview[o].status # "pending"
    <3>1. preview[o].status = "pending" => IsLatest(o)
      BY DEF IInv, TablesInv, Numbered
    <3>2. IsLatest(o) => o = r
      BY <1>3, KindsDiffer DEF IsLatest, Requested
    <3> QED  BY <1>3, <3>1, <3>2
  <2>3. \A o \in Revisions : o <= q => o \in Requested'
    <3>1. \A o \in Revisions : o <= q => o <= r \/ o = q
      BY <1>3, KindsDiffer
    <3>2. \A o \in Revisions : o <= r => o \in Requested
      BY <1>3 DEF IInv, TablesInv, Numbered, IsLatest
    <3> QED  BY <1>9, <3>1, <3>2
  <2>4. Numbered'
    <3> SUFFICES ASSUME NEW o \in Requested'
                 PROVE  /\ \A x \in Revisions : x <= o => x \in Requested'
                        /\ preview'[o].status = "pending" => IsLatest(o)'
      BY DEF Numbered
    <3>1. CASE o = q
      BY <2>1, <2>3, <3>1
    <3>2. CASE o # q
      BY <1>8, <1>9, <2>2, <3>2 DEF IInv, TablesInv, Numbered, Requested
    <3> QED  BY <3>1, <3>2
  <2>5. Pinned'
    <3>1. \A x \in Exports : export[x] # None => export[x].revision \in Revisions \ {q}
      BY <1>1, <1>3, NoneAssumption DEF IInv, TablesInv, Pinned, TablesTyped, Export
    <3> QED  BY <1>8, <3>1 DEF IInv, TablesInv, Pinned, Append
  <2>6. JobsHaveRows'
    <3>1. Exists(q)'
      BY <1>3, <1>4, <1>8, KindsDiffer DEF Exists
    <3>2. \A row \in Rows : row # q => job'[row] = job[row]
      BY <1>1, <1>5 DEF TablesTyped, Rows, Jobs
    <3> QED  BY <1>12, <3>1, <3>2 DEF IInv, TablesInv, JobsHaveRows
  <2> QED  BY <2>4, <2>5, <2>6 DEF TablesInv
<1>15. ASSUME NEW o \in Workers \ {w}, session[o] # None  PROVE Undisturbed(o)
  <2>1. Series \notin session[o].locks
    BY <1>1, <1>2, <1>15 DEF IInv, LocksExclude
  <2>2. h.task = Run => Run \notin session[o].locks
    BY <1>1, <1>2, <1>15 DEF IInv, LocksExclude
  <2>3. ~Exists(q)
    BY <1>3, KindsDiffer DEF Exists
  <2>4. \A x \in Requested : preview[x].status # "pending" => preview'[x].status # "pending"
    BY <1>8, <1>9 DEF Requested
  <2> QED  BY <1>12, <1>13, <2>1, <2>2, <2>3, <2>4 DEF Undisturbed
<1>16. session'[w] = s /\ s.task = h.task /\ s.phase = "ended"
  BY <1>1, <1>6 DEF Becomes, Sessions
<1>17. Knows(session[w])'
  BY <1>1, <1>12, <1>16 DEF Knows
<1> QED  BY <1>6, <1>7, <1>11, <1>14, <1>15, <1>17, HandlerStep DEF Becomes

\* A handler that is gone leaves its job in some state, and the row of that exists.
LEMMA LeavingStep ==
  ASSUME IInv, NEW w \in Workers, session[w] # None, SameRows,
         session' = [session EXCEPT ![w] = None], TablesTyped',
         \A row \in Rows \ {session[w].task} : job'[row] = job[row],
         job'[session[w].task] # "none" \/ job' = job
  PROVE  IInv'
<1>1. session \in Sessions /\ Knows(session[w])
  BY AtWork
<1>2. /\ session' \in Sessions /\ session'[w] = None
      /\ \A o \in Workers \ {w} : session'[o] = session[o]
  BY <1>1 DEF Sessions
<1>3. TypeOK'
  BY <1>2 DEF TypeOK, TablesTyped, Sessions
<1>4. /\ Numbered' /\ Pinned'
      /\ \A o \in Workers : session[o] # None => Undisturbed(o)
      /\ \A row \in Rows : Exists(row)' = Exists(row)
  BY SameRowsKeep
<1>5. JobsHaveRows'
  BY <1>1, <1>4 DEF IInv, TablesInv, JobsHaveRows, Knows
<1>6. HandlersKnow'
  <2>1. ASSUME NEW o \in Workers \ {w}, session'[o] # None  PROVE Knows(session[o])'
    BY <1>2, <1>4, <2>1, UndisturbedKnow DEF IInv, HandlersKnow
  <2> QED  BY <1>2, <2>1 DEF HandlersKnow
<1>7. LocksExclude'
  <2>1. ASSUME NEW v \in Workers, NEW o \in Workers, v # o, session'[v] # None,
               session'[o] # None
        PROVE  session'[v].locks \intersect session'[o].locks = {}
    BY <1>2, <2>1 DEF IInv, LocksExclude
  <2> QED  BY <2>1 DEF LocksExclude
<1> QED  BY <1>3, <1>4, <1>5, <1>6, <1>7 DEF IInv, TablesInv

LEMMA EndKeeps ==
  ASSUME IInv, NEW w \in Workers, End(w)
  PROVE  IInv'
<1>1. session[w] # None /\ session[w] \in Session /\ TablesTyped /\ session[w].task \in Jobs
  BY AtWork DEF End, In, Session
<1>2. SameRows /\ session' = [session EXCEPT ![w] = None]
  BY DEF End, SameRows
<1>3. CASE UNCHANGED <<job, holder>>
  <2>1. TablesTyped'
    BY <1>1, <1>3 DEF End, TablesTyped, events
  <2> QED  BY <1>1, <1>2, <1>3, <2>1, LeavingStep
<1>4. ASSUME NEW outcome \in {"done", "failed"},
             job' = [job EXCEPT ![session[w].task] = outcome],
             holder' = [holder EXCEPT ![session[w].task] = None]
      PROVE  IInv'
  <2>1. TablesTyped'
    BY <1>1, <1>4 DEF End, TablesTyped, events
  <2>2. job'[session[w].task] # "none" /\ \A j \in Jobs \ {session[w].task} : job'[j] = job[j]
    BY <1>1, <1>4 DEF TablesTyped
  <2> QED  BY <1>1, <1>2, <2>1, <2>2, LeavingStep DEF Rows, Jobs
<1> QED  BY <1>3, <1>4 DEF End

LEMMA LoseKeeps ==
  ASSUME IInv, NEW w \in Workers, Lose(w)
  PROVE  IInv'
<1>1. session[w] # None /\ session[w] \in Session /\ TablesTyped /\ session[w].task \in Jobs
  BY AtWork DEF Lose, Session
<1>2. SameRows /\ session' = [session EXCEPT ![w] = None]
  BY DEF Lose, SameRows
<1>3. CASE UNCHANGED <<job, holder>>
  <2>1. TablesTyped'
    BY <1>1, <1>3 DEF Lose, Loses, TablesTyped, events
  <2> QED  BY <1>1, <1>2, <1>3, <2>1, LeavingStep
<1>4. ASSUME NEW outcome \in {"queued", "exhausted"},
             job' = [job EXCEPT ![session[w].task] = outcome],
             holder' = [holder EXCEPT ![session[w].task] = None]
      PROVE  IInv'
  <2>1. TablesTyped'
    BY <1>1, <1>4 DEF Lose, Loses, TablesTyped, events
  <2>2. job'[session[w].task] # "none" /\ \A j \in Jobs \ {session[w].task} : job'[j] = job[j]
    BY <1>1, <1>4 DEF TablesTyped
  <2> QED  BY <1>1, <1>2, <2>1, <2>2, LeavingStep DEF Rows, Jobs
<1> QED  BY <1>3, <1>4 DEF Lose

-----------------------------------------------------------------------------
(* Clients, operators and retention *)

\* What a step beside the handlers has to show.
LEMMA OtherStep ==
  ASSUME IInv, UNCHANGED session, TablesTyped', TablesInv',
         \A o \in Workers : session[o] # None => Undisturbed(o)
  PROVE  IInv'
<1>1. TypeOK'
  BY TypesSplit DEF IInv, TypeOK, TablesTyped
<1>2. HandlersKnow'
  <2>1. ASSUME NEW o \in Workers, session'[o] # None  PROVE Knows(session[o])'
    BY <2>1, UndisturbedKnow DEF IInv, HandlersKnow
  <2> QED  BY <2>1 DEF HandlersKnow
<1>3. LocksExclude'
  BY DEF IInv, LocksExclude
<1> QED  BY <1>1, <1>2, <1>3 DEF IInv

\* Steps that write no row.
LEMMA ApartStep ==
  ASSUME IInv, UNCHANGED session, SameRows, TablesTyped',
         \A row \in Rows : job[row] = "none" => job'[row] = "none"
  PROVE  IInv'
<1>1. /\ Numbered' /\ Pinned'
      /\ \A o \in Workers : session[o] # None => Undisturbed(o)
      /\ \A row \in Rows : Exists(row)' = Exists(row)
  BY SameRowsKeep
<1>2. JobsHaveRows'
  BY <1>1 DEF IInv, TablesInv, JobsHaveRows
<1> QED  BY <1>1, <1>2, OtherStep DEF TablesInv

LEMMA AcceptKeeps ==
  ASSUME IInv, NEW e \in Events, Accept(e)
  PROVE  IInv'
<1>1. TablesTyped
  BY TypesSplit DEF IInv
<1>2. PICK at \in 0..now : received' = [received EXCEPT ![e] = at]
  BY DEF Accept
<1>3. at \in Nat
  BY <1>1 DEF TablesTyped
<1>4. TablesTyped'
  BY <1>1, <1>2, <1>3 DEF TablesTyped, Accept, Jobs
<1>5. \A row \in Rows : job'[row] = job[row]
  BY <1>1, KindsDiffer, ConstantsAssumption DEF TablesTyped, Accept, Rows, Jobs
<1> QED  BY <1>4, <1>5, ApartStep DEF Accept, SameRows

LEMMA RetryKeeps ==
  ASSUME IInv, NEW j \in Jobs, Retry(j)
  PROVE  IInv'
<1>1. TablesTyped
  BY TypesSplit DEF IInv
<1>2. TablesTyped'
  BY <1>1 DEF TablesTyped, Retry, events
<1>3. \A row \in Rows : job[row] = "none" => job'[row] = "none"
  BY <1>1 DEF TablesTyped, Retry, Rows, Jobs
<1> QED  BY <1>2, <1>3, ApartStep DEF Retry, SameRows

LEMMA RedactAndTickKeep ==
  ASSUME IInv, Redact \/ Tick
  PROVE  IInv'
<1>1. TablesTyped
  BY TypesSplit DEF IInv
<1>2. TablesTyped'
  BY <1>1 DEF TablesTyped, Redact, Tick, Stored, events, queue
<1> QED  BY <1>2, ApartStep DEF Redact, Tick, SameRows, queue

\* Without a first revision there is no other, nor an export of one.
LEMMA CreateKeeps ==
  ASSUME IInv, Create
  PROVE  IInv'
<1>1. TablesTyped
  BY TypesSplit DEF IInv
<1>2. 1 \in Revisions
  BY ConstantsAssumption DEF Revisions
<1>3. Requested = {}
  <2>1. \A r \in Requested : 1 <= r
    BY DEF Requested, Revisions
  <2> QED  BY <1>2, <2>1 DEF IInv, TablesInv, Numbered, Create, Requested
<1>4. PICK at \in 0..now : Request(1, at, None, None)
  BY DEF Create
<1> DEFINE p == [status |-> "pending", created |-> at, watermark |-> None, counted |-> {},
                 adjusts |-> None, cause |-> None, seen |-> {}]
<1>5. p \in Preview /\ p # None
  BY <1>1, <1>4, NoneAssumption DEF Preview, TablesTyped
<1>6. preview' = [preview EXCEPT ![1] = p] /\ job' = [job EXCEPT ![1] = "queued"]
  BY <1>4 DEF Request
<1> HIDE DEF p
<1>7. \A r \in Revisions : preview'[r] = IF r = 1 THEN p ELSE preview[r]
  BY <1>1, <1>6 DEF TablesTyped
<1>8. Requested' = {1}
  BY <1>2, <1>3, <1>5, <1>7 DEF Requested
<1>9. TablesTyped'
  BY <1>1, <1>2, <1>5, <1>6 DEF TablesTyped, Create, events
<1>10. \A row \in Rows : /\ Exists(row) => Exists(row)'
                         /\ row # 1 => Status(row)' = Status(row)
  BY <1>5, <1>7 DEF Exists, Status, Create, Rows
<1>11. Numbered'
  <2>1. \A r \in Revisions : r <= 1 => r = 1
    BY DEF Revisions
  <2> QED  BY <1>2, <1>8, <2>1 DEF Numbered, IsLatest
<1>12. Pinned'
  BY <1>1, <1>3, NoneAssumption DEF IInv, TablesInv, Pinned, Create, Requested, TablesTyped, Export
<1>13. JobsHaveRows'
  <2>1. Exists(1)' /\ ~Exists(1)
    BY <1>2, <1>5, <1>7, KindsDiffer DEF Exists, Create
  <2>2. \A row \in Rows : row # 1 => job'[row] = job[row]
    BY <1>1, <1>6 DEF TablesTyped, Rows, Jobs
  <2> QED  BY <1>10, <2>1, <2>2 DEF IInv, TablesInv, JobsHaveRows
<1>14. ~Exists(1)
  BY <1>2, KindsDiffer DEF Exists, Create
<1>15. \A o \in Workers : session[o] # None => Undisturbed(o)
  BY <1>3, <1>10, <1>14 DEF Undisturbed
<1> QED  BY <1>9, <1>11, <1>12, <1>13, <1>15, OtherStep DEF Create, TablesInv

\* The revision that an export chooses is completed.
LEMMA ChooseExportKeeps ==
  ASSUME IInv, NEW x \in Exports, ChooseExport(x)
  PROVE  IInv'
<1>1. TablesTyped
  BY TypesSplit DEF IInv
<1>2. PICK r \in Revisions :
        /\ IsLatest(r) /\ preview[r].status = "completed"
        /\ export' = [export EXCEPT ![x] = [revision |-> r, status |-> "requested"]]
  BY DEF ChooseExport
<1> DEFINE chosen == [revision |-> r, status |-> "requested"]
<1>3. chosen \in Export /\ chosen # None /\ chosen.revision = r
  BY NoneAssumption DEF Export
<1>4. export' = [export EXCEPT ![x] = chosen]
  BY <1>2
<1> HIDE DEF chosen
<1>5. \A y \in Exports : export'[y] = IF y = x THEN chosen ELSE export[y]
  BY <1>1, <1>4 DEF TablesTyped
<1>6. TablesTyped'
  BY <1>1, <1>3, <1>4 DEF TablesTyped, ChooseExport, events, queue
<1>7. \A row \in Rows : /\ Exists(row) => Exists(row)'
                        /\ row # x => Status(row)' = Status(row)
  BY <1>3, <1>5 DEF Exists, Status, ChooseExport, Rows
<1>8. Requested' = Requested
  BY DEF ChooseExport, Requested
<1>9. Numbered'
  BY <1>8 DEF ChooseExport, IInv, TablesInv, Numbered, IsLatest
<1>10. Pinned'
  BY <1>2, <1>3, <1>5 DEF ChooseExport, IInv, TablesInv, Pinned, IsLatest, Requested
<1>11. JobsHaveRows'
  BY <1>7 DEF ChooseExport, IInv, TablesInv, JobsHaveRows, queue
<1>12. ~Exists(x)
  BY KindsDiffer DEF Exists, ChooseExport
<1>13. \A o \in Workers : session[o] # None => Undisturbed(o)
  BY <1>7, <1>8, <1>12 DEF Undisturbed, ChooseExport
<1> QED  BY <1>6, <1>9, <1>10, <1>11, <1>13, OtherStep DEF ChooseExport, TablesInv

LEMMA CreateExportKeeps ==
  ASSUME IInv, NEW x \in Exports, CreateExport(x)
  PROVE  IInv'
<1>1. TablesTyped
  BY TypesSplit DEF IInv
<1>2. export[x] \in Export /\ export[x] # None /\ export[x].status = "requested"
  BY <1>1 DEF CreateExport, TablesTyped
<1> DEFINE created == [export[x] EXCEPT !.status = "pending"]
<1>3. created \in Export /\ created # None /\ created.revision = export[x].revision
  BY <1>2, NoneAssumption DEF Export
<1>4. export' = [export EXCEPT ![x] = created]
  BY DEF CreateExport
<1> HIDE DEF created
<1>5. \A y \in Exports : export'[y] = IF y = x THEN created ELSE export[y]
  BY <1>1, <1>4 DEF TablesTyped
<1>6. TablesTyped'
  BY <1>1, <1>3, <1>4 DEF TablesTyped, CreateExport, events, Jobs
<1>7. \A row \in Rows : /\ Exists(row) => Exists(row)'
                        /\ row # x => Status(row)' = Status(row)
  BY <1>3, <1>5 DEF Exists, Status, CreateExport, Rows
<1>8. Requested' = Requested
  BY DEF CreateExport, Requested
<1>9. Numbered'
  BY <1>8 DEF CreateExport, IInv, TablesInv, Numbered, IsLatest
<1>10. Pinned'
  BY <1>2, <1>3, <1>5 DEF CreateExport, IInv, TablesInv, Pinned
<1>11. JobsHaveRows'
  <2>1. Exists(x)'
    BY <1>3, <1>5, KindsDiffer DEF Exists
  <2>2. \A row \in Rows : row # x => job'[row] = job[row]
    BY <1>1 DEF CreateExport, TablesTyped, Rows, Jobs
  <2> QED  BY <1>7, <2>1, <2>2 DEF IInv, TablesInv, JobsHaveRows
<1>12. Status(x) # "pending"
  BY <1>2, KindsDiffer DEF Status
<1>13. \A o \in Workers : session[o] # None => Undisturbed(o)
  BY <1>7, <1>8, <1>12 DEF Undisturbed, CreateExport
<1> QED  BY <1>6, <1>9, <1>10, <1>11, <1>13, OtherStep DEF CreateExport, TablesInv

LEMMA CreateRunKeeps ==
  ASSUME IInv, CreateRun
  PROVE  IInv'
<1>1. TablesTyped
  BY TypesSplit DEF IInv
<1>2. TablesTyped'
  BY <1>1 DEF TablesTyped, CreateRun, events, Jobs
<1>3. \A row \in Rows : /\ Exists(row) => Exists(row)'
                        /\ row # Run => Status(row)' = Status(row)
  BY DEF Exists, Status, CreateRun
<1>4. Requested' = Requested
  BY DEF CreateRun, Requested
<1>5. Numbered'
  BY <1>4 DEF CreateRun, IInv, TablesInv, Numbered, IsLatest
<1>6. Pinned'
  BY DEF CreateRun, IInv, TablesInv, Pinned
<1>7. JobsHaveRows'
  <2>1. Exists(Run)'
    BY DEF Exists, CreateRun
  <2>2. \A row \in Rows : row # Run => job'[row] = job[row]
    BY <1>1 DEF CreateRun, TablesTyped, Rows, Jobs
  <2> QED  BY <1>3, <2>1, <2>2 DEF IInv, TablesInv, JobsHaveRows
<1>8. ~Exists(Run)
  BY DEF Exists, CreateRun
<1>9. \A o \in Workers : session[o] # None => Undisturbed(o)
  BY <1>3, <1>4, <1>8 DEF Undisturbed, CreateRun
<1> QED  BY <1>2, <1>5, <1>6, <1>7, <1>9, OtherStep DEF CreateRun, TablesInv

-----------------------------------------------------------------------------
(* All steps *)

LEMMA InitEstablishes ==
  ASSUME Init
  PROVE  IInv
<1>1. TypeOK
  BY ConstantsAssumption DEF Init, TypeOK
<1>2. Requested = {}
  BY DEF Init, Requested
<1>3. TablesInv
  BY <1>2 DEF Init, TablesInv, Numbered, Pinned, JobsHaveRows, Rows, Jobs
<1>4. HandlersKnow /\ LocksExclude
  BY DEF Init, HandlersKnow, LocksExclude
<1> QED  BY <1>1, <1>3, <1>4 DEF IInv

LEMMA StutteringKeeps ==
  ASSUME IInv, UNCHANGED vars
  PROVE  IInv'
<1>1. TablesTyped
  BY TypesSplit DEF IInv
<1>2. TablesTyped' /\ SameRows /\ job' = job /\ session' = session
  BY <1>1 DEF TablesTyped, SameRows, vars
<1> QED  BY <1>2, ApartStep

LEMMA NextKeeps ==
  ASSUME IInv, [Next]_vars
  PROVE  IInv'
<1>1. ASSUME NEW e \in Events, Accept(e)  PROVE IInv'
  BY <1>1, AcceptKeeps
<1>2. ASSUME NEW x \in Exports, ChooseExport(x)  PROVE IInv'
  BY <1>2, ChooseExportKeeps
<1>3. ASSUME NEW x \in Exports, CreateExport(x)  PROVE IInv'
  BY <1>3, CreateExportKeeps
<1>4. CASE Create
  BY <1>4, CreateKeeps
<1>5. CASE CreateRun
  BY <1>5, CreateRunKeeps
<1>6. CASE Redact \/ Tick
  BY <1>6, RedactAndTickKeep
<1>7. ASSUME NEW j \in Jobs, Retry(j)  PROVE IInv'
  BY <1>7, RetryKeeps
<1>8. ASSUME NEW w \in Workers, Begin(w)  PROVE IInv'
  BY <1>8, BeginKeeps
<1>9. ASSUME NEW w \in Workers, Proceed(w)  PROVE IInv'
  BY <1>9, LockSeriesKeeps, FindLatestKeeps, LockLatestKeeps, ReadExportsKeeps, AppendKeeps,
     LockRowKeeps, RepairKeeps, ReadWatermarkKeeps, ReadEventsKeeps, CompletePreviewKeeps,
     CompleteExportKeeps, FailKeeps, EndKeeps DEF Proceed
<1>10. ASSUME NEW w \in Workers, Lose(w)  PROVE IInv'
  BY <1>10, LoseKeeps
<1>11. CASE UNCHANGED vars
  BY <1>11, StutteringKeeps
<1> QED
  BY <1>1, <1>2, <1>3, <1>4, <1>5, <1>6, <1>7, <1>8, <1>9, <1>10, <1>11 DEF Next

\* The advisory lock of the series, the row locks and the checks of status that the handlers
\* make under them keep the tables and what each running handler relies on consistent.
THEOREM Invariance == Spec => []IInv
BY InitEstablishes, NextKeeps, PTL DEF Spec

\* Every table and every handler has its type, for all numbers of events, exports and workers.
THEOREM TypeCorrect == Spec => []TypeOK
<1>1. IInv => TypeOK
  BY DEF IInv
<1> QED  BY <1>1, Invariance, PTL

\* However the handlers of late events and of the repair overlap, lose their leases and are
\* retried, they number the revisions without a gap and leave at most the latest pending.
THEOREM OneRevisionAtATime == Spec => []OnlyLatestIsPending
<1>1. ASSUME IInv  PROVE OnlyLatestIsPending
  <2>1. ASSUME NEW r \in Requested
        PROVE  /\ r > 1 => r - 1 \in Requested
               /\ preview[r].status = "pending" => IsLatest(r)
    <3>1. r \in Revisions /\ \A q \in Revisions : q <= r => q \in Requested
      BY <1>1 DEF IInv, TablesInv, Numbered, Requested
    <3>2. r > 1 => r - 1 \in Revisions /\ r - 1 <= r
      BY <3>1, ConstantsAssumption DEF Revisions
    <3> QED  BY <1>1, <3>1, <3>2 DEF IInv, TablesInv, Numbered
  <2>2. ASSUME NEW w \in Workers, In(w, "insert")
        PROVE  session[w].latest + 1 \notin Requested
    <3>1. session[w].latest \in Revisions /\ IsLatest(session[w].latest)
      BY <1>1, <2>2 DEF IInv, HandlersKnow, Knows, In
    <3> QED  BY <3>1, KindsDiffer DEF IsLatest
  <2> QED  BY <2>1, <2>2 DEF OnlyLatestIsPending
<1> QED  BY <1>1, Invariance, PTL

-----------------------------------------------------------------------------
(* Outcomes *)

\* What a step leaves alone: OutcomesAreFinal, in parts.
RunIsFinal == run \in {"completed", "failed"} => run' = run

RunAsksNoMore ==
  run \in {"completed", "failed"} => \A r \in Revisions :
    preview[r] = None /\ preview'[r] # None => preview'[r].cause # Run

PreviewsAreFinal == \A r \in Revisions : Settled(preview[r]) => preview'[r] = preview[r]

ExportsAreFinal == \A x \in Exports : Settled(export[x]) => export'[x] = export[x]

Final == RunIsFinal /\ RunAsksNoMore /\ PreviewsAreFinal /\ ExportsAreFinal

LEMMA SameRowsAreFinal ==
  ASSUME SameRows  PROVE Final
BY DEF SameRows, Final, RunIsFinal, RunAsksNoMore, PreviewsAreFinal, ExportsAreFinal

\* The repair concludes while its row is locked and pending.
LEMMA ConcludingIsFinal ==
  ASSUME IInv, NEW w \in Workers, session[w] # None,
         session[w].phase \in {"series", "row", "insert", "repair"},
         Conclude(w) \/ UNCHANGED run
  PROVE  RunIsFinal
BY AtWork DEF Knows, Conclude, RunIsFinal, Status

LEMMA OnlyRunIsFinal ==
  ASSUME RunIsFinal, UNCHANGED <<preview, export>>
  PROVE  Final
BY DEF Final, RunAsksNoMore, PreviewsAreFinal, ExportsAreFinal

LEMMA AppendIsFinal ==
  ASSUME IInv, NEW w \in Workers, Append(w)
  PROVE  Final
<1>1. /\ session[w] # None /\ session[w].phase = "insert" /\ TablesTyped /\ Knows(session[w])
  BY AtWork DEF Append, In
<1> DEFINE h == session[w]
           p == [status |-> "pending", created |-> h.at, watermark |-> None, counted |-> {},
                 adjusts |-> h.adjusts, cause |-> h.task, seen |-> {}]
<1>2. p.cause = h.task /\ (h.task = Run => run = "pending")
  BY <1>1 DEF Knows
<1>3. h.latest \in Revisions /\ IsLatest(h.latest)
  BY <1>1 DEF Knows
<1>4. h.latest + 1 \notin Requested
  BY <1>3, ConstantsAssumption DEF Revisions, IsLatest, Requested
<1>5. preview' = [preview EXCEPT ![h.latest + 1] = p]
  BY DEF Append, Request
<1> HIDE DEF p
<1>6. \A r \in Revisions : preview'[r] = IF r = h.latest + 1 THEN p ELSE preview[r]
  BY <1>1, <1>5 DEF TablesTyped
<1>7. RunIsFinal
  BY <1>1, ConcludingIsFinal DEF Append
<1>8. RunAsksNoMore
  BY <1>2, <1>6 DEF RunAsksNoMore
<1>9. PreviewsAreFinal
  BY <1>4, <1>6 DEF PreviewsAreFinal, Settled, Requested
<1>10. ExportsAreFinal
  BY DEF Append, ExportsAreFinal
<1> QED  BY <1>7, <1>8, <1>9, <1>10 DEF Final

LEMMA SettlingIsFinal ==
  ASSUME IInv, NEW w \in Workers, CompletePreview(w) \/ CompleteExport(w) \/ Fail(w)
  PROVE  Final
<1> DEFINE row == session[w].task
<1>1. /\ session[w] # None /\ TablesTyped /\ Knows(session[w])
      /\ session[w].phase \in {"complete", "failing"}
  BY AtWork DEF CompletePreview, CompleteExport, Fail, In
<1>2. row \in Rows
  BY <1>1 DEF Knows
<1>3. CASE Status(row) # "pending"
  <2>1. Fail(w) /\ SameRows
    BY <1>1, <1>3 DEF Knows, CompletePreview, CompleteExport, Fail, In, SameRows
  <2> QED  BY <2>1, SameRowsAreFinal
<1>4. CASE Status(row) = "pending"
  <2>1. \A r \in Revisions : r # row => preview'[r] = preview[r]
    BY <1>1 DEF TablesTyped, CompletePreview, CompleteExport, Fail,
                FailPreview, FailExport, FailRun
  <2>2. \A r \in Revisions : Settled(preview[r]) => r # row
    BY <1>4, KindsDiffer DEF Settled, Status
  <2>3. PreviewsAreFinal
    BY <2>1, <2>2 DEF PreviewsAreFinal
  <2>4. \A x \in Exports : x # row => export'[x] = export[x]
    BY <1>1 DEF TablesTyped, CompletePreview, CompleteExport, Fail,
                FailPreview, FailExport, FailRun
  <2>5. \A x \in Exports : Settled(export[x]) => x # row
    BY <1>4, KindsDiffer DEF Settled, Status
  <2>6. ExportsAreFinal
    BY <2>4, <2>5 DEF ExportsAreFinal
  <2>7. RunIsFinal
    BY <1>4 DEF RunIsFinal, Status, CompletePreview, CompleteExport, Fail,
                FailPreview, FailExport, FailRun
  <2>8. RunAsksNoMore
    <3>1. \A r \in Revisions : r = row => Exists(r)
      BY <1>1, <1>2 DEF Knows
    <3>2. \A r \in Revisions : preview[r] = None => preview'[r] = None
      BY <2>1, <3>1, KindsDiffer DEF Exists
    <3> QED  BY <3>2 DEF RunAsksNoMore
  <2> QED  BY <2>3, <2>6, <2>7, <2>8 DEF Final
<1> QED  BY <1>3, <1>4

LEMMA ClientsAreFinal ==
  ASSUME IInv,
         \/ \E x \in Exports : ChooseExport(x) \/ CreateExport(x)
         \/ Create \/ CreateRun
  PROVE  Final
<1>1. TablesTyped
  BY TypesSplit DEF IInv
<1>2. CASE \E x \in Exports : ChooseExport(x) \/ CreateExport(x)
  BY <1>1, <1>2 DEF ChooseExport, CreateExport, Final, RunIsFinal, RunAsksNoMore,
     PreviewsAreFinal, ExportsAreFinal, Settled, TablesTyped
<1>3. CASE Create
  <2>1. RunIsFinal /\ ExportsAreFinal
    BY <1>3 DEF Create, RunIsFinal, ExportsAreFinal
  <2>2. PreviewsAreFinal
    BY <1>1, <1>3 DEF Create, Request, PreviewsAreFinal, Settled, TablesTyped
  <2>3. \A r \in Revisions : preview[r] = None /\ preview'[r] # None => preview'[r].cause = None
    BY <1>1, <1>3 DEF Create, Request, TablesTyped
  <2>4. RunAsksNoMore
    BY <2>3, ConstantsAssumption DEF RunAsksNoMore
  <2> QED  BY <2>1, <2>2, <2>4 DEF Final
<1>4. CASE CreateRun
  BY <1>4, OnlyRunIsFinal DEF CreateRun, RunIsFinal
<1> QED  BY <1>2, <1>3, <1>4

LEMMA StepIsFinal ==
  ASSUME IInv, [Next]_vars
  PROVE  Final
<1>1. CASE \/ \E e \in Events : Accept(e)
           \/ Redact \/ Tick
           \/ \E j \in Jobs : Retry(j)
           \/ \E w \in Workers : Begin(w) \/ Lose(w)
           \/ UNCHANGED vars
  <2>1. SameRows
    BY <1>1 DEF Accept, Redact, Tick, Retry, Begin, BeginEvent, BeginRow, Lose, SameRows, vars
  <2> QED  BY <2>1, SameRowsAreFinal
<1>2. CASE (\E x \in Exports : ChooseExport(x) \/ CreateExport(x)) \/ Create \/ CreateRun
  BY <1>2, ClientsAreFinal
<1>3. ASSUME NEW w \in Workers, Proceed(w)  PROVE Final
  <2>1. CASE FindLatest(w) \/ ReadExports(w) \/ LockRow(w) \/ ReadWatermark(w) \/ ReadEvents(w)
             \/ End(w)
    <3>1. SameRows
      BY <2>1 DEF FindLatest, ReadExports, LockRow, ReadWatermark, ReadEvents, End, SameRows
    <3> QED  BY <3>1, SameRowsAreFinal
  <2>2. CASE LockSeries(w) \/ LockLatest(w) \/ Repair(w)
    <3>1. RunIsFinal
      BY <2>2, ConcludingIsFinal DEF LockSeries, LockLatest, Repair, In
    <3>2. UNCHANGED <<preview, export>>
      BY <2>2 DEF LockSeries, LockLatest, Repair
    <3> QED  BY <3>1, <3>2, OnlyRunIsFinal
  <2>3. CASE Append(w)
    BY <2>3, AppendIsFinal
  <2>4. CASE CompletePreview(w) \/ CompleteExport(w) \/ Fail(w)
    BY <2>4, SettlingIsFinal
  <2> QED  BY <1>3, <2>1, <2>2, <2>3, <2>4 DEF Proceed
<1> QED  BY <1>1, <1>2, <1>3 DEF Next

\* A settled revision, export or repair is never rewritten, not even by a handler whose
\* lease was given to another one or by a retried job, and an export stays with a
\* revision that is completed.
THEOREM SettledStays == Spec => OutcomesAreFinal
<1>1. ASSUME IInv, [Next]_vars
      PROVE  [/\ run \in {"completed", "failed"} =>
                   run' = run /\ \A r \in Revisions :
                     preview[r] = None /\ preview'[r] # None => preview'[r].cause # Run
              /\ \A r \in Revisions : Settled(preview[r]) => preview'[r] = preview[r]
              /\ \A x \in Exports : export[x] # None =>
                   /\ preview'[export[x].revision].status = "completed"
                   /\ Settled(export[x]) => export'[x] = export[x]]_vars
  <2>1. Final
    BY <1>1, StepIsFinal
  <2>2. ASSUME NEW x \in Exports, export[x] # None
        PROVE  preview'[export[x].revision].status = "completed"
    <3>1. export[x].revision \in Revisions
      BY <1>1, <2>2 DEF IInv, TypeOK, Export
    <3>2. Settled(preview[export[x].revision]) /\ preview[export[x].revision].status = "completed"
      BY <1>1, <2>2 DEF IInv, TablesInv, Pinned, Settled
    <3> QED  BY <2>1, <3>1, <3>2 DEF Final, PreviewsAreFinal
  <2> QED  BY <2>1, <2>2 DEF Final, RunIsFinal, RunAsksNoMore, PreviewsAreFinal, ExportsAreFinal
<1> QED  BY <1>1, Invariance, PTL DEF Spec, OutcomesAreFinal
-----------------------------------------------------------------------------
(* What revisions have seen *)

\* Events whose processing has ended well, for good or until the job is lost.
Processed ==
  {e \in Events :
     \/ job[e] = "done"
     \/ \E w \in Workers : session[w] # None /\ session[w].task = e /\ session[w].phase = "ended"}

\* EffectiveAt of what was stored when the events were read.
EffectiveIn(S, at) ==
  {e \in S : /\ received[e] <= at /\ e \notin setting.reversals
             /\ ~\E c \in S : setting.of[c] = e /\ received[c] <= at}

Counts(counted, seen, at) == seen \subseteq Stored /\ counted = EffectiveIn(seen, at)

\* A watermark of revision r is not before the event that has asked for it.
Covers(at, r) ==
  /\ at \in Nat
  /\ preview[r].cause \in Events => received[preview[r].cause] <= at

PastProcessed(at) == \A e \in Processed : received[e] <= at

\* The event that asks for a revision is later than what the one before has covered.
AskedLater(r) ==
  preview[r].cause \in Events =>
    /\ preview[r].cause \in Stored /\ r > 1
    /\ preview[r - 1].status # "pending" /\ Covered(r - 1) < received[preview[r].cause]

RevisionIsSound(r) ==
  /\ AskedLater(r)
  /\ preview[r].status = "completed" =>
       /\ Covers(preview[r].watermark, r)
       /\ Counts(preview[r].counted, preview[r].seen, preview[r].watermark)
       /\ IsLatest(r) => PastProcessed(preview[r].watermark)

Calculates(s) == s.task \in Revisions /\ s.phase \in {"events", "complete"}

SessionIsSound(s) ==
  /\ s.task \in Events => s.task \in Stored
  /\ s.task \in Events /\ s.phase \in {"exports", "insert"} =>
       Covered(s.latest) < received[s.task]
  /\ Calculates(s) => Covers(s.watermark, s.task) /\ PastProcessed(s.watermark)
  /\ Calculates(s) /\ s.phase = "complete" => Counts(s.counted, s.seen, s.watermark)

StoredInv ==
  \A e \in Events :
    /\ received[e] # None => received[e] <= now
    /\ job[e] # "none" => e \in Stored

SoundInv ==
  /\ StoredInv
  /\ \A r \in Requested : RevisionIsSound(r)
  /\ \A w \in Workers : session[w] # None => SessionIsSound(session[w])

\* What no step changes: settings, receive times, who asked for a revision, and what is
\* settled.
Later ==
  /\ setting' = setting
  /\ \A e \in Stored : received'[e] = received[e]
  /\ \A r \in Requested : r \in Requested' /\ preview'[r].cause = preview[r].cause
  /\ \A r \in Requested : preview[r].status # "pending" => preview'[r] = preview[r]

LEMMA ReceivedStays ==
  ASSUME IInv, [Next]_vars
  PROVE  setting' = setting /\ \A e \in Stored : received'[e] = received[e]
<1>1. CASE \E e \in Events : Accept(e)
  <2>1. PICK e \in Events : e \notin Stored /\ \E at : received' = [received EXCEPT ![e] = at]
    BY <1>1 DEF Accept
  <2> QED  BY <1>1, <2>1 DEF Accept, Stored, IInv, TypeOK
<1>2. ASSUME NEW w \in Workers, Proceed(w)  PROVE UNCHANGED events
  <2>1. CASE LockSeries(w) \/ FindLatest(w) \/ LockLatest(w) \/ ReadExports(w) \/ Append(w)
             \/ LockRow(w) \/ Repair(w)
    BY <2>1 DEF LockSeries, FindLatest, LockLatest, ReadExports, Append, LockRow, Repair, events
  <2>2. CASE ReadWatermark(w) \/ ReadEvents(w) \/ CompletePreview(w) \/ CompleteExport(w)
             \/ Fail(w) \/ End(w)
    BY <2>2 DEF ReadWatermark, ReadEvents, CompletePreview, CompleteExport, Fail, End, events
  <2> QED  BY <1>2, <2>1, <2>2 DEF Proceed
<1>3. CASE \/ \E x \in Exports : ChooseExport(x) \/ CreateExport(x)
           \/ Create \/ CreateRun \/ Redact \/ Tick
           \/ \E j \in Jobs : Retry(j)
           \/ \E w \in Workers : Begin(w) \/ Lose(w)
           \/ UNCHANGED vars
  BY <1>3 DEF ChooseExport, CreateExport, Create, CreateRun, Redact, Tick, Retry, Begin,
     BeginEvent, BeginRow, Lose, events, vars
<1> QED  BY <1>1, <1>2, <1>3 DEF Next, events

\* Who writes a revision.
Writes(w) == Append(w) \/ CompletePreview(w) \/ Fail(w)

LEMMA FewWrite ==
  ASSUME [Next]_vars, ~Create, \A w \in Workers : ~Writes(w)
  PROVE  preview' = preview
<1>1. ASSUME NEW w \in Workers, Proceed(w)  PROVE preview' = preview
  BY <1>1 DEF Proceed, Writes, LockSeries, FindLatest, LockLatest, ReadExports, LockRow, Repair,
     ReadWatermark, ReadEvents, CompleteExport, End
<1>2. CASE \/ \E e \in Events : Accept(e)
           \/ \E x \in Exports : ChooseExport(x) \/ CreateExport(x)
           \/ CreateRun \/ Redact \/ Tick
           \/ \E j \in Jobs : Retry(j)
           \/ \E w \in Workers : Begin(w) \/ Lose(w)
           \/ UNCHANGED vars
  BY <1>2 DEF Accept, ChooseExport, CreateExport, CreateRun, Redact, Tick, Retry, Begin,
     BeginEvent, BeginRow, Lose, vars
<1> QED  BY <1>1, <1>2 DEF Next

\* A revision that a request or a handler adds did not exist.
LEMMA AddedIsNew ==
  ASSUME IInv, NEW r, NEW at, NEW adjusts, NEW cause, r \in Revisions \ Requested,
         Request(r, at, adjusts, cause)
  PROVE  \A q \in Requested : q \in Requested' /\ preview'[q] = preview[q]
BY DEF Request, Requested, IInv, TypeOK

LEMMA NextIsLater ==
  ASSUME IInv, [Next]_vars
  PROVE  Later
<1>1. preview \in [Revisions -> Preview \union {None}]
  BY DEF IInv, TypeOK
<1>2. \A r \in Requested : preview[r].status # "pending" => preview'[r] = preview[r]
  BY <1>1, StepIsFinal DEF Final, PreviewsAreFinal, Settled, Requested, Preview
<1>3. CASE Create
  <2>1. 1 \in Revisions \ Requested
    BY <1>3, ConstantsAssumption DEF Create, Revisions, Requested
  <2>2. \A q \in Requested : q \in Requested' /\ preview'[q] = preview[q]
    BY <1>3, <2>1, AddedIsNew DEF Create
  <2> QED  BY <1>2, <2>2, ReceivedStays DEF Later
<1>4. ASSUME NEW w \in Workers, Append(w)  PROVE Later
  <2>1. Knows(session[w]) /\ session[w].phase = "insert"
    BY <1>4, AtWork DEF Append, In
  <2>2. session[w].latest + 1 \in Revisions \ Requested
    BY <1>4, <2>1, ConstantsAssumption DEF Knows, Append, Revisions, IsLatest, Requested
  <2>3. \A q \in Requested : q \in Requested' /\ preview'[q] = preview[q]
    BY <1>4, <2>2, AddedIsNew DEF Append
  <2> QED  BY <1>2, <2>3, ReceivedStays DEF Later
<1>5. ASSUME NEW r \in Revisions, NEW p \in Preview, p.cause = preview[r].cause,
             preview' = [preview EXCEPT ![r] = p]
      PROVE  Later
  <2>1. \A q \in Requested : q \in Requested' /\ preview'[q].cause = preview[q].cause
    BY <1>1, <1>5, NoneAssumption DEF Requested
  <2> QED  BY <1>2, <2>1, ReceivedStays DEF Later
<1>6. CASE preview' = preview
  BY <1>2, <1>6, ReceivedStays DEF Later, Requested
<1>7. ASSUME NEW w \in Workers, CompletePreview(w)  PROVE Later
  <2> DEFINE s == session[w]
             r == s.task
             p == [preview[r] EXCEPT !.status = "completed", !.watermark = s.watermark,
                                     !.counted = s.counted, !.seen = s.seen]
  <2>1. s \in Session /\ r \in Revisions /\ Exists(r)
    BY <1>7, AtWork DEF CompletePreview, In, Knows, Rows
  <2>2. preview[r] \in Preview
    BY <1>1, <2>1, KindsDiffer DEF Exists
  <2>3. p \in Preview /\ p.cause = preview[r].cause
    BY <2>1, <2>2 DEF Preview, Session
  <2>4. preview' = [preview EXCEPT ![r] = p]
    BY <1>7 DEF CompletePreview
  <2> HIDE DEF p
  <2> QED  BY <1>5, <2>1, <2>3, <2>4
<1>8. ASSUME NEW w \in Workers, Fail(w)  PROVE Later
  <2> DEFINE row == session[w].task
  <2>1. row \in Rows /\ Exists(row)
    BY <1>8, AtWork DEF Fail, In, Knows
  <2>2. CASE FailPreview(row)
    <3> DEFINE p == [preview[row] EXCEPT !.status = "failed"]
    <3>1. row \in Revisions /\ preview[row] \in Preview
      BY <1>1, <2>1, <2>2, KindsDiffer DEF Exists, FailPreview
    <3>2. p \in Preview /\ p.cause = preview[row].cause
      BY <3>1 DEF Preview
    <3>3. preview' = [preview EXCEPT ![row] = p]
      BY <2>2 DEF FailPreview
    <3> HIDE DEF p
    <3> QED  BY <1>5, <3>1, <3>2, <3>3
  <2>3. CASE ~FailPreview(row)
    <3>1. preview' = preview
      BY <1>8, <2>3 DEF Fail, FailExport, FailRun
    <3> QED  BY <1>6, <3>1
  <2> QED  BY <2>2, <2>3
<1> QED  BY <1>3, <1>4, <1>6, <1>7, <1>8, FewWrite DEF Writes

\* What is counted and covered stays so.
LEMMA CountsStay ==
  ASSUME Later, NEW counted, NEW seen, NEW at, Counts(counted, seen, at)
  PROVE  Counts(counted, seen, at)'
BY DEF Later, Counts, EffectiveIn, Stored

LEMMA CoversStay ==
  ASSUME Later, NEW r \in Requested, AskedLater(r), NEW at, Covers(at, r)
  PROVE  Covers(at, r)'
BY DEF Later, Covers, AskedLater

LEMMA StoredStay ==
  ASSUME Later, TypeOK
  PROVE  \A e \in Stored : e \in Stored'
BY DEF Later, Stored

LEMMA AskedStays ==
  ASSUME Later, IInv, NEW r \in Requested, AskedLater(r)
  PROVE  AskedLater(r)'
<1>1. CASE preview[r].cause \in Events
  <2>1. r - 1 \in Requested
    <3>1. r \in Revisions /\ r > 1
      BY <1>1 DEF AskedLater, Requested
    <3>2. r - 1 \in Revisions /\ r - 1 <= r
      BY <3>1, ConstantsAssumption DEF Revisions
    <3> QED  BY <3>2 DEF IInv, TablesInv, Numbered
  <2>2. preview'[r - 1] = preview[r - 1]
    BY <1>1, <2>1 DEF Later, AskedLater
  <2>3. Covered(r - 1)' = Covered(r - 1)
    BY <2>2 DEF Covered
  <2>4. preview[r].cause \in Stored'
    BY <1>1, StoredStay DEF IInv, AskedLater
  <2> QED  BY <1>1, <2>2, <2>3, <2>4 DEF Later, AskedLater
<1>2. CASE preview[r].cause \notin Events
  BY <1>2 DEF Later, AskedLater
<1> QED  BY <1>1, <1>2

\* Events whose processing ends with a step.
NewlyProcessed == Processed' \ Processed

LEMMA ProcessedAreStored ==
  ASSUME SoundInv
  PROVE  \A e \in Processed : e \in Stored
BY DEF SoundInv, StoredInv, SessionIsSound, Processed

\* Events that a step does not add are behind the same watermarks as before.
LEMMA PastStays ==
  ASSUME SoundInv, Later, NEW at, PastProcessed(at),
         \A e \in NewlyProcessed : received'[e] <= at
  PROVE  PastProcessed(at)'
<1>1. ASSUME NEW e \in Processed'  PROVE received'[e] <= at
  <2>1. CASE e \in NewlyProcessed
    BY <2>1
  <2>2. CASE e \in Processed
    BY <2>2, ProcessedAreStored DEF Later, PastProcessed
  <2> QED  BY <1>1, <2>1, <2>2 DEF NewlyProcessed
<1> QED  BY <1>1 DEF PastProcessed

\* A revision that a step does not write.
LEMMA RevisionStays ==
  ASSUME IInv, SoundInv, Later, NEW r \in Requested, preview'[r] = preview[r],
         IsLatest(r)' /\ preview[r].status = "completed" =>
           \A e \in NewlyProcessed : received'[e] <= preview[r].watermark
  PROVE  RevisionIsSound(r)'
<1>1. RevisionIsSound(r)
  BY DEF SoundInv
<1>2. AskedLater(r)'
  BY <1>1, AskedStays DEF RevisionIsSound
<1>3. CASE preview[r].status = "completed"
  <2> DEFINE p == preview[r]
  <2>1. PICK at, counted, seen : at = p.watermark /\ counted = p.counted /\ seen = p.seen
    OBVIOUS
  <2>2. Covers(at, r) /\ Counts(counted, seen, at) /\ AskedLater(r)
    BY <1>1, <1>3, <2>1 DEF RevisionIsSound
  <2>3. Covers(at, r)' /\ Counts(counted, seen, at)'
    <3> HIDE DEF p
    <3> QED  BY <2>2, CoversStay, CountsStay
  <2>4. IsLatest(r)' => PastProcessed(at)'
    <3>1. IsLatest(r)' => IsLatest(r)
      BY DEF IsLatest, Later
    <3>2. IsLatest(r)' => PastProcessed(at) /\ \A e \in NewlyProcessed : received'[e] <= at
      BY <1>1, <1>3, <2>1, <3>1 DEF RevisionIsSound
    <3> HIDE DEF p
    <3> QED  BY <3>2, PastStays
  <2>5. /\ preview'[r].watermark = at /\ preview'[r].counted = counted
        /\ preview'[r].seen = seen
    BY <2>1
  <2> HIDE DEF p
  <2> QED  BY <1>2, <2>3, <2>4, <2>5 DEF RevisionIsSound
<1>4. CASE preview[r].status # "completed"
  BY <1>2, <1>4 DEF RevisionIsSound
<1> QED  BY <1>3, <1>4

\* A handler that is not in the step.
LEMMA SessionStays ==
  ASSUME IInv, SoundInv, Later, NEW w \in Workers, session[w] # None,
         session'[w] = session[w],
         Calculates(session[w]) =>
           \A e \in NewlyProcessed : received'[e] <= session[w].watermark
  PROVE  SessionIsSound(session[w])'
<1>1. PICK s : s = session[w]
  OBVIOUS
<1>2. SessionIsSound(s) /\ Knows(s)
  BY <1>1 DEF SoundInv, IInv, HandlersKnow
<1>3. s.task \in Events => s.task \in Stored'
  BY <1>2, StoredStay DEF SessionIsSound, IInv
<1>4. s.task \in Events /\ s.phase \in {"exports", "insert"} =>
        (Covered(s.latest) < received[s.task])'
  <2>1. CASE s.task \in Events /\ s.phase \in {"exports", "insert"}
    <3>1. s.latest \in Requested /\ preview[s.latest].status # "pending"
      BY <1>2, <2>1 DEF Knows, IsLatest
    <3>2. Covered(s.latest)' = Covered(s.latest)
      BY <3>1 DEF Later, Covered
    <3>3. received'[s.task] = received[s.task]
      BY <1>2, <2>1 DEF SessionIsSound, Later
    <3> QED  BY <1>2, <2>1, <3>2, <3>3 DEF SessionIsSound
  <2> QED  BY <2>1
<1>5. CASE Calculates(s)
  <2>1. s.task \in Requested
    BY <1>2, <1>5, KindsDiffer DEF Calculates, Knows, Exists, Rows, Requested
  <2>2. AskedLater(s.task)
    BY <2>1 DEF SoundInv, RevisionIsSound
  <2>3. PICK at, counted, seen : at = s.watermark /\ counted = s.counted /\ seen = s.seen
    OBVIOUS
  <2>4. Covers(at, s.task) /\ PastProcessed(at)
        /\ (s.phase = "complete" => Counts(counted, seen, at))
    BY <1>2, <1>5, <2>3 DEF SessionIsSound
  <2>5. Covers(at, s.task)'
    BY <2>1, <2>2, <2>4, CoversStay
  <2>6. PastProcessed(at)'
    BY <1>1, <1>5, <2>3, <2>4, PastStays
  <2>7. s.phase = "complete" => Counts(counted, seen, at)'
    BY <2>4, CountsStay
  <2>8. SessionIsSound(s)'
    BY <1>3, <1>4, <2>3, <2>5, <2>6, <2>7 DEF SessionIsSound
  <2> QED  BY <1>1, <2>8
<1>6. CASE ~Calculates(s)
  <2>1. SessionIsSound(s)'
    BY <1>3, <1>4, <1>6 DEF SessionIsSound, Calculates
  <2> QED  BY <1>1, <2>1
<1> QED  BY <1>5, <1>6

\* What a step has to show.
LEMMA StepIsSound ==
  ASSUME IInv, SoundInv, [Next]_vars, StoredInv',
         \A r \in Requested' : preview'[r] # preview[r] => RevisionIsSound(r)',
         \A w \in Workers : session'[w] # None /\ session'[w] # session[w] =>
           SessionIsSound(session[w])',
         \A r \in Requested :
           preview'[r] = preview[r] /\ IsLatest(r)' /\ preview[r].status = "completed" =>
             \A e \in NewlyProcessed : received'[e] <= preview[r].watermark,
         \A w \in Workers :
           session[w] # None /\ session'[w] = session[w] /\ Calculates(session[w]) =>
             \A e \in NewlyProcessed : received'[e] <= session[w].watermark
  PROVE  SoundInv'
<1>1. Later
  BY NextIsLater
<1>2. ASSUME NEW r \in Requested'  PROVE RevisionIsSound(r)'
  <2>1. CASE preview'[r] # preview[r]
    BY <1>2, <2>1
  <2>2. CASE preview'[r] = preview[r]
    <3>1. r \in Requested
      BY <1>2, <2>2 DEF Requested
    <3> QED  BY <1>1, <2>2, <3>1, RevisionStays
  <2> QED  BY <2>1, <2>2
<1>3. ASSUME NEW w \in Workers, session'[w] # None  PROVE SessionIsSound(session[w])'
  <2>1. CASE session'[w] # session[w]
    BY <1>3, <2>1
  <2>2. CASE session'[w] = session[w]
    <3>1. session[w] # None
      BY <1>3, <2>2
    <3> QED  BY <1>1, <2>2, <3>1, SessionStays
  <2> QED  BY <2>1, <2>2
<1> QED  BY <1>2, <1>3 DEF SoundInv

\* A step that neither writes a revision nor ends the processing of an event.
LEMMA QuietStep ==
  ASSUME IInv, SoundInv, [Next]_vars, StoredInv', preview' = preview, NewlyProcessed = {},
         \A w \in Workers : session'[w] # None /\ session'[w] # session[w] =>
           SessionIsSound(session[w])'
  PROVE  SoundInv'
BY StepIsSound

\* The events processed after a step of one handler.
LEMMA ProcessedByStep ==
  ASSUME IInv, NEW w \in Workers, NEW s, session' = [session EXCEPT ![w] = s],
         \A e \in Events : job'[e] = "done" => e \in Processed
  PROVE  \A e \in NewlyProcessed : s # None /\ s.task = e /\ s.phase = "ended"
<1>1. \A o \in Workers : session'[o] = IF o = w THEN s ELSE session[o]
  BY DEF IInv, TypeOK
<1> QED  BY <1>1 DEF NewlyProcessed, Processed

\* Steps that store no event.
LEMMA SameEventsKeep ==
  ASSUME IInv, SoundInv, received' = received, now' \in {now, now + 1},
         \A e \in Events \ Stored : job'[e] = job[e]
  PROVE  StoredInv'
<1>1. now \in Nat /\ \A e \in Events : received[e] # None => received[e] \in Nat
  BY DEF IInv, TypeOK
<1> QED  BY <1>1 DEF SoundInv, StoredInv, Stored

\* A handler in a phase that says nothing of watermarks.
LEMMA LightIsSound ==
  ASSUME IInv, SoundInv, Later, NEW w \in Workers, session[w] # None,
         NEW s, session' = [session EXCEPT ![w] = s], s.task = session[w].task,
         s.phase \notin {"exports", "insert"}, ~Calculates(s)
  PROVE  SessionIsSound(session[w])'
<1>1. session'[w] = s
  BY DEF IInv, TypeOK
<1>2. s.task \in Events => s.task \in Stored'
  BY StoredStay DEF SoundInv, SessionIsSound, IInv
<1>3. SessionIsSound(s)'
  BY <1>2 DEF SessionIsSound, Calculates
<1> QED  BY <1>1, <1>3

\* A handler that reads and goes on, or ends a job that is not of an event.
LEMMA ReadingIsSound ==
  ASSUME IInv, SoundInv, [Next]_vars, NEW w \in Workers,
         NEW s, session' = [session EXCEPT ![w] = s],
         s # None => SessionIsSound(session[w])' /\ (s.phase = "ended" => s.task \notin Events),
         UNCHANGED <<now, received, preview>>,
         \A e \in Events : job'[e] = "done" => e \in Processed,
         \A e \in Events \ Stored : job'[e] = job[e]
  PROVE  SoundInv'
<1>1. StoredInv'
  BY SameEventsKeep
<1>2. NewlyProcessed = {}
  <2>1. \A e \in NewlyProcessed : e \in Events
    BY DEF NewlyProcessed, Processed
  <2> QED  BY <2>1, ProcessedByStep
<1>3. \A o \in Workers : session'[o] = IF o = w THEN s ELSE session[o]
  BY DEF IInv, TypeOK
<1>4. \A o \in Workers : session'[o] # None /\ session'[o] # session[o] =>
        SessionIsSound(session[o])'
  <2>1. ASSUME NEW o \in Workers, session'[o] # None, session'[o] # session[o]
        PROVE  o = w /\ s # None
    BY <1>3, <2>1
  <2> QED  BY <2>1
<1> QED  BY <1>1, <1>2, <1>4, QuietStep

\* The same in a phase that says nothing of watermarks.
LEMMA MovingIsSound ==
  ASSUME IInv, SoundInv, [Next]_vars, NEW w \in Workers, session[w] # None,
         NEW s, session' = [session EXCEPT ![w] = s], s.task = session[w].task,
         s.phase \notin {"exports", "insert"}, ~Calculates(s),
         s.phase = "ended" => s.task \notin Events,
         UNCHANGED <<now, received, preview, job>>
  PROVE  SoundInv'
<1>1. SessionIsSound(session[w])'
  BY NextIsLater, LightIsSound
<1>2. \A e \in Events : job'[e] = "done" => e \in Processed
  BY DEF Processed
<1> QED  BY <1>1, <1>2, ReadingIsSound

\* Who calculates works on the latest revision, and has locked it.
LEMMA CalculatingIsLatest ==
  ASSUME IInv, NEW w \in Workers, session[w] # None, Calculates(session[w])
  PROVE  /\ session[w].task \in Requested /\ IsLatest(session[w].task)
         /\ preview[session[w].task].status = "pending"
         /\ session[w].task \in session[w].locks
<1>1. Knows(session[w])
  BY AtWork
<1>2. session[w].task \in Requested /\ session[w].task \in session[w].locks
  BY <1>1, KindsDiffer DEF Calculates, Knows, Exists, Rows, Requested
<1>3. preview[session[w].task].status = "pending"
  BY <1>1, KindsDiffer DEF Calculates, Knows, Status
<1> QED  BY <1>2, <1>3 DEF IInv, TablesInv, Numbered

\* The processing of an event ends: the revision it leaves as the latest has covered it, or
\* will.
LEMMA EndingIsSound ==
  ASSUME IInv, SoundInv, [Next]_vars, NEW w \in Workers, session[w] # None,
         NEW s \in Session, session' = [session EXCEPT ![w] = s],
         s.task = session[w].task, s.phase = "ended",
         UNCHANGED <<now, received, preview, job>>,
         \A r \in Requested :
           IsLatest(r) /\ s.task \in Events =>
             /\ preview[r].status = "completed" => received[s.task] <= preview[r].watermark
             /\ preview[r].status = "pending" => Free(w, r)
  PROVE  SoundInv'
<1>1. Later
  BY NextIsLater
<1>2. StoredInv'
  BY SameEventsKeep
<1>3. SessionIsSound(session[w])'
  BY <1>1, LightIsSound DEF Calculates
<1>4. \A o \in Workers : session'[o] = IF o = w THEN s ELSE session[o]
  BY DEF IInv, TypeOK
<1>5. \A e \in NewlyProcessed : e = s.task /\ e \in Events
  <2>1. \A e \in Events : job'[e] = "done" => e \in Processed
    BY DEF Processed
  <2> QED  BY <2>1, ProcessedByStep DEF NewlyProcessed, Processed
<1>6. \A o \in Workers : session'[o] # None /\ session'[o] # session[o] =>
        SessionIsSound(session[o])'
  BY <1>3, <1>4
<1>7. ASSUME NEW r \in Requested, IsLatest(r)', preview[r].status = "completed",
             NEW e \in NewlyProcessed
      PROVE  received'[e] <= preview[r].watermark
  <2>1. IsLatest(r)
    BY <1>7 DEF IsLatest, Requested
  <2> QED  BY <1>5, <1>7, <2>1
<1>8. ASSUME NEW o \in Workers, session[o] # None, session'[o] = session[o],
             Calculates(session[o]), NEW e \in NewlyProcessed
      PROVE  received'[e] <= session[o].watermark
  <2>1. /\ session[o].task \in Requested /\ IsLatest(session[o].task)
        /\ preview[session[o].task].status = "pending"
        /\ session[o].task \in session[o].locks
    BY <1>8, CalculatingIsLatest
  <2>2. o # w
    BY <1>4, <1>8 DEF Calculates
  <2>3. Free(w, session[o].task)
    BY <1>5, <2>1
  <2> QED  BY <1>8, <2>1, <2>2, <2>3 DEF Free
<1> QED  BY <1>2, <1>6, <1>7, <1>8, StepIsSound

LEMMA LockSeriesIsSound ==
  ASSUME IInv, SoundInv, [Next]_vars, NEW w \in Workers, LockSeries(w)
  PROVE  SoundInv'
<1>1. /\ session \in Sessions /\ session[w] # None /\ session[w] \in Session
      /\ session[w].phase = "series" /\ session[w].locks \in SUBSET Locks
  BY AtWork DEF LockSeries, In
<1>2. UNCHANGED <<now, received, preview, job>>
  BY DEF LockSeries, events, queue
<1>3. CASE Requested = {}
  <2>1. PICK s : Becomes(w, s, "ended", {})
    BY <1>1, <1>3, LeaveBecomes, Zenon DEF LockSeries, Phases
  <2> QED  BY <1>1, <1>2, <1>3, <2>1, EndingIsSound DEF Becomes
<1>4. CASE Requested # {}
  <2> DEFINE locks == session[w].locks \union {Series}
  <2>1. session' = [session EXCEPT ![w].phase = "latest", ![w].locks = locks]
    BY <1>1, <1>4 DEF LockSeries, Sessions, Session
  <2>2. locks \in SUBSET Locks
    BY <1>1 DEF Locks
  <2> HIDE DEF locks
  <2>3. PICK s : Becomes(w, s, "latest", locks)
    BY <1>1, <2>1, <2>2, LockingBecomes, Zenon DEF Phases
  <2> QED  BY <1>1, <1>2, <2>3, MovingIsSound DEF Becomes, Calculates
<1> QED  BY <1>3, <1>4

LEMMA FindLatestIsSound ==
  ASSUME IInv, SoundInv, [Next]_vars, NEW w \in Workers, FindLatest(w)
  PROVE  SoundInv'
<1>1. session \in Sessions /\ session[w] # None
  BY AtWork DEF FindLatest, In
<1>2. PICK r \in Revisions : session' = [session EXCEPT ![w].phase = "row", ![w].latest = r]
  BY DEF FindLatest
<1>3. PICK s : /\ s \in Session /\ session' = [session EXCEPT ![w] = s]
               /\ s.phase = "row" /\ s.locks = session[w].locks
               /\ s.task = session[w].task /\ s.latest = r
  BY <1>1, <1>2, FoundBecomes, Zenon
<1>4. UNCHANGED <<now, received, preview, job>>
  BY DEF FindLatest, events, queue
<1> QED  BY <1>1, <1>3, <1>4, MovingIsSound DEF Calculates

\* A settled revision that an event does not follow has covered it; one in preparation is
\* not locked, and will read the event.
LEMMA LockLatestIsSound ==
  ASSUME IInv, SoundInv, [Next]_vars, NEW w \in Workers, LockLatest(w)
  PROVE  SoundInv'
<1>1. PICK e, r : e = session[w].task /\ r = session[w].latest
  OBVIOUS
<1>2. /\ session \in Sessions /\ session[w] # None /\ session[w] \in Session
      /\ Knows(session[w]) /\ session[w].phase = "row" /\ session[w].locks \in SUBSET Locks
  BY AtWork DEF LockLatest, In
<1>3. UNCHANGED <<now, received, preview, job>>
  BY DEF LockLatest, events, queue
<1>4. r \in Revisions /\ IsLatest(r) /\ Free(w, r)
  BY <1>1, <1>2 DEF Knows, LockLatest
<1>5. CASE ~Follows(e, r)
  <2>1. PICK s : Becomes(w, s, "ended", {})
    BY <1>1, <1>2, <1>5, LeaveBecomes, Zenon DEF LockLatest, Phases
  <2>2. ASSUME NEW q \in Requested, IsLatest(q)  PROVE q = r
    BY <1>4, <2>2, KindsDiffer DEF IsLatest, Requested
  <2>3. ASSUME e \in Events, preview[r].status = "completed"
        PROVE  received[e] <= preview[r].watermark
    <3>1. r \in Requested /\ e \in Stored
      BY <1>1, <1>2, <1>4, <2>3 DEF IsLatest, SoundInv, SessionIsSound
    <3>2. preview[r].watermark \in Nat /\ preview[r].watermark # None
      BY <2>3, <3>1, ConstantsAssumption DEF SoundInv, RevisionIsSound, Covers
    <3>3. received[e] \in Nat
      BY <2>3, <3>1 DEF Stored, IInv, TypeOK
    <3> QED  BY <1>5, <2>3, <3>2, <3>3 DEF Follows, Covered
  <2> QED  BY <1>1, <1>2, <1>3, <1>4, <2>1, <2>2, <2>3, EndingIsSound DEF Becomes
<1>6. CASE Follows(e, r)
  <2> DEFINE locks == session[w].locks \union {r}
  <2>1. session' = [session EXCEPT ![w].phase = "exports", ![w].locks = locks]
    BY <1>1, <1>2, <1>6 DEF LockLatest, Sessions, Session
  <2>2. locks \in SUBSET Locks
    BY <1>2, <1>4 DEF Locks, Rows
  <2> HIDE DEF locks
  <2>3. PICK s : Becomes(w, s, "exports", locks)
    BY <1>2, <2>1, <2>2, LockingBecomes, Zenon DEF Phases
  <2>4. session'[w] = s /\ s.task = e /\ s.latest = r /\ s.phase = "exports"
    BY <1>1, <1>2, <2>3 DEF Becomes, Sessions
  <2>5. Covered(r)' = Covered(r)
    BY <1>3 DEF Covered
  <2>6. e \in Events => e \in Stored' /\ Covered(r) < received'[e]
    BY <1>1, <1>2, <1>3, <1>6 DEF SoundInv, SessionIsSound, Follows, Stored
  <2>7. SessionIsSound(s)'
    BY <2>4, <2>5, <2>6 DEF SessionIsSound, Calculates
  <2>8. \A i \in Events : job'[i] = "done" => i \in Processed
    BY <1>3 DEF Processed
  <2> QED  BY <1>3, <2>3, <2>4, <2>7, <2>8, ReadingIsSound DEF Becomes
<1> QED  BY <1>5, <1>6

LEMMA ReadExportsIsSound ==
  ASSUME IInv, SoundInv, [Next]_vars, NEW w \in Workers, ReadExports(w)
  PROVE  SoundInv'
<1>1. /\ session \in Sessions /\ session[w] # None
      /\ Knows(session[w]) /\ session[w].phase = "exports"
  BY AtWork DEF ReadExports, In
<1>2. UNCHANGED <<now, received, preview, job>>
  BY DEF ReadExports, events, queue
<1>3. PICK a \in Revisions \union {None} :
        session' = [session EXCEPT ![w].phase = "insert", ![w].adjusts = a]
  <2>1. session[w].latest \in Revisions
    BY <1>1 DEF Knows
  <2> QED  BY <2>1 DEF ReadExports
<1>4. PICK s : Becomes(w, s, "insert", session[w].locks)
  BY <1>1, <1>3, AdjustingBecomes, Zenon
<1>5. session'[w] = s
  BY <1>1, <1>4 DEF Becomes, Sessions
<1>6. Covered(s.latest)' = Covered(s.latest)
  BY <1>2 DEF Covered
<1>7. s.task \in Events => s.task \in Stored' /\ Covered(s.latest) < received'[s.task]
  BY <1>1, <1>2, <1>4 DEF SoundInv, SessionIsSound, Becomes, Stored
<1>8. SessionIsSound(s)'
  BY <1>4, <1>6, <1>7 DEF SessionIsSound, Calculates, Becomes
<1>9. \A i \in Events : job'[i] = "done" => i \in Processed
  BY <1>2 DEF Processed
<1> QED  BY <1>2, <1>4, <1>5, <1>8, <1>9, ReadingIsSound DEF Becomes

LEMMA LockRowIsSound ==
  ASSUME IInv, SoundInv, [Next]_vars, NEW w \in Workers, LockRow(w)
  PROVE  SoundInv'
<1> DEFINE row == session[w].task
<1>1. /\ session \in Sessions /\ session[w] # None /\ session[w] \in Session
      /\ session[w].phase = "lock" /\ row \in Rows
  BY AtWork DEF LockRow, In, Knows
<1>2. UNCHANGED <<now, received, preview, job>>
  BY DEF LockRow, events, queue
<1>3. row \notin Events
  BY <1>1, KindsDiffer, ConstantsAssumption DEF Rows
<1>4. CASE Leave(w, "ended")
  <2>1. PICK s : Becomes(w, s, "ended", {})
    BY <1>1, <1>4, LeaveBecomes, Zenon DEF Phases
  <2> QED  BY <1>1, <1>2, <1>3, <2>1, MovingIsSound DEF Becomes, Calculates
<1>5. CASE ~Leave(w, "ended")
  <2>1. session' = [session EXCEPT ![w].phase = FirstPhase(row), ![w].locks = {row}]
    BY <1>1, <1>5 DEF LockRow, Sessions, Session
  <2>2. FirstPhase(row) \in Phases /\ {row} \in SUBSET Locks
    BY <1>1 DEF FirstPhase, Phases, Locks
  <2>3. PICK s : Becomes(w, s, FirstPhase(row), {row})
    <3> HIDE DEF row
    <3> QED  BY <1>1, <2>1, <2>2, LockingBecomes, Zenon
  <2>4. s.phase \notin {"exports", "insert", "ended"} /\ ~Calculates(s)
    BY <2>3 DEF Becomes, Calculates, FirstPhase
  <2> QED  BY <1>1, <1>2, <2>3, <2>4, MovingIsSound DEF Becomes
<1> QED  BY <1>4, <1>5

LEMMA RepairIsSound ==
  ASSUME IInv, SoundInv, [Next]_vars, NEW w \in Workers, Repair(w)
  PROVE  SoundInv'
<1>1. /\ session \in Sessions /\ session[w] # None /\ session[w] \in Session
      /\ session[w].task = Run
  BY AtWork DEF Repair, In, Knows
<1>2. UNCHANGED <<now, received, preview, job>>
  BY DEF Repair, events, queue
<1>3. PICK s : \E phase \in {"failing", "ended", "series"} :
                 \E locks : Becomes(w, s, phase, locks)
  <2>1. CASE Leave(w, "failing") \/ Leave(w, "ended")
    BY <1>1, <2>1, LeaveBecomes, Zenon DEF Phases
  <2>2. CASE session' = [session EXCEPT ![w].phase = "series"]
    BY <1>1, <2>2, MovingBecomes, Zenon DEF Phases
  <2> QED  BY <2>1, <2>2 DEF Repair
<1>4. /\ s.task = session[w].task /\ session' = [session EXCEPT ![w] = s]
      /\ s.phase \in {"failing", "ended", "series"}
  BY <1>3 DEF Becomes
<1> QED  BY <1>1, <1>2, <1>4, KindsDiffer, MovingIsSound DEF Calculates

\* A handler that fails, or builds an export, or gives up.
LEMMA LeavingIsSound ==
  ASSUME IInv, SoundInv, [Next]_vars, NEW w \in Workers, session[w] # None,
         NEW phase \in {"failing", "failed", "ended"}, Leave(w, phase),
         session[w].task \in Rows, UNCHANGED <<now, received, preview, job>>
  PROVE  SoundInv'
<1>1. session \in Sessions
  BY AtWork
<1>2. PICK s : Becomes(w, s, phase, {})
  BY <1>1, LeaveBecomes, Zenon DEF Phases
<1>3. session[w].task \notin Events
  BY KindsDiffer, ConstantsAssumption DEF Rows
<1> QED  BY <1>2, <1>3, MovingIsSound DEF Becomes, Calculates

LEMMA CompleteExportIsSound ==
  ASSUME IInv, SoundInv, [Next]_vars, NEW w \in Workers, CompleteExport(w)
  PROVE  SoundInv'
BY LeavingIsSound DEF CompleteExport, In, Rows, events, queue

\* The watermark a calculation reads is not before any stored event.
LEMMA ReadWatermarkIsSound ==
  ASSUME IInv, SoundInv, [Next]_vars, NEW w \in Workers, ReadWatermark(w)
  PROVE  SoundInv'
<1>0. PICK r : r = session[w].task
  OBVIOUS
<1>1. /\ session \in Sessions /\ session[w] # None /\ session[w] \in Session
      /\ Knows(session[w]) /\ session[w].phase = "watermark" /\ TablesTyped
  BY AtWork DEF ReadWatermark, In
<1>2. UNCHANGED <<now, received, preview, job>>
  BY DEF ReadWatermark, events, queue
<1>3. r \in Revisions /\ r \in Requested /\ preview[r] \in Preview
  BY <1>0, <1>1, KindsDiffer DEF Knows, Rows, Exists, Requested, TablesTyped
<1>4. \A e \in Stored : received[e] \in Nat
  BY <1>1 DEF Stored, TablesTyped
<1>5. PICK at \in Nat :
        /\ \A e \in Stored : received[e] <= at
        /\ session' = [session EXCEPT ![w].phase = "events", ![w].watermark = at]
  <2> DEFINE created == preview[r].created
             last == {at \in {received[e] : e \in Stored} :
                        \A e \in Stored : received[e] <= at}
             marks == IF Stored = {} THEN {created} ELSE last
  <2>1. \E at \in marks :
          session' = [session EXCEPT ![w].phase = "events", ![w].watermark = at]
    BY <1>0 DEF ReadWatermark
  <2>2. created \in Nat
    BY <1>3 DEF Preview
  <2>3. \A at \in marks : at \in Nat /\ \A e \in Stored : received[e] <= at
    BY <1>4, <2>2
  <2> HIDE DEF marks
  <2> QED  BY <2>1, <2>3
<1>6. PICK s : /\ session' = [session EXCEPT ![w] = s] /\ session'[w] = s /\ s \in Session
               /\ s.task = r /\ s.phase = "events" /\ s.watermark = at
  <2> DEFINE s == [session[w] EXCEPT !.phase = "events", !.watermark = at]
  <2>1. s \in Session /\ s.task = r /\ s.phase = "events" /\ s.watermark = at
    BY <1>0, <1>1 DEF Session
  <2>2. session' = [session EXCEPT ![w] = s] /\ session'[w] = s
    BY <1>1, <1>5 DEF Sessions, Session
  <2> HIDE DEF s
  <2> QED  BY <2>1, <2>2
<1>7. r \notin Events
  BY <1>3, KindsDiffer
<1>8. Covers(at, r)'
  <2>1. preview[r].cause \in Events => preview[r].cause \in Stored
    BY <1>3 DEF SoundInv, RevisionIsSound, AskedLater
  <2> QED  BY <1>2, <1>5, <2>1 DEF Covers
<1>9. \A e \in Events : job'[e] = "done" => e \in Processed
  BY <1>2 DEF Processed
<1>10. PastProcessed(at)'
  <2>1. \A e \in NewlyProcessed : s.phase = "ended"
    BY <1>6, <1>9, ProcessedByStep
  <2>2. \A e \in Processed' : e \in Processed
    BY <1>6, <2>1 DEF NewlyProcessed
  <2> QED  BY <1>2, <1>5, <2>2, ProcessedAreStored DEF PastProcessed
<1>11. SessionIsSound(s)'
  BY <1>6, <1>7, <1>8, <1>10 DEF SessionIsSound
<1> QED  BY <1>2, <1>6, <1>9, <1>11, ReadingIsSound

\* What a calculation counts are the effective events, of those it can see.
LEMMA ReadEventsIsSound ==
  ASSUME IInv, SoundInv, [Next]_vars, NEW w \in Workers, ReadEvents(w)
  PROVE  SoundInv'
<1> DEFINE counted == EffectiveAt(session[w].watermark)
<1>1. /\ session \in Sessions /\ session[w] # None /\ session[w] \in Session
      /\ Knows(session[w]) /\ session[w].phase = "events"
  BY AtWork DEF ReadEvents, In
<1>2. session[w].task \in Revisions /\ session[w].task \in Rows /\ session[w].task \notin Events
  BY <1>1, KindsDiffer DEF Knows, Rows
<1>3. UNCHANGED <<now, received, preview, job>>
  BY DEF ReadEvents, events, queue
<1>4. CASE Leave(w, "failing")
  BY <1>1, <1>2, <1>3, <1>4, LeavingIsSound
<1>5. CASE ~Leave(w, "failing")
  <2>1. session' = [session EXCEPT ![w].phase = "complete", ![w].counted = counted,
                                   ![w].seen = Stored]
    BY <1>5 DEF ReadEvents
  <2>2. counted \in SUBSET Events /\ Stored \in SUBSET Events
    BY DEF EffectiveAt, Stored
  <2>3. counted = EffectiveIn(Stored, session[w].watermark)
    BY DEF EffectiveAt, EffectiveIn
  <2>4. PICK at, c, S : at = session[w].watermark /\ c = counted /\ S = Stored
    OBVIOUS
  <2> HIDE DEF counted
  <2>5. PICK s : /\ session' = [session EXCEPT ![w] = s] /\ session'[w] = s /\ s \in Session
                 /\ s.task = session[w].task /\ s.phase = "complete" /\ s.watermark = at
                 /\ s.counted = c /\ s.seen = S
    <3> DEFINE s == [session[w] EXCEPT !.phase = "complete", !.counted = counted,
                                       !.seen = Stored]
    <3>1. /\ s \in Session /\ s.task = session[w].task /\ s.phase = "complete"
          /\ s.watermark = at /\ s.counted = c /\ s.seen = S
      BY <1>1, <2>2, <2>4 DEF Session
    <3>2. session' = [session EXCEPT ![w] = s] /\ session'[w] = s
      BY <1>1, <2>1 DEF Sessions, Session
    <3> HIDE DEF s
    <3> QED  BY <3>1, <3>2
  <2>6. Later
    BY NextIsLater
  <2>7. Counts(c, S, at)'
    <3>1. Counts(c, S, at)
      BY <2>3, <2>4 DEF Counts
    <3> QED  BY <2>6, <3>1, CountsStay
  <2>8. Covers(at, session[w].task) /\ PastProcessed(at)
    BY <1>1, <1>2, <2>4 DEF SoundInv, SessionIsSound, Calculates
  <2>9. Covers(at, s.task)'
    BY <1>3, <2>5, <2>8 DEF Covers
  <2>10. \A e \in Events : job'[e] = "done" => e \in Processed
    BY <1>3 DEF Processed
  <2>11. PastProcessed(at)'
    <3>1. \A e \in NewlyProcessed : s.phase = "ended"
      BY <2>5, <2>10, ProcessedByStep
    <3> QED  BY <2>5, <2>6, <2>8, <3>1, PastStays
  <2>12. SessionIsSound(s)'
    BY <1>2, <2>5, <2>7, <2>9, <2>11 DEF SessionIsSound
  <2> QED  BY <1>2, <1>3, <2>5, <2>10, <2>12, ReadingIsSound
<1> QED  BY <1>4, <1>5

\* A handler settles its revision.
LEMMA SettlingIsSound ==
  ASSUME IInv, SoundInv, [Next]_vars, NEW w \in Workers, session[w] # None,
         NEW phase \in {"failed", "ended"}, Leave(w, phase),
         NEW r \in Revisions, r = session[w].task,
         \A q \in Revisions \ {r} : preview'[q] = preview[q], RevisionIsSound(r)',
         UNCHANGED <<now, received, job>>
  PROVE  SoundInv'
<1>1. session \in Sessions
  BY AtWork
<1>2. PICK s : Becomes(w, s, phase, {})
  BY <1>1, LeaveBecomes, Zenon DEF Phases
<1>3. \A o \in Workers : session'[o] = IF o = w THEN s ELSE session[o]
  BY <1>1, <1>2 DEF Sessions, Becomes
<1>4. r \notin Events
  BY KindsDiffer
<1>5. NewlyProcessed = {}
  <2>1. \A e \in Events : job'[e] = "done" => e \in Processed
    BY DEF Processed
  <2>2. \A e \in NewlyProcessed : s.task = e /\ e \in Events
    BY <1>2, <2>1, ProcessedByStep DEF Becomes, NewlyProcessed, Processed
  <2> QED  BY <1>2, <1>4, <2>2 DEF Becomes
<1>6. SessionIsSound(session[w])'
  BY <1>2, NextIsLater, LightIsSound DEF Becomes, Calculates
<1>7. \A o \in Workers : session'[o] # None /\ session'[o] # session[o] =>
        SessionIsSound(session[o])'
  BY <1>3, <1>6
<1>8. \A q \in Requested' : preview'[q] # preview[q] => RevisionIsSound(q)'
  BY DEF Requested
<1>9. StoredInv'
  BY SameEventsKeep
<1> QED  BY <1>5, <1>7, <1>8, <1>9, StepIsSound

\* What a calculation has read becomes what the revision has covered and counted.
LEMMA CompletePreviewIsSound ==
  ASSUME IInv, SoundInv, [Next]_vars, NEW w \in Workers, CompletePreview(w)
  PROVE  SoundInv'
<1>1. PICK s, r : s = session[w] /\ r = s.task
  OBVIOUS
<1>2. /\ session \in Sessions /\ s # None /\ s \in Session /\ Knows(s)
      /\ s.phase = "complete" /\ r \in Revisions /\ TablesTyped
  BY <1>1, AtWork DEF CompletePreview, In
<1>3. Leave(w, "ended") /\ UNCHANGED <<now, received, job>>
  BY DEF CompletePreview, events, queue
<1>4. r \in Requested /\ preview[r] \in Preview
  BY <1>1, <1>2, KindsDiffer DEF Knows, Rows, Exists, Requested, TablesTyped
<1>5. PICK at, c, S : at = s.watermark /\ c = s.counted /\ S = s.seen
  OBVIOUS
<1>6. /\ preview'[r].status = "completed" /\ preview'[r].watermark = at
      /\ preview'[r].counted = c /\ preview'[r].seen = S
      /\ \A q \in Revisions \ {r} : preview'[q] = preview[q]
  BY <1>1, <1>2, <1>4, <1>5 DEF CompletePreview, TablesTyped, Preview
<1>7. Later
  BY NextIsLater
<1>8. Covers(at, r) /\ PastProcessed(at) /\ Counts(c, S, at)
  BY <1>1, <1>2, <1>5 DEF SoundInv, SessionIsSound, Calculates
<1>9. AskedLater(r) /\ AskedLater(r)'
  BY <1>4, <1>7, AskedStays DEF SoundInv, RevisionIsSound
<1>10. Covers(at, r)' /\ Counts(c, S, at)'
  BY <1>4, <1>7, <1>8, <1>9, CoversStay, CountsStay
<1>11. PastProcessed(at)'
  <2>1. PICK t : Becomes(w, t, "ended", {})
    BY <1>1, <1>2, <1>3, LeaveBecomes, Zenon DEF Phases
  <2>2. \A e \in Events : job'[e] = "done" => e \in Processed
    BY <1>3 DEF Processed
  <2>3. \A e \in NewlyProcessed : t.task = e /\ e \in Events
    BY <2>1, <2>2, ProcessedByStep DEF Becomes, NewlyProcessed, Processed
  <2>4. NewlyProcessed = {}
    BY <1>1, <1>2, <2>1, <2>3, KindsDiffer DEF Becomes
  <2> QED  BY <1>7, <1>8, <2>4, PastStays
<1>12. RevisionIsSound(r)'
  BY <1>6, <1>9, <1>10, <1>11 DEF RevisionIsSound
<1> QED  BY <1>1, <1>2, <1>3, <1>6, <1>12, SettlingIsSound

LEMMA FailIsSound ==
  ASSUME IInv, SoundInv, [Next]_vars, NEW w \in Workers, Fail(w)
  PROVE  SoundInv'
<1>1. PICK r : r = session[w].task
  OBVIOUS
<1>2. session[w] # None /\ r \in Rows /\ Exists(r) /\ TablesTyped
  BY <1>1, AtWork DEF Fail, In, Knows
<1>3. Leave(w, "failed") /\ UNCHANGED <<now, received, job>>
  BY DEF Fail, events, queue
<1>4. CASE preview' = preview
  BY <1>1, <1>2, <1>3, <1>4, LeavingIsSound
<1>5. CASE FailPreview(r)
  <2>1. r \in Revisions /\ preview[r] \in Preview /\ r \in Requested
    BY <1>2, <1>5, KindsDiffer DEF FailPreview, Exists, TablesTyped, Requested
  <2>2. /\ preview'[r].status = "failed"
        /\ \A q \in Revisions \ {r} : preview'[q] = preview[q]
    BY <1>2, <1>5, <2>1 DEF FailPreview, TablesTyped, Preview
  <2>3. AskedLater(r)'
    BY <2>1, NextIsLater, AskedStays DEF SoundInv, RevisionIsSound
  <2>4. RevisionIsSound(r)'
    BY <2>2, <2>3 DEF RevisionIsSound
  <2> QED  BY <1>1, <1>2, <1>3, <2>1, <2>2, <2>4, SettlingIsSound
<1> QED  BY <1>1, <1>4, <1>5 DEF Fail, FailExport, FailRun

\* The event that a revision is added for is later than what the one before has covered.
LEMMA AppendIsSound ==
  ASSUME IInv, SoundInv, [Next]_vars, NEW w \in Workers, Append(w)
  PROVE  SoundInv'
<1>1. PICK h, r, q : h = session[w] /\ r = h.latest /\ q = r + 1
  OBVIOUS
<1>2. /\ session \in Sessions /\ h # None /\ h \in Session /\ Knows(h)
      /\ h.phase = "insert" /\ TablesTyped /\ r < MaxRevision
  BY <1>1, AtWork DEF Append, In
<1>3. /\ r \in Revisions /\ IsLatest(r) /\ preview[r].status # "pending"
      /\ h.task \in Events \union {Run}
  BY <1>1, <1>2 DEF Knows
<1>4. q \in Revisions \ Requested /\ r = q - 1 /\ q > 1
  BY <1>1, <1>2, <1>3, ConstantsAssumption DEF Revisions, IsLatest
<1>5. /\ preview'[q].status = "pending" /\ preview'[q].cause = h.task
      /\ \A o \in Revisions \ {q} : preview'[o] = preview[o]
      /\ preview'[q] # None
  <2> DEFINE p == [status |-> "pending", created |-> h.at, watermark |-> None, counted |-> {},
                   adjusts |-> h.adjusts, cause |-> h.task, seen |-> {}]
  <2>1. p \in Preview /\ p.status = "pending" /\ p.cause = h.task
    BY <1>2, <1>3 DEF Preview, Session
  <2>2. preview' = [preview EXCEPT ![q] = p]
    BY <1>1 DEF Append, Request
  <2> HIDE DEF p
  <2> QED  BY <1>2, <1>4, <2>1, <2>2, NoneAssumption DEF TablesTyped
<1>6. UNCHANGED <<now, received>> /\ \A e \in Events : job'[e] = job[e]
  <2>1. job' = [job EXCEPT ![q] = "queued"] /\ q \notin Events
    BY <1>1, <1>4, KindsDiffer DEF Append, Request
  <2> QED  BY <1>2, <2>1 DEF Append, events, TablesTyped, Jobs
<1>7. StoredInv'
  BY <1>6, SameEventsKeep
<1>8. PICK s : Becomes(w, s, "ended", {})
  BY <1>1, <1>2, LeaveBecomes, Zenon DEF Append, Phases
<1>9. \A o \in Workers : session'[o] = IF o = w THEN s ELSE session[o]
  BY <1>2, <1>8 DEF Sessions, Becomes
<1>10. SessionIsSound(session[w])'
  BY <1>1, <1>2, <1>8, NextIsLater, LightIsSound DEF Becomes, Calculates
<1>11. AskedLater(q)'
  <2>1. Covered(r)' = Covered(r) /\ preview'[r] = preview[r]
    BY <1>3, <1>4, <1>5 DEF Covered, IsLatest
  <2>2. h.task \in Events => h.task \in Stored' /\ Covered(r) < received'[h.task]
    BY <1>1, <1>2, <1>6 DEF SoundInv, SessionIsSound, Stored
  <2> QED  BY <1>3, <1>4, <1>5, <2>1, <2>2 DEF AskedLater
<1>12. RevisionIsSound(q)'
  BY <1>5, <1>11 DEF RevisionIsSound
<1>13. \A o \in Requested' : preview'[o] # preview[o] => RevisionIsSound(o)'
  BY <1>5, <1>12 DEF Requested
<1>14. \A o \in Requested : ~IsLatest(o)'
  <2>1. q \in Requested'
    BY <1>4, <1>5 DEF Requested
  <2>2. \A o \in Requested : o < q
    BY <1>3, <1>4, KindsDiffer DEF IsLatest, Requested
  <2> QED  BY <2>1, <2>2, KindsDiffer DEF IsLatest, Requested
<1>15. ASSUME NEW o \in Workers, session[o] # None, Calculates(session[o])  PROVE FALSE
  <2>1. /\ IsLatest(session[o].task) /\ preview[session[o].task].status = "pending"
    BY <1>15, CalculatingIsLatest
  <2>2. session[o].task = r
    <3>1. PICK t : t = session[o].task
      OBVIOUS
    <3>2. IsLatest(t)
      BY <2>1, <3>1
    <3>3. t = r
      BY <1>3, <3>2, KindsDiffer DEF IsLatest, Requested
    <3> QED  BY <3>1, <3>3
  <2> QED  BY <1>3, <2>1, <2>2
<1>16. \A o \in Workers : session'[o] # None /\ session'[o] # session[o] =>
         SessionIsSound(session[o])'
  BY <1>9, <1>10
<1> QED  BY <1>7, <1>13, <1>14, <1>15, <1>16, StepIsSound

LEMMA EndIsSound ==
  ASSUME IInv, SoundInv, [Next]_vars, NEW w \in Workers, End(w)
  PROVE  SoundInv'
<1>1. /\ session[w] # None /\ session[w] \in Session /\ TablesTyped
      /\ session[w].phase \in {"ended", "failed"}
  BY AtWork DEF End, In
<1>2. /\ session' = [session EXCEPT ![w] = None]
      /\ UNCHANGED <<now, received, preview>>
  BY DEF End, events
<1>3. \A e \in Events : job'[e] = "done" =>
        job[e] = "done" \/ (e = session[w].task /\ session[w].phase = "ended")
  BY <1>1 DEF End, TablesTyped, Jobs
<1>4. \A e \in Events : job'[e] = "done" => e \in Processed
  BY <1>1, <1>3 DEF Processed
<1>5. \A e \in Events \ Stored : e # session[w].task
  BY <1>1 DEF SoundInv, SessionIsSound
<1>6. \A e \in Events \ Stored : job'[e] = job[e]
  BY <1>1, <1>5 DEF End, TablesTyped, Jobs
<1> QED  BY <1>2, <1>4, <1>6, ReadingIsSound

LEMMA LoseIsSound ==
  ASSUME IInv, SoundInv, [Next]_vars, NEW w \in Workers, Lose(w)
  PROVE  SoundInv'
<1>1. session[w] # None /\ session[w] \in Session /\ TablesTyped
  BY AtWork DEF Lose
<1>2. /\ session' = [session EXCEPT ![w] = None]
      /\ UNCHANGED <<now, received, preview>>
  BY DEF Lose, events
<1>3. \A e \in Events : job'[e] = "done" => job[e] = "done"
  BY <1>1 DEF Lose, TablesTyped, Jobs
<1>4. \A e \in Events : job'[e] = "done" => e \in Processed
  BY <1>3 DEF Processed
<1>5. \A e \in Events \ Stored : e # session[w].task
  BY <1>1 DEF SoundInv, SessionIsSound
<1>6. \A e \in Events \ Stored : job'[e] = job[e]
  BY <1>1, <1>5 DEF Lose, TablesTyped, Jobs
<1> QED  BY <1>2, <1>4, <1>6, ReadingIsSound

LEMMA BeginIsSound ==
  ASSUME IInv, SoundInv, [Next]_vars, NEW w \in Workers, Begin(w)
  PROVE  SoundInv'
<1>1. PICK j \in Jobs, phase \in {"series", "failed", "lock"} :
        /\ job[j] = "queued"
        /\ session' = [session EXCEPT ![w] = Opened(j, phase)]
        /\ UNCHANGED <<now, received, preview, job>>
  BY DEF Begin, BeginEvent, BeginRow, Jobs, Claims, events
<1>2. PICK s : s = Opened(j, phase) /\ s.task = j /\ s.phase = phase
  <2>1. Opened(j, phase).task = j /\ Opened(j, phase).phase = phase
    BY DEF Opened
  <2> QED  BY <2>1
<1>3. session'[w] = s
  BY <1>1, <1>2 DEF IInv, TypeOK
<1>4. j \in Events => j \in Stored'
  BY <1>1 DEF SoundInv, StoredInv, Stored
<1>5. SessionIsSound(s)'
  BY <1>2, <1>4 DEF SessionIsSound, Calculates
<1>6. \A e \in Events : job'[e] = "done" => e \in Processed
  BY <1>1 DEF Processed
<1> QED  BY <1>1, <1>2, <1>3, <1>5, <1>6, ReadingIsSound

\* Clients, operators and retention write no revision but the first, and process nothing.
LEMMA ApartIsSound ==
  ASSUME IInv, SoundInv, [Next]_vars, UNCHANGED <<session, preview>>, StoredInv',
         \A e \in Events : job'[e] = "done" => job[e] = "done"
  PROVE  SoundInv'
<1>1. NewlyProcessed = {}
  BY DEF NewlyProcessed, Processed
<1> QED  BY <1>1, QuietStep

LEMMA AcceptIsSound ==
  ASSUME IInv, SoundInv, [Next]_vars, NEW e \in Events, Accept(e)
  PROVE  SoundInv'
<1>1. /\ now \in Nat /\ received \in [Events -> Nat \union {None}]
      /\ job \in [Jobs -> {"none", "queued", "done", "failed", "exhausted"}]
  BY DEF IInv, TypeOK
<1>2. PICK at \in 0..now : received' = [received EXCEPT ![e] = at]
  BY DEF Accept
<1>3. at \in Nat /\ at <= now /\ at # None /\ now' = now
  BY <1>1, ConstantsAssumption DEF Accept
<1>4. \A i \in Events : job'[i] = IF i = e THEN "queued" ELSE job[i]
  BY <1>1 DEF Accept, Jobs
<1>5. StoredInv'
  BY <1>1, <1>2, <1>3, <1>4 DEF SoundInv, StoredInv, Stored
<1> QED  BY <1>4, <1>5, ApartIsSound DEF Accept

LEMMA CreateIsSound ==
  ASSUME IInv, SoundInv, [Next]_vars, Create
  PROVE  SoundInv'
<1>1. /\ preview \in [Revisions -> Preview \union {None}] /\ now \in Nat
      /\ job \in [Jobs -> {"none", "queued", "done", "failed", "exhausted"}]
  BY DEF IInv, TypeOK
<1>2. 1 \in Revisions /\ 1 \notin Events
  BY ConstantsAssumption DEF Revisions
<1>3. PICK at \in 0..now : Request(1, at, None, None)
  BY DEF Create
<1>4. /\ preview'[1].status = "pending" /\ preview'[1].cause = None
      /\ \A r \in Revisions \ {1} : preview'[r] = preview[r]
  BY <1>1, <1>2, <1>3 DEF Request
<1>5. \A e \in Events : job'[e] = job[e]
  BY <1>1, <1>2, <1>3 DEF Request, Jobs
<1>6. RevisionIsSound(1)'
  BY <1>4, ConstantsAssumption DEF RevisionIsSound, AskedLater
<1>7. \A r \in Requested' : preview'[r] # preview[r] => RevisionIsSound(r)'
  BY <1>4, <1>6 DEF Requested
<1>8. NewlyProcessed = {}
  BY <1>5 DEF NewlyProcessed, Processed, Create
<1>9. StoredInv'
  BY <1>5, SameEventsKeep DEF Create, events
<1> QED  BY <1>7, <1>8, <1>9, StepIsSound DEF Create

LEMMA OthersAreSound ==
  ASSUME IInv, SoundInv, [Next]_vars,
         \/ \E x \in Exports : ChooseExport(x) \/ CreateExport(x)
         \/ CreateRun \/ Redact \/ Tick
         \/ \E j \in Jobs : Retry(j)
         \/ UNCHANGED vars
  PROVE  SoundInv'
<1>1. /\ job \in [Jobs -> {"none", "queued", "done", "failed", "exhausted"}]
      /\ now \in Nat
  BY DEF IInv, TypeOK
<1>2. /\ UNCHANGED <<received, session, preview>> /\ now' \in {now, now + 1}
  BY DEF ChooseExport, CreateExport, CreateRun, Redact, Tick, Retry, events, vars
<1>3. /\ \A e \in Events : job'[e] = "done" => job[e] = "done"
      /\ \A e \in Events \ Stored : job'[e] = job[e]
  <2>1. CASE \E x \in Exports : CreateExport(x)
    BY <1>1, <2>1, ConstantsAssumption DEF CreateExport, Jobs
  <2>2. CASE CreateRun
    BY <1>1, <2>2, ConstantsAssumption DEF CreateRun, Jobs
  <2>3. CASE \E j \in Jobs : Retry(j)
    BY <1>1, <2>3 DEF Retry, Jobs, SoundInv, StoredInv
  <2>4. CASE (\E x \in Exports : ChooseExport(x)) \/ Redact \/ Tick \/ UNCHANGED vars
    BY <2>4 DEF ChooseExport, Redact, Tick, queue, vars
  <2> QED  BY <2>1, <2>2, <2>3, <2>4
<1>4. StoredInv'
  BY <1>2, <1>3, SameEventsKeep
<1> QED  BY <1>2, <1>3, <1>4, ApartIsSound

LEMMA NextIsSound ==
  ASSUME IInv, SoundInv, [Next]_vars
  PROVE  SoundInv'
<1>1. ASSUME NEW e \in Events, Accept(e)  PROVE SoundInv'
  BY <1>1, AcceptIsSound
<1>2. CASE Create
  BY <1>2, CreateIsSound
<1>3. CASE \/ \E x \in Exports : ChooseExport(x) \/ CreateExport(x)
           \/ CreateRun \/ Redact \/ Tick
           \/ \E j \in Jobs : Retry(j)
           \/ UNCHANGED vars
  BY <1>3, OthersAreSound
<1>4. ASSUME NEW w \in Workers, Begin(w)  PROVE SoundInv'
  BY <1>4, BeginIsSound
<1>5. ASSUME NEW w \in Workers, Proceed(w)  PROVE SoundInv'
  BY <1>5, LockSeriesIsSound, FindLatestIsSound, LockLatestIsSound, ReadExportsIsSound,
     AppendIsSound, LockRowIsSound, RepairIsSound, ReadWatermarkIsSound, ReadEventsIsSound,
     CompletePreviewIsSound, CompleteExportIsSound, FailIsSound, EndIsSound DEF Proceed
<1>6. ASSUME NEW w \in Workers, Lose(w)  PROVE SoundInv'
  BY <1>6, LoseIsSound
<1> QED  BY <1>1, <1>2, <1>3, <1>4, <1>5, <1>6 DEF Next

LEMMA InitIsSound ==
  ASSUME Init
  PROVE  SoundInv
<1>1. Requested = {}
  BY DEF Init, Requested
<1> QED  BY <1>1 DEF Init, SoundInv, StoredInv, Jobs

\* What a revision counts and covers is what its calculation has read, and a settled latest
\* revision has covered every event whose processing has ended.
THEOREM Soundness == Spec => []SoundInv
BY InitIsSound, NextIsSound, Invariance, PTL DEF Spec

\* A revision that an event has asked for covers more than the one it follows: the event is
\* later than what that has covered, and not later than what this one covers.
THEOREM RevisionsGrow == Spec => []RevisionsAdvance
<1>1. ASSUME IInv, SoundInv  PROVE RevisionsAdvance
  <2>1. SUFFICES ASSUME NEW r \in Requested, NEW q \in Requested,
                        q = r + 1, preview[q].cause \in Events,
                        preview[r].status = "completed", preview[q].status = "completed"
                 PROVE  preview[r].watermark < preview[q].watermark
    BY DEF RevisionsAdvance
  <2>2. RevisionIsSound(r) /\ RevisionIsSound(q)
    BY <1>1 DEF SoundInv
  <2>3. r = q - 1
    BY <2>1, KindsDiffer DEF Requested
  <2>4. Covered(r) < received[preview[q].cause] /\ preview[q].cause \in Stored
    BY <2>1, <2>2, <2>3 DEF RevisionIsSound, AskedLater
  <2>5. received[preview[q].cause] \in Nat
    BY <1>1, <2>4 DEF IInv, TypeOK, Stored
  <2>6. /\ preview[r].watermark \in Nat /\ preview[q].watermark \in Nat
        /\ received[preview[q].cause] <= preview[q].watermark
    BY <2>1, <2>2 DEF RevisionIsSound, Covers
  <2>7. Covered(r) = preview[r].watermark
    BY <2>6, ConstantsAssumption DEF Covered
  <2> QED  BY <2>4, <2>5, <2>6, <2>7
<1> QED  BY <1>1, Invariance, Soundness, PTL

\* When every stored event is processed, a completed latest revision counts the effective
\* events, unless one was committed behind its watermark: whatever the order of events,
\* corrections, repairs, exports, losses and retries, and however many handlers overlap.
THEOREM OnlyEventsBehindAreLost == Spec => []PreviewsLoseOnlyEventsBehind
<1>1. ASSUME IInv, SoundInv  PROVE PreviewsLoseOnlyEventsBehind
  <2>1. SUFFICES ASSUME NEW r \in Requested, IsLatest(r), preview[r].status = "completed",
                        AllProcessed, Behind(r) = {}
                 PROVE  preview[r].counted = EffectiveAt(now)
    BY DEF PreviewsLoseOnlyEventsBehind
  <2>2. PICK at, S : at = preview[r].watermark /\ S = preview[r].seen
    OBVIOUS
  <2>3. /\ S \subseteq Stored /\ preview[r].counted = EffectiveIn(S, at)
        /\ PastProcessed(at)
    BY <1>1, <2>1, <2>2 DEF SoundInv, RevisionIsSound, Counts
  <2>4. \A e \in Stored : received[e] <= at
    BY <2>1, <2>3 DEF PastProcessed, Processed, AllProcessed, Stored
  <2>5. S = Stored
    BY <2>1, <2>2, <2>3, <2>4 DEF Behind
  <2>6. \A e \in Stored : received[e] <= now
    BY <1>1 DEF SoundInv, StoredInv, Stored
  <2> QED  BY <2>3, <2>4, <2>5, <2>6 DEF EffectiveIn, EffectiveAt
<1> QED  BY <1>1, Invariance, Soundness, PTL
=============================================================================
