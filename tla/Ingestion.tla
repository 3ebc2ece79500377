----------------------------- MODULE Ingestion -----------------------------
(***************************************************************************)
(* The calls of API clients: the rate limit of the credential, the         *)
(* authentication of the key, the validation of event times, and the       *)
(* transaction that stores a batch of events or a correction.  The keys    *)
(* are those of Access, whose requests rotate and revoke them meanwhile.   *)
(*                                                                         *)
(* A batch is one transaction at READ COMMITTED that inserts its events in *)
(* the order the client sent them.  An insert waits for an uncommitted row *)
(* with the same key, and for a lock on the API key that the row refers to.*)
(***************************************************************************)
EXTENDS Access, Sequences

CONSTANTS
  Events,     \* events, by the key their client gives them
  Contents,   \* what the clients send under a key
  Unknown,    \* contents whose subject is not registered
  Window,     \* length of a window of the rate limit
  MaxAge,     \* age of an event that is still taken
  MaxSkew     \* time by which an event may be ahead of the server

\* A correction is an event that names the event it corrects.
Item == [id: Events, content: Contents, of: Events \union {None}]

\* A batch of events, or one correction of an event by another.
LoadDefinition(l) ==
  /\ l.key \in Keys /\ l.items \in Seq(Item) /\ l.items # <<>>
  /\ (\E i \in DOMAIN l.items : l.items[i].of # None) => Len(l.items) = 1

Loads(s) == {s.loads[i] : i \in DOMAIN s.loads}

ASSUME IngestionAssumption ==
  /\ None \notin Events \union Item \union Int
  /\ Unknown \subseteq Contents
  /\ Window \in Nat \ {0} /\ MaxAge \in Nat /\ MaxSkew \in Nat
  /\ \A s \in Settings :
       /\ s.limit \in Nat \ {0} /\ s.until \in 0..Horizon
       /\ s.stored \in [Events -> Item \union {None}]
       /\ \A e \in Events : s.stored[e] # None =>
            /\ s.stored[e].id = e
            /\ \A f \in Events \ {e} : s.stored[f] # None /\ s.stored[e].of # None =>
                                       s.stored[e].of # s.stored[f].of
       /\ s.redacted \subseteq Events
       /\ s.occurred \in [Contents -> Int \union {None}]
       /\ \A l \in Loads(s) : LoadDefinition(l)

Windows == 0..(Horizon \div Window)

VARIABLES
  event,   \* the committed events
  call,    \* the calls that are at work
  window,  \* requests counted in each window of a key, 0 when there is no row
  served   \* requests of a key that passed the limit in each window: history

vars == <<accessVars, event, call, window, served>>

-----------------------------------------------------------------------------
(* State *)

\* answers are those given so far, at is the last clock value read, wrote and locks the
\* rows inserted and locked by the open transaction.
Answers == {"accepted", "duplicate", "idempotency_conflict", "rejected", "not_found",
            "properties_redacted", "already_corrected"}

Call ==
  [load: UNION {Loads(s) : s \in Settings}, at: Nat, answers: Seq(Answers),
   wrote: SUBSET Item, locks: SUBSET Events,
   phase: {"prune", "count", "find", "activate", "validate", "item", "lock", "insert", "commit"}]

ASSUME NoCallAssumption == None \notin Call

IngestionTypeOK ==
  /\ AccessTypeOK
  /\ event \in [Events -> Item \union {None}]
  /\ call \in [Calls -> Call \union {None}]
  /\ window \in [Keys -> [Windows -> Nat]]
  /\ served \in [Keys -> [Windows -> Nat]]

Init ==
  /\ AccessInit
  /\ event = setting.stored
  /\ call = [c \in Calls |-> None]
  /\ window = [k \in Keys |-> [w \in Windows |-> 0]]
  /\ served = window

Active == {c \in Calls : call[c] # None}

Stored == {event[e] : e \in Events} \ {None}

\* The item a call is at.
At(c) == call[c].load.items[Len(call[c].answers) + 1]

KeyOf(c) == call[c].load.key

\* What a statement of the call finds under an event key: READ COMMITTED, and its own rows.
Found(c, id) ==
  IF event[id] # None THEN {event[id]} ELSE {row \in call[c].wrote : row.id = id}

\* Uncommitted rows of other calls.
Uncommitted(c) == UNION {call[o].wrote : o \in Active \ {c}}

\* Payload hashes agree when canonical forms do, to which the corrected event belongs.
SamePayload(row, item) == row = item

\* Whether the client sent the same under the key before.
Verdict(row, item) == IF SamePayload(row, item) THEN "duplicate" ELSE "idempotency_conflict"

-----------------------------------------------------------------------------
(* The rate limit of the credential *)

\* The middleware reads its clock.
Send(c, load) ==
  /\ c \notin Active
  /\ call' = [call EXCEPT
       ![c] = [load |-> load, at |-> now, answers |-> <<>>, wrote |-> {}, locks |-> {},
               phase |-> "prune"]]
  /\ UNCHANGED <<accessVars, event, window, served>>

Goto(c, phase) == call' = [call EXCEPT ![c].phase = phase]

End(c) == call' = [call EXCEPT ![c] = None]

\* Mutant: a window expires when it ends.
ExpiredEarly(w, at) == (w + 1) * Window <= at

\* A window is kept for as long again as it lasts.
Expired(w, at) == (w + 2) * Window <= at

\* Windows of the key that have expired are deleted, and now and then those of all keys.
Prune(c) ==
  /\ call[c].phase = "prune"
  /\ \E swept \in {{KeyOf(c)}, Keys} :
       window' = [k \in Keys |-> [w \in Windows |->
                    IF k \in swept /\ Expired(w, call[c].at) THEN 0 ELSE window[k][w]]]
  /\ Goto(c, "count")
  /\ UNCHANGED <<accessVars, event, served>>

\* Mutant: above the limit the request is kept back.
CountOrWait(c) ==
  LET k == KeyOf(c)
      w == call[c].at \div Window
  IN /\ call[c].phase = "count"
     /\ window[k][w] < setting.limit
     /\ window' = [window EXCEPT ![k][w] = @ + 1]
     /\ served' = [served EXCEPT ![k][w] = @ + 1]
     /\ Goto(c, "find")
     /\ UNCHANGED <<accessVars, event>>

\* One statement inserts the row or adds to it while it is below the limit.
Count(c) ==
  LET k == KeyOf(c)
      w == call[c].at \div Window
  IN /\ call[c].phase = "count"
     /\ \/ /\ window[k][w] < setting.limit
           /\ window' = [window EXCEPT ![k][w] = @ + 1]
           /\ served' = [served EXCEPT ![k][w] = @ + 1]
           /\ Goto(c, "find")
        \/ /\ window[k][w] >= setting.limit
           /\ End(c)
           /\ UNCHANGED <<window, served>>
     /\ UNCHANGED <<accessVars, event>>

-----------------------------------------------------------------------------
(* Authentication *)

\* The key is looked up and the clock is read.
Find(c) ==
  /\ call[c].phase = "find"
  /\ \/ /\ Live(KeyOf(c), now)
        /\ call' = [call EXCEPT ![c].at = now, ![c].phase = "activate"]
     \/ ~Live(KeyOf(c), now) /\ End(c)
  /\ UNCHANGED <<accessVars, event, window, served>>

\* UPDATE ... WHERE the key is not revoked and not expired; it waits for the row.
Activate(c) ==
  /\ call[c].phase = "activate"
  /\ HeldBy(KeyOf(c)) = {}
  /\ \/ Live(KeyOf(c), call[c].at) /\ Goto(c, "validate")
     \/ ~Live(KeyOf(c), call[c].at) /\ End(c)
  /\ UNCHANGED <<accessVars, event, window, served>>

-----------------------------------------------------------------------------
(* Validation *)

\* The time of an event, which a correction that only reverses another does not have.
Occurred(item) == setting.occurred[item.content]

TooEarly(item, at) == Occurred(item) # None /\ Occurred(item) > at + MaxSkew

\* A replacement may be of any age.
TooLate(item, at) == item.of = None /\ Occurred(item) # None /\ Occurred(item) < at - MaxAge

\* The clock is read for all items.  A correction that is refused gets no further; an event
\* is rejected, and the others of its batch are not.
Validate(c) ==
  LET first == call[c].load.items[1]
      refused == first.of # None /\ (first.id = first.of \/ TooEarly(first, now))
  IN /\ call[c].phase = "validate"
     /\ \/ refused /\ End(c)
        \/ ~refused /\ call' = [call EXCEPT ![c].at = now, ![c].phase = "item"]
     /\ UNCHANGED <<accessVars, event, window, served>>

-----------------------------------------------------------------------------
(* The transaction *)

\* The next item, or the commit after the last one.
Answered(c) ==
  IF Len(call[c].answers) + 1 = Len(call[c].load.items) THEN "commit" ELSE "item"

Answer(c, answer) ==
  call' = [call EXCEPT ![c].answers = Append(@, answer), ![c].phase = Answered(c)]

\* An event that is valid is looked for, and then its subject.
Look(c) ==
  LET item == At(c)
      invalid == TooEarly(item, call[c].at) \/ TooLate(item, call[c].at)
      found == Found(c, item.id)
  IN /\ call[c].phase = "item" /\ item.of = None
     /\ \/ invalid /\ Answer(c, "rejected")
        \/ ~invalid /\ \E row \in found : Answer(c, Verdict(row, item))
        \/ ~invalid /\ found = {} /\ item.content \in Unknown /\ Answer(c, "rejected")
        \/ ~invalid /\ found = {} /\ item.content \notin Unknown /\ Goto(c, "insert")
     /\ UNCHANGED <<accessVars, event, window, served>>

\* A correction that is stored already is answered before anything is locked.
LookUpCorrection(c) ==
  /\ call[c].phase = "item" /\ At(c).of # None
  /\ \/ \E row \in Found(c, At(c).id) : Answer(c, Verdict(row, At(c)))
     \/ Found(c, At(c).id) = {} /\ Goto(c, "lock")
  /\ UNCHANGED <<accessVars, event, window, served>>

Corrected(item) == \E e \in Events : event[e] # None /\ event[e].of = item.of

\* The corrected event is locked, and what it allows is looked at.
LockCorrected(c) ==
  LET item == At(c)
      refusal == CASE event[item.of] = None -> "not_found"
                   [] item.of \in setting.redacted -> "properties_redacted"
                   [] Corrected(item) -> "already_corrected"
                   [] item.content \in Unknown -> "rejected"
                   [] OTHER -> None
  IN /\ call[c].phase = "lock"
     /\ \A o \in Active \ {c} : item.of \notin call[o].locks
     /\ \/ refusal # None /\ Answer(c, refusal)
        \/ refusal = None
           /\ call' = [call EXCEPT ![c].locks = {item.of}, ![c].phase = "insert"]
     /\ UNCHANGED <<accessVars, event, window, served>>

\* Rows that the unique keys of the events do not allow beside the item.
Clashes(item, rows) ==
  {row \in rows : row.id = item.id \/ (item.of # None /\ row.of = item.of)}

Store(c) ==
  /\ call' = [call EXCEPT ![c].wrote = @ \union {At(c)},
                          ![c].answers = Append(@, "accepted"),
                          ![c].phase = Answered(c)]
  /\ referring' = [referring EXCEPT ![KeyOf(c)] = @ \union {c}]

\* Mutant: the row is written whatever is there.
InsertOver(c) ==
  /\ call[c].phase = "insert"
  /\ HeldBy(KeyOf(c)) = {}
  /\ Store(c)
  /\ UNCHANGED <<now, setting, role, key, request, event, window, served>>

\* INSERT ... ON CONFLICT DO NOTHING, and the look at the row it met.
Insert(c) ==
  LET item == At(c)
  IN /\ call[c].phase = "insert"
     /\ Clashes(item, Uncommitted(c)) = {}
     /\ \/ /\ Clashes(item, Stored) = {}
           /\ HeldBy(KeyOf(c)) = {}
           /\ Store(c)
        \/ /\ \E row \in Stored : row.id = item.id /\ Answer(c, Verdict(row, item))
           /\ UNCHANGED referring
        \/ /\ Clashes(item, Stored) # {} /\ \A row \in Stored : row.id # item.id
           /\ Answer(c, "already_corrected")
           /\ UNCHANGED referring
     /\ UNCHANGED <<now, setting, role, key, request, event, window, served>>

Release(c) == referring' = [k \in Keys |-> referring[k] \ {c}]

\* The answer may never reach the client, who then sends the batch again.
Commit(c) ==
  /\ call[c].phase = "commit"
  /\ event' = [e \in Events |-> IF \E row \in call[c].wrote : row.id = e
                                THEN CHOOSE row \in call[c].wrote : row.id = e
                                ELSE event[e]]
  /\ End(c) /\ Release(c)
  /\ UNCHANGED <<now, setting, role, key, request, window, served>>

\* A deadlock, a lost connection or a process that stops.
Lose(c) ==
  /\ End(c) /\ Release(c)
  /\ UNCHANGED <<now, setting, role, key, request, event, window, served>>

\* No clock value is used after MaxLag.
Tick ==
  /\ now < setting.until /\ now' = now + 1
  /\ \A r \in Open : now < request[r].at + MaxLag
  /\ \A c \in Active :
       call[c].phase \in {"prune", "count", "activate"} => now < call[c].at + MaxLag
  /\ UNCHANGED <<setting, role, key, request, referring, event, call, window, served>>

Serve(c) ==
  /\ c \in Active
  /\ \/ Prune(c) \/ Count(c) \/ Find(c) \/ Activate(c) \/ Validate(c) \/ Look(c)
     \/ LookUpCorrection(c) \/ LockCorrected(c) \/ Insert(c) \/ Commit(c)

Manage == AccessNext /\ UNCHANGED <<event, call, window, served>>

Next ==
  \/ Manage \/ Tick
  \/ \E c \in Calls : \E load \in Loads(setting) : Send(c, load)
  \/ \E c \in Calls : Serve(c)
  \/ \E c \in Active : Lose(c)

-----------------------------------------------------------------------------
(* Fairness *)

Waits(c, o) ==
  \/ call[c].phase = "insert" /\ Clashes(At(c), call[o].wrote) # {}
  \/ call[c].phase = "lock" /\ At(c).of \in call[o].locks

\* Calls that wait for rows of each other: the database ends one of them.
Entangled(c) == \E S \in SUBSET Active : /\ c \in S
                                         /\ \A q \in S : \E o \in S \ {q} : Waits(q, o)

\* A statement that waits gets the row when its turn comes.
Fairness ==
  /\ \A r \in Requests : SF_vars(Advance(r) /\ UNCHANGED <<event, call, window, served>>)
  /\ \A c \in Calls : SF_vars(Serve(c))
  /\ WF_vars(\E r \in Open : /\ Deadlocked(r) /\ Abort(r)
                             /\ UNCHANGED <<event, call, window, served>>)
  /\ WF_vars(\E c \in Active : Entangled(c) /\ Lose(c))

Spec == Init /\ [][Next]_vars

FairSpec == Spec /\ Fairness

-----------------------------------------------------------------------------
(* Properties *)

\* No more requests pass in a window of a key than the limit, whatever windows are deleted
\* beside it, until it has been over for as long as it lasted.  After that the code lets a
\* request that read its clock in the window, and was held up since, count from 1 again.
RateIsLimited ==
  \A k \in Keys, w \in Windows : now < (w + 2) * Window => served[k][w] <= setting.limit

\* A key is revoked or replaced between batches and never in the middle of one: at that
\* moment no call has uncommitted events that it has written with the key.
RevocationsWaitForBatches ==
  [][\A k \in Keys : key[k] # None /\ key[k].end = None /\ key'[k].end # None =>
       \A c \in Active : KeyOf(c) = k => call[c].wrote = {}]_vars

\* What a call is told when it commits is true: an event is accepted once, with what this
\* call sent; a duplicate was stored with the same; and a conflict, with something else.
AnswersAreTrue ==
  [][\A c \in Active : call[c].phase = "commit" /\ call'[c] = None
                      /\ (call[c].wrote = {} \/ event' # event) =>
       \A i \in DOMAIN call[c].answers :
         LET item == call[c].load.items[i]
             answer == call[c].answers[i]
         IN /\ answer = "accepted" => event[item.id] = None /\ event'[item.id] = item
            /\ answer = "duplicate" => event'[item.id] = item
            /\ answer = "idempotency_conflict" => event'[item.id] \notin {None, item}
            /\ answer = "already_corrected" =>
                 \E e \in Events : event'[e] # None /\ event'[e].of = item.of]_vars

\* Every call and every request of the dashboard comes to an end, although batches wait for
\* each other's events, owners for each other's memberships and rotations for batches.
EveryCallEnds ==
  /\ \A c \in Calls : c \in Active ~> c \notin Active
  /\ \A r \in Requests : r \in Open ~> r \notin Open
=============================================================================
