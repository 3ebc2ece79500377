-------------------------- MODULE QuotaReservation --------------------------
(***************************************************************************)
(* One hard entitlement: its balance row, the reservations and grants that *)
(* refer to it, and the transactions of the API server and of the expiry   *)
(* job that work on them at READ COMMITTED.                                *)
(*                                                                         *)
(* A transaction is cut where it can wait for a row lock.  What it writes  *)
(* is seen by nobody before it commits and every writer holds the row of   *)
(* the entitlement, so its writes are one step, taken when its last lock   *)
(* is granted.  A value it read earlier (its clock, the sum of the grants  *)
(* in the snapshot of its locking statement) may be stale by then.  The    *)
(* locking statement of commit and release joins the two rows and locks    *)
(* them in the order of its tables: the reservation, then the entitlement. *)
(***************************************************************************)
EXTENDS Integers, FiniteSetsExt

CONSTANTS
  Clients,      \* API requests in flight
  Workers,      \* processes that run the expiry job
  Keys,         \* idempotency keys, one for each reservation
  Requests,     \* what may be asked: a key, a quantity and an expiry time
  Actuals,      \* quantities a commit may report
  Grants,       \* grants an administrator may add
  Terms,        \* the quantity of each grant and the time for which it counts; one
                \* without an expiry counts until the period ends
  PeriodEnd,    \* end of the entitlement's period, which starts at 0
  NoTxn,        \* a session without a transaction
  Horizon,      \* bound: the last moment of the clock
  MaxAborts     \* bound: transactions lost for another reason than a deadlock

Sessions == Clients \union Workers

ASSUME ConstantsAssumption ==
  /\ Clients \intersect Workers = {}
  /\ IsFiniteSet(Keys) /\ IsFiniteSet(Grants)
  /\ Requests \subseteq [key: Keys, quantity: Nat \ {0}, expiresAt: Nat]
  /\ Actuals \subseteq Nat \ {0}
  /\ PeriodEnd \in Nat \ {0} /\ Horizon \in Nat /\ MaxAborts \in Nat
  /\ Terms \in [Grants -> [quantity: Nat \ {0}, effectiveAt: Nat, expiresAt: 0..PeriodEnd]]

VARIABLES
  now,           \* the clock
  entitlement,   \* granted_quantity, committed_quantity and reserved_quantity
  reservation,   \* the quota_reservations of the entitlement, by idempotency key
  granted,       \* its quota_grants
  event,         \* the quantity of each reservation's usage event, 0 if it has none
  job,           \* the expiry job of each reservation
  txn,           \* the transaction each session is in
  aborts         \* what MaxAborts counts

vars == <<now, entitlement, reservation, granted, event, job, txn, aborts>>
tables == <<entitlement, reservation, granted, event, job>>

-----------------------------------------------------------------------------
(* State *)

Entitlement == [granted: Nat, committed: Nat, reserved: Nat]

\* The shape the table's CHECK constraints ask for: a quantity is committed exactly
\* when the status says so.
Reservation ==
  {r \in [status: {"absent", "pending", "committed", "released", "expired"},
          requested: Nat, committed: Nat, expiresAt: Nat] :
     /\ r.status = "committed" <=> r.committed > 0
     /\ r.committed <= r.requested}

\* at is the clock value the transaction works with, seen the sum of the active
\* grants in the snapshot of reserve's locking statement.  step says what it waits
\* for: "started" and "locking" hold nothing, "entitlement" holds the reservation's
\* row, "reservation" holds the entitlement's.
Transaction ==
  [op: {"reserve", "commit", "release", "expire"}, key: Keys, quantity: Nat,
   expiresAt: Nat, at: Nat, seen: Nat,
   step: {"started", "locking", "entitlement", "reservation"}]

TypeOK ==
  /\ now \in Nat /\ aborts \in Nat
  /\ entitlement \in Entitlement
  /\ reservation \in [Keys -> Reservation]
  /\ granted \subseteq Grants
  /\ event \in [Keys -> Nat]
  /\ job \in [Keys -> {"none", "queued", "done"}]
  /\ txn \in [Sessions -> Transaction \union {NoTxn}]

Init ==
  /\ now = 0 /\ aborts = 0
  /\ entitlement = [granted |-> 0, committed |-> 0, reserved |-> 0]
  /\ reservation = [k \in Keys |-> [status |-> "absent", requested |-> 0,
                                    committed |-> 0, expiresAt |-> 0]]
  /\ granted = {}
  /\ event = [k \in Keys |-> 0]
  /\ job = [k \in Keys |-> "none"]
  /\ txn = [s \in Sessions |-> NoTxn]

-----------------------------------------------------------------------------
(* Row locks, checks and the grants *)

HoldsReservation(s, k) ==
  txn[s] # NoTxn /\ txn[s].step = "entitlement" /\ txn[s].key = k

HoldsEntitlement(s) == txn[s] # NoTxn /\ txn[s].step = "reservation"

ReservationFree(k) == \A s \in Sessions : ~HoldsReservation(s, k)

EntitlementFree == \A s \in Sessions : ~HoldsEntitlement(s)

\* The CHECK constraints of a hard entitlement.
ChecksHold(e) ==
  /\ e.granted >= 0 /\ e.committed >= 0 /\ e.reserved >= 0
  /\ e.committed + e.reserved <= e.granted

\* Mutant: the expiry of a grant is forgotten.
ActiveGrantedForEver(grants, at) ==
  MapThenSumSet(LAMBDA g : Terms[g].quantity, {g \in grants : Terms[g].effectiveAt <= at})

\* activeGrantQuantity over a set of committed grants.
ActiveGranted(grants, at) ==
  MapThenSumSet(LAMBDA g : Terms[g].quantity,
    {g \in grants : Terms[g].effectiveAt <= at /\ at < Terms[g].expiresAt})

Finish(s) == txn' = [txn EXCEPT ![s] = NoTxn]

Moves(s, step) == txn' = [txn EXCEPT ![s].step = step]

WritesNothing == UNCHANGED <<entitlement, reservation, event, job>>

\* The writes of a transaction, and their rollback when a check rejects them.
Write(k, e, r, ev, j) ==
  IF ChecksHold(e)
  THEN /\ entitlement' = e
       /\ reservation' = [reservation EXCEPT ![k] = r]
       /\ event' = [event EXCEPT ![k] = ev]
       /\ job' = [job EXCEPT ![k] = j]
  ELSE WritesNothing

\* A pending reservation gives its quantity back.
Returned(r) == [entitlement EXCEPT !.reserved = @ - r.requested]

-----------------------------------------------------------------------------
(* reserve *)

Begin(s, op, key, quantity, expiresAt) ==
  /\ txn[s] = NoTxn
  /\ txn' = [txn EXCEPT ![s] =
       [op |-> op, key |-> key, quantity |-> quantity, expiresAt |-> expiresAt,
        at |-> now, seen |-> 0, step |-> "started"]]
  /\ UNCHANGED <<now, tables, aborts>>

\* A client may repeat a request, also one whose answer it has not seen.
StartReserve(c) ==
  \E request \in Requests :
    Begin(c, "reserve", request.key, request.quantity, request.expiresAt)

\* The locking statement takes its snapshot and then waits for the row.  Re-reading
\* the row it waited for refreshes the balance, and not the subquery on the grants.
\* Outside the period it finds no row: not_found.
LockEntitlement(c) ==
  LET t == txn[c] IN
  /\ t # NoTxn /\ t.op = "reserve" /\ t.step = "started"
  /\ IF t.at < PeriodEnd
     THEN txn' = [txn EXCEPT ![c].seen = ActiveGranted(granted, t.at),
                             ![c].step = "locking"]
     ELSE Finish(c)
  /\ UNCHANGED <<now, tables, aborts>>

HasCapacity(t) ==
  t.seen >= entitlement.committed + entitlement.reserved + t.quantity

\* expiresAt lies in what is left of the period.
InPeriod(t) == t.at < t.expiresAt /\ t.expiresAt <= PeriodEnd

\* Mutant: the insertion of the expiry job is left to a later step that is lost.
ReserveNewWithoutJob(c) ==
  LET t == txn[c] IN
  /\ t # NoTxn /\ t.step = "locking" /\ EntitlementFree
  /\ reservation[t.key].status = "absent"
  /\ IF InPeriod(t) /\ HasCapacity(t)
     THEN Write(t.key,
                [entitlement EXCEPT !.granted = t.seen, !.reserved = @ + t.quantity],
                [status |-> "pending", requested |-> t.quantity, committed |-> 0,
                 expiresAt |-> t.expiresAt],
                0, job[t.key])
     ELSE WritesNothing
  /\ Finish(c)
  /\ UNCHANGED <<now, granted, aborts>>

\* A new key: the reservation, the balance and the expiry job, unless the answer is
\* conflict (the expiry time) or over_limit.
ReserveNew(c) ==
  LET t == txn[c] IN
  /\ t # NoTxn /\ t.step = "locking" /\ EntitlementFree
  /\ reservation[t.key].status = "absent"
  /\ IF InPeriod(t) /\ HasCapacity(t)
     THEN Write(t.key,
                [entitlement EXCEPT !.granted = t.seen, !.reserved = @ + t.quantity],
                [status |-> "pending", requested |-> t.quantity, committed |-> 0,
                 expiresAt |-> t.expiresAt],
                0, "queued")
     ELSE WritesNothing
  /\ Finish(c)
  /\ UNCHANGED <<now, granted, aborts>>

SameRequest(t) ==
  /\ reservation[t.key].requested = t.quantity
  /\ reservation[t.key].expiresAt = t.expiresAt

\* What reserve writes for a repeated request whose reservation is due.
ExpiredBalance(t) ==
  [Returned(reservation[t.key]) EXCEPT !.granted = t.seen]

\* A known key is idempotency_conflict or ok and changes nothing, but for a pending
\* reservation that is due: its balance is written first, if the checks allow it,
\* and its row is locked afterwards.
ReserveAgain(c) ==
  LET t == txn[c]  r == reservation[t.key] IN
  /\ t # NoTxn /\ t.step = "locking" /\ EntitlementFree
  /\ r.status # "absent"
  /\ IF SameRequest(t) /\ r.status = "pending" /\ r.expiresAt <= t.at
          /\ ChecksHold(ExpiredBalance(t))
     THEN Moves(c, "reservation")
     ELSE Finish(c)
  /\ UNCHANGED <<now, tables, aborts>>

\* UPDATE quota_reservations ... WHERE id = ...: the status is not looked at again.
ExpireRepeated(c) ==
  LET t == txn[c] IN
  /\ t # NoTxn /\ t.step = "reservation" /\ ReservationFree(t.key)
  /\ entitlement' = ExpiredBalance(t)
  /\ reservation' = [reservation EXCEPT ![t.key].status = "expired"]
  /\ Finish(c)
  /\ UNCHANGED <<now, granted, event, job, aborts>>

-----------------------------------------------------------------------------
(* commit, release and the expiry job *)

\* A client knows the reservations that exist.
StartSettle(c) ==
  \E k \in Keys :
    /\ reservation[k].status # "absent"
    /\ \/ \E quantity \in Actuals : Begin(c, "commit", k, quantity, 0)
       \/ Begin(c, "release", k, 0, 0)

\* The job is claimed when it is due, by the clock its handler then reads.
StartExpire(w, k) ==
  /\ job[k] = "queued" /\ reservation[k].expiresAt <= now
  /\ Begin(w, "expire", k, 0, 0)

\* The reservation's row comes first.  The expiry job returns here, terminal or not
\* due, without the entitlement; a job that returns terminal is completed.
LockReservation(s) ==
  LET t == txn[s]  r == reservation[t.key] IN
  /\ t # NoTxn /\ t.op # "reserve" /\ t.step = "started" /\ ReservationFree(t.key)
  /\ IF t.op = "expire" /\ (r.status # "pending" \/ r.expiresAt > t.at)
     THEN /\ Finish(s)
          /\ job' = IF r.status # "pending" THEN [job EXCEPT ![t.key] = "done"] ELSE job
     ELSE /\ Moves(s, "entitlement")
          /\ UNCHANGED job
  /\ UNCHANGED <<now, entitlement, reservation, granted, event, aborts>>

Ready(s, op) ==
  /\ txn[s] # NoTxn /\ txn[s].op = op /\ txn[s].step = "entitlement"
  /\ EntitlementFree

\* Mutant: what is left of the reserved quantity is not given back.
CommittedBalanceKeepsRest(t, r) ==
  [entitlement EXCEPT !.reserved = @ - t.quantity, !.committed = @ + t.quantity]

CommittedBalance(t, r) == [Returned(r) EXCEPT !.committed = @ + t.quantity]

\* Mutant: the event is inserted before the expiry time is looked at.
CommitMetersFirst(c) ==
  LET t == txn[c]  r == reservation[t.key] IN
  /\ Ready(c, "commit")
  /\ \/ /\ r.status = "pending" /\ r.expiresAt <= t.at
        /\ Write(t.key, Returned(r), [r EXCEPT !.status = "expired"],
                 t.quantity, job[t.key])
     \/ /\ r.status = "pending" /\ t.at < r.expiresAt
        /\ t.quantity <= r.requested /\ event[t.key] = 0
        /\ Write(t.key, CommittedBalance(t, r),
                 [r EXCEPT !.status = "committed", !.committed = t.quantity],
                 t.quantity, job[t.key])
     \/ /\ r.status # "pending" \/ t.at < r.expiresAt
        /\ WritesNothing
  /\ Finish(c)
  /\ UNCHANGED <<now, granted, aborts>>

\* A due reservation expires instead.  A quantity above the reserved one, a time
\* outside the period or the accepted window, and a feature whose meter does not
\* take the event are a conflict, and so is any reservation already settled with
\* another outcome; none of them changes anything.
Commit(c) ==
  LET t == txn[c]  r == reservation[t.key] IN
  /\ Ready(c, "commit")
  /\ \/ /\ r.status = "pending" /\ r.expiresAt <= t.at
        /\ Write(t.key, Returned(r), [r EXCEPT !.status = "expired"],
                 event[t.key], job[t.key])
     \/ /\ r.status = "pending" /\ t.at < r.expiresAt
        /\ t.quantity <= r.requested /\ event[t.key] = 0
        /\ Write(t.key, CommittedBalance(t, r),
                 [r EXCEPT !.status = "committed", !.committed = t.quantity],
                 t.quantity, job[t.key])
     \/ /\ r.status # "pending" \/ t.at < r.expiresAt
        /\ WritesNothing
  /\ Finish(c)
  /\ UNCHANGED <<now, granted, aborts>>

\* Mutant: a committed reservation is released too.
ReleaseCommitted(c) ==
  LET t == txn[c]  r == reservation[t.key] IN
  /\ Ready(c, "release")
  /\ IF r.status \in {"pending", "committed"} /\ t.at < PeriodEnd
     THEN Write(t.key, Returned(r), [r EXCEPT !.status = "released"],
                event[t.key], job[t.key])
     ELSE WritesNothing
  /\ Finish(c)
  /\ UNCHANGED <<now, granted, aborts>>

\* The expiry time is not looked at.  After the period no balance can be read for
\* the answer: the request fails and its transaction is rolled back.
Release(c) ==
  LET t == txn[c]  r == reservation[t.key] IN
  /\ Ready(c, "release")
  /\ IF r.status = "pending" /\ t.at < PeriodEnd
     THEN Write(t.key, Returned(r), [r EXCEPT !.status = "released"],
                event[t.key], job[t.key])
     ELSE WritesNothing
  /\ Finish(c)
  /\ UNCHANGED <<now, granted, aborts>>

\* The job is completed after the transaction; when that is lost it runs again and
\* finds the reservation terminal.
Expire(w) ==
  LET t == txn[w]  r == reservation[t.key] IN
  /\ Ready(w, "expire")
  /\ IF r.status = "pending"
     THEN \E j \in {"queued", "done"} :
            Write(t.key, Returned(r), [r EXCEPT !.status = "expired"], event[t.key], j)
     ELSE WritesNothing
  /\ Finish(w)
  /\ UNCHANGED <<now, granted, aborts>>

-----------------------------------------------------------------------------
(* Grants, time and lost transactions *)

\* addGrant waits for the entitlement, inserts the grant and sums the active ones
\* by the clock it reads then.  It is rolled back when a check rejects the sum, or
\* when the period is over and no balance can be read for the answer.
AddGrant(g) ==
  /\ g \notin granted /\ EntitlementFree
  /\ Terms[g].effectiveAt < PeriodEnd /\ now < PeriodEnd
  /\ LET e == [entitlement EXCEPT !.granted = ActiveGranted(granted \union {g}, now)] IN
       /\ ChecksHold(e)
       /\ entitlement' = e
  /\ granted' = granted \union {g}
  /\ UNCHANGED <<now, reservation, event, job, txn, aborts>>

Tick ==
  /\ now < Horizon
  /\ now' = now + 1
  /\ UNCHANGED <<tables, txn, aborts>>

\* s holds the reservation and waits for the entitlement, o the other way round.
Deadlocked(s, o) == HoldsEntitlement(o) /\ HoldsReservation(s, txn[o].key)

\* PostgreSQL ends one transaction of a cycle.
BreakDeadlock ==
  /\ \E s, o \in Sessions : Deadlocked(s, o) /\ \E victim \in {s, o} : Finish(victim)
  /\ UNCHANGED <<now, tables, aborts>>

\* The connection or the process is lost before the commit.
Abort(s) ==
  /\ txn[s] # NoTxn /\ aborts < MaxAborts
  /\ aborts' = aborts + 1
  /\ Finish(s)
  /\ UNCHANGED <<now, tables>>

-----------------------------------------------------------------------------
(* Specification *)

Proceed(s) ==
  \/ LockEntitlement(s) \/ ReserveNew(s) \/ ReserveAgain(s) \/ ExpireRepeated(s)
  \/ LockReservation(s) \/ Commit(s) \/ Release(s) \/ Expire(s)

Next ==
  \/ \E c \in Clients : StartReserve(c) \/ StartSettle(c)
  \/ \E w \in Workers, k \in Keys : StartExpire(w, k)
  \/ \E s \in Sessions : Proceed(s) \/ Abort(s)
  \/ \E g \in Grants : AddGrant(g)
  \/ BreakDeadlock
  \/ Tick

Spec == Init /\ [][Next]_vars

\* Row locks are queued, so a transaction that waits for one is served although
\* others keep asking for it; a deadlock is detected; a due job is claimed.
Fairness ==
  /\ WF_vars(Tick) /\ WF_vars(BreakDeadlock)
  /\ \A s \in Sessions : SF_vars(Proceed(s))
  /\ \A w \in Workers, k \in Keys : SF_vars(StartExpire(w, k))

FairSpec == Spec /\ Fairness

-----------------------------------------------------------------------------
(* Properties *)

\* The two counters of the balance row, which six handlers update by differences,
\* are what the reservations add up to: every reservation moved its quantity out of
\* the reserved one exactly once.
BalanceIsExact ==
  /\ entitlement.reserved =
       MapThenSumSet(LAMBDA k : reservation[k].requested,
                     {k \in Keys : reservation[k].status = "pending"})
  /\ entitlement.committed =
       MapThenSumSet(LAMBDA k : reservation[k].committed,
                     {k \in Keys : reservation[k].status = "committed"})

\* Committed quota is metered: a committed reservation has its usage event, of the
\* quantity it was charged, and no other reservation has one.
CommittedIsMetered ==
  \A k \in Keys : event[k] = IF reservation[k].status = "committed"
                             THEN reservation[k].committed ELSE 0

\* An outcome is final: of a commit, a release, the expiry job and a repeated request
\* that race for a reservation one settles it and the others change nothing, also the
\* one that writes its row without looking at the status again.
OutcomeIsFinal ==
  [][\A k \in Keys :
       reservation[k].status \in {"committed", "released", "expired"}
       => reservation'[k] = reservation[k]]_vars

Ledger == INSTANCE QuotaLedger

\* Locks, counters and stale reads implement the ledger: no reservation is accepted
\* beyond the grants, none expires early, and an outcome is final.
ImplementsLedger == Ledger!Spec

\* A reservation that is due is settled, although requests and the job that settle
\* it deadlock with each other and lose their transactions.
DueReservationsSettle == Ledger!FairSpec
=============================================================================
