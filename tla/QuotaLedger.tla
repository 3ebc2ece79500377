---------------------------- MODULE QuotaLedger ----------------------------
(***************************************************************************)
(* What a client of hard quota sees of one entitlement: reservations that  *)
(* draw on the grants, each settled once.  There is no balance row here    *)
(* and there are no transactions: the quota in use is what the             *)
(* reservations themselves add up to.                                      *)
(***************************************************************************)
EXTENDS Integers, FiniteSetsExt

CONSTANTS
  Keys,       \* idempotency keys, one for each reservation
  Requests,   \* what may be asked: a key, a quantity and an expiry time
  Grants,     \* the grants an administrator may add
  Terms       \* the quantity of each grant and the time for which it counts

VARIABLES now, reservation, granted

vars == <<now, reservation, granted>>

NoReservation == [status |-> "absent", requested |-> 0, committed |-> 0, expiresAt |-> 0]

Active(at) ==
  MapThenSumSet(LAMBDA g : Terms[g].quantity,
    {g \in granted : Terms[g].effectiveAt <= at /\ at < Terms[g].expiresAt})

\* What a reservation takes out of the grants.
Uses(r) ==
  CASE r.status = "pending" -> r.requested
    [] r.status = "committed" -> r.committed
    [] OTHER -> 0

InUse == MapThenSumSet(LAMBDA k : Uses(reservation[k]), Keys)

Init ==
  /\ now = 0
  /\ reservation = [k \in Keys |-> NoReservation]
  /\ granted = {}

\* The grants are those of some moment up to now: a request is answered by the
\* clock value it read when it arrived.
Reserve(k) ==
  /\ reservation[k].status = "absent"
  /\ \E request \in Requests, at \in 0..now :
       /\ request.key = k /\ at < request.expiresAt
       /\ InUse + request.quantity <= Active(at)
       /\ reservation' = [reservation EXCEPT ![k] =
            [status |-> "pending", requested |-> request.quantity, committed |-> 0,
             expiresAt |-> request.expiresAt]]
  /\ UNCHANGED <<now, granted>>

Commit(k) ==
  /\ reservation[k].status = "pending"
  /\ \E quantity \in 1..reservation[k].requested :
       reservation' = [reservation EXCEPT ![k].status = "committed",
                                          ![k].committed = quantity]
  /\ UNCHANGED <<now, granted>>

Release(k) ==
  /\ reservation[k].status = "pending"
  /\ reservation' = [reservation EXCEPT ![k].status = "released"]
  /\ UNCHANGED <<now, granted>>

Expire(k) ==
  /\ reservation[k].status = "pending" /\ reservation[k].expiresAt <= now
  /\ reservation' = [reservation EXCEPT ![k].status = "expired"]
  /\ UNCHANGED <<now, granted>>

Grant(g) ==
  /\ g \notin granted
  /\ granted' = granted \union {g}
  /\ UNCHANGED <<now, reservation>>

Tick ==
  /\ now' = now + 1
  /\ UNCHANGED <<reservation, granted>>

Next ==
  \/ \E k \in Keys : Reserve(k) \/ Commit(k) \/ Release(k) \/ Expire(k)
  \/ \E g \in Grants : Grant(g)
  \/ Tick

Spec == Init /\ [][Next]_vars

\* Quota is not held for ever: a reservation that is due is settled.
Due(k) == reservation[k].status = "pending" /\ reservation[k].expiresAt <= now

FairSpec ==
  Spec /\ \A k \in Keys : WF_vars(Due(k) /\ (Commit(k) \/ Release(k) \/ Expire(k)))
=============================================================================
