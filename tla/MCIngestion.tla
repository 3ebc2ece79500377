---------------------------- MODULE MCIngestion ----------------------------
(* Ingestion with three users, three keys, two requests and two calls. *)
EXTENDS Ingestion
CONSTANTS u1, u2, u3, k1, k2, k3, e1, e2, e3

Nobody == [u \in Users |-> None]
TwoOwners == [u \in Users |-> IF u = u3 THEN "admin" ELSE "owner"]
OwnerAndAdmin == [u \in Users |-> IF u = u1 THEN "owner" ELSE IF u = u2 THEN "admin" ELSE None]

NoKeys == [k \in Keys |-> None]
OneKey(expires) == [NoKeys EXCEPT ![k1] = [expires |-> expires, end |-> None, from |-> None]]

Member(op, actor, user, as) ==
  [op |-> op, actor |-> actor, user |-> user, as |-> as, key |-> None, expires |-> None]
OfKey(op, actor, k) ==
  [op |-> op, actor |-> actor, user |-> None, as |-> None, key |-> k, expires |-> None]

Sent(id, content) == [id |-> id, content |-> content, of |-> None]
Correction(id, content, of) == [id |-> id, content |-> content, of |-> of]
By(k, items) == [key |-> k, items |-> items]

NoEvents == [e \in Events |-> None]

Idle == [asks |-> {}, role |-> TwoOwners, key |-> OneKey(None), loads |-> <<>>, limit |-> 3,
         stored |-> NoEvents, redacted |-> {}, until |-> 0,
         occurred |-> [x \in Contents |-> IF x = "reversal" THEN None ELSE 0]]

MCSettings ==
  { \* Owners remove and demote themselves and each other.
    [Idle EXCEPT !.asks = {Member("remove", u1, u1, None), Member("update", u2, u2, "admin"),
                           Member("remove", u2, u1, None), Member("update", u1, u2, "owner"),
                           Member("remove", u3, u2, None)}],
    \* An organization begins, and grows while an admin loses that role.
    [Idle EXCEPT !.role = Nobody, !.key = NoKeys,
                 !.asks = {Member("add", u1, u2, "admin"), Member("add", u2, u3, "support"),
                           Member("update", u1, u2, "analyst"), Member("update", u2, u3, "admin"),
                           Member("remove", u2, u3, None), OfKey("create", u2, None)}],
    \* A key is rotated twice and revoked at once, until it expires.
    [Idle EXCEPT !.role = OwnerAndAdmin, !.key = OneKey(1), !.until = 1,
                 !.asks = {OfKey("rotate", u1, k1), OfKey("rotate", u2, k1),
                           OfKey("revoke", u2, k1), OfKey("list", u2, None),
                           Member("update", u1, u2, "support")}],
    \* A key is rotated while it is used, and its replacement is revoked.
    [Idle EXCEPT !.role = OwnerAndAdmin, !.limit = 1,
                 !.asks = {OfKey("rotate", u2, k1), OfKey("revoke", u1, k2)},
                 !.loads = <<By(k1, <<Sent(e1, "x")>>)>>],
    \* A credential on both sides of the ends of windows, until it expires, and held up for two.
    [Idle EXCEPT !.key = OneKey(2), !.until = 3, !.limit = 2, !.loads = <<By(k1, <<Sent(e1, "x")>>)>>],
    \* Batches in opposite orders, with an event in common that is sent in two ways.
    [Idle EXCEPT !.loads = <<By(k1, <<Sent(e1, "x"), Sent(e2, "x")>>),
                             By(k1, <<Sent(e2, "x"), Sent(e1, "y"), Sent(e3, "z")>>)>>],
    \* A replacement of an event, sent twice, its reversal, and a batch with the same key.
    [Idle EXCEPT !.stored = [NoEvents EXCEPT ![e1] = Sent(e1, "x")],
                 !.loads = <<By(k1, <<Correction(e2, "y", e1)>>),
                             By(k1, <<Correction(e3, "reversal", e1)>>),
                             By(k1, <<Sent(e2, "y")>>),
                             By(k1, <<Correction(e1, "x", e3)>>)>>],
    [Idle EXCEPT !.stored = [NoEvents EXCEPT ![e1] = Sent(e1, "x")], !.redacted = {e1},
                 !.limit = 2,
                 !.loads = <<By(k1, <<Correction(e2, "y", e1)>>),
                             By(k1, <<Correction(e3, "z", e2)>>)>>],
    \* A replacement that is too early until the clock ticks, and a correction of itself.
    [Idle EXCEPT !.stored = [NoEvents EXCEPT ![e1] = Sent(e1, "x")], !.until = 1, !.limit = 1,
                 !.occurred["y"] = 1,
                 !.loads = <<By(k1, <<Correction(e2, "y", e1)>>),
                             By(k1, <<Correction(e1, "x", e1)>>)>>] }
=============================================================================
