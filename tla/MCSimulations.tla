--------------------------- MODULE MCSimulations ---------------------------
(* Simulations with two plan versions, three versions of a meter, two      *)
(* customers and two requests at a time.                                   *)
EXTENDS Simulations
CONSTANTS p1, v1, v2, m1, w1, w2, w3, f1, f2, c1, c2, x1, s1, s2, i1, e1, e2, e3

MCRows == Plans \union Versions \union Meters \union MeterVersions \union Features
            \union Customers \union SubscriptionIds \union SimulationIds

\* A leap month in between: an anchor on its missing second day.
MCMonths == <<2, 1, 2, 2, 2>>

Component(f, entitled, price, parts) ==
  [feature |-> f, entitled |-> entitled, price |-> price, parts |-> parts]
FlatPrice(amount) == [model |-> "flat", amount |-> amount]
PerUnitPrice(rate) == [model |-> "per_unit", rate |-> rate]
OveragePrice(included, rate) == [model |-> "included_overage", included |-> included, rate |-> rate]
TieredPrice(tiers) == [model |-> "graduated", tiers |-> tiers]
Tier(bound, rate) == [upTo |-> bound, rate |-> rate]

Tiers == TieredPrice(<<Tier(1, 3), Tier(3, 2), Tier(None, 1)>>)

Version(components) == [plan |-> p1, from |-> 0, currency |-> "EUR", components |-> components]
Metered(from, to) == [meter |-> m1, from |-> from, to |-> to, type |-> "call"]
Term(v, start, end, anchor) ==
  [customer |-> c1, version |-> v, slot |-> "default", start |-> start, end |-> end,
   anchor |-> anchor]
Used(c, day, value) ==
  [customer |-> c, type |-> "call", day |-> day, value |-> value, kind |-> "event", of |-> None]

Idle ==
  [until |-> 0, asks |-> {}, existing |-> {m1, f1, f2, p1, v1, c1}, published |-> {v1},
   meterOf |-> [f \in Features |-> IF f = f1 THEN m1 ELSE None],
   version |-> [v \in Versions |->
     IF v = v1 THEN Version(<<Component(f1, TRUE, PerUnitPrice(1), 2), Component(f2, TRUE, FlatPrice(3), 2)>>)
     ELSE Version(<<Component(f1, FALSE, Tiers, 2)>>)],
   meterVersion |-> [w \in MeterVersions |->
     IF w = w1 THEN Metered(0, 2) ELSE IF w = w2 THEN Metered(1, 3) ELSE Metered(2, None)],
   sale |-> [s \in SubscriptionIds |-> IF s = s1 THEN Term(v1, 1, None, 1) ELSE Term(v1, 3, 4, 3)],
   simulation |-> [i \in SimulationIds |->
     [baseline |-> v1, candidate |-> v2, customers |-> {}, from |-> 0, to |-> 3]],
   usage |-> [e \in Events |-> Used(c1, 0, 1)],
   threshold |-> 20, sent |-> {}, redactable |-> {}]

On(op, row) == [op |-> op, on |-> row, of |-> None]
For(op, row, of) == [op |-> op, on |-> row, of |-> of]
ByHand(c, f, from, to) == [op |-> "configure", on |-> c, of |-> f, from |-> from, to |-> to]

Versioning ==
  { \* Three versions of a meter that overlap in part.
    [Idle EXCEPT !.existing = {m1, w1, w2, w3},
                 !.asks = {On("publish meter version", w1), On("publish meter version", w2),
                           On("publish meter version", w3), On("archive meter", m1)}],
    \* A catalog is built, and a version copied, while the plan is archived.
    [Idle EXCEPT !.existing = {}, !.published = {},
                 !.asks = {On("create meter", m1), On("create meter version", w1),
                           On("create feature", f1), On("create feature", f2)}],
    [Idle EXCEPT !.existing = {m1, f1, f2}, !.published = {},
                 !.asks = {On("create plan", p1), On("create version", v1),
                           On("publish version", v1), For("create version", v2, v1),
                           On("archive version", v1), On("archive plan", p1)}],
    \* The subject of one customer is the first subject of another.
    [Idle EXCEPT !.existing = {},
                 !.asks = {For("create customer", c1, {x1}), For("create customer", c2, {}),
                           For("attach subject", x1, c2), For("attach subject", c2, c1)}] }

Selling ==
  { \* An open subscription renews while it is canceled.
    [Idle EXCEPT !.until = 4,
                 !.asks = {On("subscribe", s1), For("cancel", s1, 3)}],
    \* A version is archived while it is sold and a subscription of it canceled.
    [Idle EXCEPT !.asks = {On("subscribe", s1), For("cancel", s1, 2), On("archive version", v1),
                           On("publish version", v1), On("archive plan", p1)}],
    \* Entitlements by hand: one of a whole period, others that overlap.
    [Idle EXCEPT !.until = 2,
                 !.asks = {On("subscribe", s1), ByHand(c1, f1, 2, 4), ByHand(c1, f2, 3, 5)}],
    [Idle EXCEPT !.until = 2,
                 !.asks = {On("subscribe", s1), ByHand(c1, f1, 1, 2), For("cancel", s1, 2)}],
    \* A term that a cancellation extends, and what else is sold in the slot.
    [Idle EXCEPT !.until = 3,
                 !.sale = [@ EXCEPT ![s1] = Term(v1, 1, 3, 0)],
                 !.asks = {On("subscribe", s1), On("subscribe", s2), For("cancel", s1, 5),
                           For("cancel", s1, 2)}] }

Simulating ==
  { \* Two customers, an event that may arrive late, and its replacement.
    [Idle EXCEPT !.until = 1, !.existing = @ \union {c2, v2, w1}, !.published = {v1, w1},
                 !.usage = [e \in Events |->
                   IF e = e1 THEN Used(c1, 1, 3)
                   ELSE IF e = e2 THEN [Used(c1, 1, 2) EXCEPT !.kind = "replacement", !.of = e1]
                   ELSE Used(c2, 0, 1)],
                 !.sent = {e1, e2, e3}, !.asks = {On("simulate", i1)}],
    \* A reversal, and included units.
    [Idle EXCEPT !.until = 1, !.existing = @ \union {v2, w1}, !.published = {v1, w1},
                 !.version = [@ EXCEPT
                   ![v2] = Version(<<Component(f1, FALSE, OveragePrice(1, 3), 2)>>)],
                 !.usage = [e \in Events |->
                   IF e = e2 THEN [Used(c1, 0, 2) EXCEPT !.kind = "reversal", !.of = e1]
                   ELSE Used(c1, 0, 2)],
                 !.sent = {e1, e2}, !.asks = {On("simulate", i1)}],
    \* A later version of the meter is published, and what only it counts is redacted.
    [Idle EXCEPT !.existing = @ \union {v2, w1, w3}, !.published = {v1, w1},
                 !.usage = [e \in Events |-> Used(c1, IF e = e1 THEN 0 ELSE 2, 4)],
                 !.sent = {e1, e3}, !.redactable = {e3},
                 !.asks = {On("simulate", i1), On("publish meter version", w3)}],
    \* A value that is no number excludes one of two customers.
    [Idle EXCEPT !.existing = @ \union {v2, w1, c2}, !.published = {v1, w1},
                 !.usage = [e \in Events |->
                   IF e = e1 THEN Used(c1, 0, None) ELSE Used(c2, 1, 5)],
                 !.sent = {e1, e3}, !.redactable = {e1},
                 !.asks = {On("simulate", i1), On("archive version", v1)}] }

MCSettings == Versioning \union Selling \union Simulating
=============================================================================
