------------------------- MODULE MCQuotaReservation -------------------------
(* Instances of QuotaReservation for TLC. *)
EXTENDS QuotaReservation, TLC

CONSTANTS k1, k2, g1, g2

Asked(key, quantity, expiresAt) ==
  [key |-> key, quantity |-> quantity, expiresAt |-> expiresAt]

\* k1 is asked for in two ways, and k2 competes with it for the grants.
TwoKeyRequests == {Asked(k1, 1, 1), Asked(k1, 2, 2), Asked(k2, 1, 2)}

OneKeyRequests == {Asked(k1, 1, 1), Asked(k1, 2, 2)}

\* g1 ends while reservations that drew on it may be pending, and g2 begins then.
GrantTerms ==
  g1 :> [quantity |-> 2, effectiveAt |-> 0, expiresAt |-> 1] @@
  g2 :> [quantity |-> 1, effectiveAt |-> 1, expiresAt |-> 2]

\* Requests of the API are interchangeable in every safety property.
Symmetry == Permutations(Clients)
=============================================================================
