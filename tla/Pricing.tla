------------------------------ MODULE Pricing ------------------------------
(***************************************************************************)
(* The pricing engine: what a component of a plan version charges for a    *)
(* quantity, and the price of every unit by itself to compare it with.     *)
(*                                                                         *)
(* Quantities are integers and prices integers of a part of the minor unit *)
(* of the currency: a component says how many parts make one unit.  The    *)
(* engine refuses negative numbers, so that half away from zero is half up.*)
(***************************************************************************)
EXTENDS Integers, Sequences, FiniteSetsExt

CONSTANT None  \* no upper bound

\* No number of a price is negative.
PriceDefinition(price) ==
  \/ price.model = "flat" /\ price.amount \in Nat
  \/ price.model = "per_unit" /\ price.rate \in Nat
  \/ price.model = "included_overage" /\ price.included \in Nat /\ price.rate \in Nat
  \/ price.model = "graduated" /\ price.tiers \in Seq([upTo: Nat \union {None}, rate: Nat])

\* Bounds increase strictly, and only the last tier is unbounded.
ValidTiers(tiers) ==
  /\ tiers # <<>>
  /\ \A i \in DOMAIN tiers : tiers[i].upTo = None <=> i = Len(tiers)
  /\ \A i \in 1..(Len(tiers) - 1) :
       tiers[i].upTo > (IF i = 1 THEN 0 ELSE tiers[i - 1].upTo)

ValidPrice(price) == price.model = "graduated" => ValidTiers(price.tiers)

\* Mutant: the bound of a tier is taken for its capacity.
GraduatedByBounds(tiers, quantity) ==
  LET Step(left, tier) ==
        LET here == IF tier.upTo = None THEN left.quantity ELSE Min({left.quantity, tier.upTo})
        IN [amount |-> left.amount + here * tier.rate, quantity |-> left.quantity - here,
            bound |-> tier.upTo]
      walk[i \in 0..Len(tiers)] ==
        IF i = 0 THEN [amount |-> 0, quantity |-> quantity, bound |-> 0]
        ELSE Step(walk[i - 1], tiers[i])
  IN walk[Len(tiers)].amount

\* Every tier takes what is left of the quantity, up to its capacity.
Graduated(tiers, quantity) ==
  LET Capacity(left, tier) ==
        IF tier.upTo = None THEN left.quantity ELSE tier.upTo - left.bound
      Step(left, tier) ==
        LET here == Min({left.quantity, Capacity(left, tier)})
        IN [amount |-> left.amount + here * tier.rate, quantity |-> left.quantity - here,
            bound |-> IF tier.upTo = None THEN left.bound ELSE tier.upTo]
      walk[i \in 0..Len(tiers)] ==
        IF i = 0 THEN [amount |-> 0, quantity |-> quantity, bound |-> 0]
        ELSE Step(walk[i - 1], tiers[i])
  IN walk[Len(tiers)].amount

IncludedOverage(price, quantity) == Max({quantity - price.included, 0}) * price.rate

PerUnit(price, quantity) == quantity * price.rate

Flat(price) == price.amount

Amount(price, quantity) ==
  CASE price.model = "flat" -> Flat(price)
    [] price.model = "per_unit" -> PerUnit(price, quantity)
    [] price.model = "included_overage" -> IncludedOverage(price, quantity)
    [] price.model = "graduated" -> Graduated(price.tiers, quantity)

RoundHalfAway(amount, parts) == (2 * amount + parts) \div (2 * parts)

\* A component charges its amount in minor units, rounded once.
Line(component, quantity) ==
  RoundHalfAway(Amount(component.price, quantity), component.parts)

\* quantities has the quantity of each component.
Subtotal(components, quantities) ==
  SumFunction([i \in DOMAIN components |-> Line(components[i], quantities[i])])

-----------------------------------------------------------------------------
(* What it should come to *)

\* The price of one unit: the rate of the first tier that reaches it.
UnitPrice(price, unit) ==
  CASE price.model = "per_unit" -> price.rate
    [] price.model = "included_overage" -> IF unit > price.included THEN price.rate ELSE 0
    [] price.model = "graduated" ->
         price.tiers[Min({i \in DOMAIN price.tiers :
                            price.tiers[i].upTo # None => unit <= price.tiers[i].upTo})].rate
    [] OTHER -> 0

\* Unit after unit, and the nearest whole number: the greater of two.
FairLine(component, quantity) ==
  LET fixed == IF component.price.model = "flat" THEN component.price.amount ELSE 0
      exact == fixed + SumFunction([u \in 1..quantity |-> UnitPrice(component.price, u)])
      Near(n) == /\ n * component.parts - exact <= exact - (n - 1) * component.parts
                 /\ (n + 1) * component.parts - exact > exact - n * component.parts
  IN CHOOSE n \in 0..exact : Near(n)

FairSubtotal(components, quantities) ==
  SumFunction([i \in DOMAIN components |-> FairLine(components[i], quantities[i])])
=============================================================================
