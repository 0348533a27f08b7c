------------------------------ MODULE FareMath ------------------------------
(***************************************************************************)
(* The arithmetic of fares: fare.calculator.js (one journey, one           *)
(* passenger) and pool-fare.rules.js (the legs of a plan, shared between   *)
(* the passengers on board).                                               *)
(*                                                                         *)
(* The code computes in exact decimals.  Here an amount is a whole number  *)
(* of the smallest unit of money the policy rounds to (rounding_scale), a  *)
(* rate is an amount per kilometre or per minute, a fare weight counts     *)
(* thousandths and a multiplier hundredths, so every figure the code       *)
(* rounds is rounded here and every figure it keeps exact is exact.        *)
(***************************************************************************)
EXTENDS Integers, SequencesExt

Larger(a, b) == IF a >= b THEN a ELSE b
Smaller(a, b) == IF a <= b THEN a ELSE b

(* roundTo: n / d to the nearest whole number, halves away from zero. *)
HalfUp(n, d) ==
  IF n >= 0 THEN (2 * n + d) \div (2 * d) ELSE -((d - 2 * n) \div (2 * d))

(* roundToUnit: the charged fare is a whole multiple of the policy's unit. *)
RoundToUnit(amount, unit) == HalfUp(amount, unit) * unit

(* sumAmounts, of the amounts a function gives. *)
Total(amounts) == SumFunction(amounts)

-----------------------------------------------------------------------------
(* A policy row.  Its window is half-open and open-ended when "until" is   *)
(* NoEnd; the unit and the amounts are what readPolicy hands on.           *)
NoEnd == -1

ReadablePolicy(p) ==
  /\ p.perKilometer \in Nat /\ p.perMinute \in Nat
  /\ p.minimum \in Nat /\ p.base \in Nat
  /\ p.normal \in Nat \ {0} /\ p.rush \in Nat \ {0}
  /\ p.unit \in Nat \ {0}
  /\ p.minimum % p.unit = 0

(* A route that can be priced: edges of a positive length, duration and    *)
(* fare weight.                                                            *)
ReadableLegs(edges) ==
  /\ edges # << >>
  /\ edges \in Seq([meters : Nat \ {0}, seconds : Nat \ {0}, weight : Nat \ {0}])

(* The versions effective at an instant: exactly one, or the caller fails. *)
EffectiveAt(policies, at) ==
  {v \in DOMAIN policies :
     /\ policies[v].from <= at
     /\ policies[v].until = NoEnd \/ policies[v].until > at}

Multiplier(p, rush) == IF rush THEN p.rush ELSE p.normal

(* Every edge is rounded for itself, and its weight reaches the distance   *)
(* charge only.                                                            *)
DistanceCharge(p, edge) ==
  HalfUp(edge.meters * p.perKilometer * edge.weight, 1000 * 1000)

DistanceCost(p, edges) == Total([i \in DOMAIN edges |-> DistanceCharge(p, edges[i])])
Meters(edges) == Total([i \in DOMAIN edges |-> edges[i].meters])
Seconds(edges) == Total([i \in DOMAIN edges |-> edges[i].seconds])
TimeCost(p, edges) == HalfUp(Seconds(edges) * p.perMinute, 60)

(* The multiplier is applied once, as an adjustment on top of a subtotal.  *)
TrafficAdjustment(p, rush, subtotal) ==
  HalfUp(subtotal * (Multiplier(p, rush) - 100), 100)

(* calculateSoloFare.  The durations of the edges are those of the traffic *)
(* profile the router chose.                                               *)
SoloFare(p, edges, rush) ==
  LET subtotal == p.base + DistanceCost(p, edges) + TimeCost(p, edges)
      adjustment == TrafficAdjustment(p, rush, subtotal)
      unrounded == Larger(p.minimum, subtotal + adjustment)
      final == RoundToUnit(unrounded, p.unit)
  IN  [subtotal |-> subtotal, adjustment |-> adjustment,
       minimumApplied |-> p.minimum > subtotal + adjustment,
       rounding |-> final - unrounded, final |-> final, unit |-> p.unit]

-----------------------------------------------------------------------------
(* A plan is the sequence of its stops: who, and collected or delivered.   *)
Aboard(stops) ==
  LET after[i \in 0..Len(stops)] ==
        IF i = 0 THEN {}
        ELSE IF stops[i].pickup THEN after[i - 1] \cup {stops[i].member}
        ELSE after[i - 1] \ {stops[i].member}
  IN  after

(* onboardByLeg rejects a plan it cannot price: a stop of a stranger, a    *)
(* member collected or delivered twice, out of order or never, and a car   *)
(* too full.  Sequences are contiguous here by being a sequence.           *)
StopOf(stops, m, pickup) ==
  {i \in DOMAIN stops : stops[i].member = m /\ stops[i].pickup = pickup}

CanBePriced(stops, members, capacity) ==
  /\ stops # << >>
  /\ \A i \in DOMAIN stops : stops[i].member \in members
  /\ \A m \in members : \E i, j \in DOMAIN stops :
       /\ StopOf(stops, m, TRUE) = {i}
       /\ StopOf(stops, m, FALSE) = {j}
       /\ i < j
  /\ \A i \in DOMAIN stops : Cardinality(Aboard(stops)[i]) <= capacity

MutantOnboardByLeg(stops) ==  \* mutant: the leg before the stop's action
  [i \in 1..(Len(stops) - 1) |-> Aboard(stops)[i - 1]]

(* The leg a stop opens is the leg after it, paid by those on board then.  *)
OnboardByLeg(stops) == [i \in 1..(Len(stops) - 1) |-> Aboard(stops)[i]]

(* computeLegCost, and what priceLegs makes of a leg that goes nowhere or  *)
(* that nobody is on: nothing is owed for it.                              *)
FreeLeg(edges) ==
  [meters |-> Meters(edges), seconds |-> Seconds(edges),
   distance |-> 0, time |-> 0, adjustment |-> 0, cost |-> 0]

LegCost(p, edges, rush) ==
  LET pre == DistanceCost(p, edges) + TimeCost(p, edges)
      adjustment == TrafficAdjustment(p, rush, pre)
  IN  [meters |-> Meters(edges), seconds |-> Seconds(edges),
       distance |-> DistanceCost(p, edges), time |-> TimeCost(p, edges),
       adjustment |-> adjustment, cost |-> pre + adjustment]

PricedLeg(p, edges, rush, onboard) ==
  IF edges = << >> \/ onboard = {} THEN FreeLeg(edges) ELSE LegCost(p, edges, rush)

(* allocateLegShares: everybody pays the quotient rounded down, and the    *)
(* units left over go one each to the first members in the order of their  *)
(* ids (stableMemberOrder; here a member is its id).                       *)
Rank(S, m) == Cardinality({o \in S : o < m})

MutantLegShares(cost, onboard) ==  \* mutant: one unit too many is handed out
  LET base == cost \div Cardinality(onboard)
  IN  [m \in onboard |->
        IF Rank(onboard, m) <= cost - base * Cardinality(onboard) THEN base + 1 ELSE base]

LegShares(cost, onboard) ==
  LET count == Cardinality(onboard)
      base == cost \div count
      left == cost - base * count
  IN  [m \in onboard |-> IF Rank(onboard, m) < left THEN base + 1 ELSE base]

(* computePassengerFare: the minimum fare, then the solo cap, then the fare *)
(* of the previous plan (NoCap for a passenger who just joined), and the    *)
(* unit last.                                                               *)
NoCap == -1

PassengerFare(p, legCost, solo, previous) ==
  LET uncapped == p.base + legCost
      afterMinimum == Larger(p.minimum, uncapped)
      afterSolo == Smaller(solo, afterMinimum)
      unrounded == IF previous = NoCap THEN afterSolo ELSE Smaller(previous, afterSolo)
      final == RoundToUnit(unrounded, p.unit)
  IN  [solo |-> solo, previous |-> previous, base |-> p.base, legCost |-> legCost,
       uncapped |-> uncapped, minimum |-> p.minimum,
       soloReduction |-> afterMinimum - afterSolo,
       noIncreaseReduction |-> afterSolo - unrounded,
       rounding |-> final - unrounded, unit |-> p.unit, final |-> final]

(* totalise *)
Totals(legs, fares) ==
  LET sum(field) == Total([m \in DOMAIN fares |-> fares[m][field]])
  IN  [route |-> Total([i \in DOMAIN legs |-> legs[i].cost]),
       base |-> sum("base"),
       uncapped |-> sum("uncapped"),
       uplift |-> Total([m \in DOMAIN fares |-> Larger(0, fares[m].minimum - fares[m].uncapped)]),
       final |-> sum("final"),
       soloReduction |-> sum("soloReduction"),
       noIncreaseReduction |-> sum("noIncreaseReduction"),
       rounding |-> sum("rounding")]
=============================================================================
