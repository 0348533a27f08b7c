-------------------------- MODULE PoolFaresProofs --------------------------
(***************************************************************************)
(* What passengers are asked to pay, for every number of rides, pools and  *)
(* policies: a pool has one answer and it is its plan's, no fare exceeds   *)
(* the accepted one nor the pool's last, everybody pays the legs they ride *)
(* and nothing else, a settled fare stays, and the CHECKs of the tables    *)
(* refuse nothing under policies of one unit.                              *)
(*                                                                         *)
(* The sums and the walk along the stops are recursive functions: that     *)
(* they exist, and what they give, is proved by induction (NatByInduction, *)
(* from the well-foundedness of < on Nat).                                 *)
(***************************************************************************)
EXTENDS PoolFares, FiniteSetTheorems, SequenceTheorems, WellFoundedInduction, TLAPS

-----------------------------------------------------------------------------
(* Induction over the natural numbers, for a set. *)
LEMMA NatByInduction ==
  ASSUME NEW G, 0 \in G, \A n \in Nat : n \in G => n + 1 \in G
  PROVE  Nat \subseteq G
<1> DEFINE Missing == Nat \ G
<1> SUFFICES ASSUME Missing # {} PROVE FALSE
  OBVIOUS
<1>1. PICK n \in Missing : \A m \in Missing : ~(<<m, n>> \in OpToRel(<, Nat))
  BY NatLessThanWellFounded, WFMin
<1>2. n \in Nat /\ n # 0
  OBVIOUS
<1>3. n - 1 \in Nat /\ n - 1 < n
  BY <1>2
<1>4. n - 1 \in G
  BY <1>1, <1>2, <1>3 DEF OpToRel
<1> QED BY <1>2, <1>3, <1>4

(* SumFunction takes the elements one by one, in the order of a choice. *)
Chosen(s) == CHOOSE x \in s : TRUE
SumStep(f, g, s) == IF s = {} THEN 0 ELSE f[Chosen(s)] + g[s \ {Chosen(s)}]

(* SumFunction, unfolded down to that choice. *)
LEMMA SumExpanded ==
  ASSUME NEW f
  PROVE  SumFunction(f) = LET iter[s \in SUBSET (DOMAIN f)] == SumStep(f, iter, s) IN iter[DOMAIN f]
  BY DEF SumFunction, SumFunctionOnSet, FoldFunctionOnSet, MapThenFoldSet, SumStep, Chosen

(* Without the chosen element a finite set is one smaller. *)
LEMMA ChosenRemoved ==
  ASSUME NEW S, IsFiniteSet(S), NEW s \in SUBSET S, s # {}
  PROVE  /\ Chosen(s) \in s /\ s \ {Chosen(s)} \in SUBSET S
         /\ Cardinality(s) \in Nat /\ Cardinality(s) > 0
         /\ Cardinality(s \ {Chosen(s)}) = Cardinality(s) - 1
         /\ Cardinality(s) <= Cardinality(S)
<1>1. Chosen(s) \in s
  BY DEF Chosen
<1>2. IsFiniteSet(s) /\ Cardinality(s) <= Cardinality(S)
  BY FS_Subset
<1>3. Cardinality(s) \in Nat /\ Cardinality(s) # 0
  BY <1>2, FS_CardinalityType, FS_EmptySet
<1>4. Cardinality(s \ {Chosen(s)}) = Cardinality(s) - 1
  BY <1>1, <1>2, FS_RemoveElement
<1>5. s \ {Chosen(s)} \in SUBSET S
  OBVIOUS
<1> QED BY <1>1, <1>2, <1>3, <1>4, <1>5

(* Such a function exists ... *)
LEMMA SumExists ==
  ASSUME NEW S, IsFiniteSet(S), NEW f \in [S -> Int]
  PROVE  \E g : g = [s \in SUBSET S |-> SumStep(f, g, s)]
<1> DEFINE Upto(n) == {s \in SUBSET S : Cardinality(s) <= n}
           Partial(n) == {g \in [Upto(n) -> Int] : \A s \in Upto(n) : g[s] = SumStep(f, g, s)}
           G == {n \in Nat : Partial(n) # {}}
<1>1. 0 \in G
  <2> DEFINE g == [s \in Upto(0) |-> 0]
  <2>1. \A s \in Upto(0) : s = {}
    BY FS_Subset, FS_CardinalityType, FS_EmptySet
  <2>2. g \in Partial(0)
    BY <2>1 DEF SumStep
  <2> QED BY <2>2
<1>2. ASSUME NEW n \in Nat, n \in G PROVE n + 1 \in G
  <2>1. PICK g \in Partial(n) : TRUE
    BY <1>2
  <2> DEFINE h == [s \in Upto(n + 1) |-> SumStep(f, g, s)]
  <2>2. ASSUME NEW s \in Upto(n + 1), s # {}
        PROVE  Chosen(s) \in S /\ s \ {Chosen(s)} \in Upto(n)
    BY <2>2, ChosenRemoved
  <2>3. \A s \in Upto(n + 1) : h[s] \in Int
    BY <2>1, <2>2 DEF SumStep
  <2>4. \A s \in Upto(n) : s \in Upto(n + 1) /\ h[s] = g[s]
    <3>1. \A s \in SUBSET S : Cardinality(s) \in Nat
      BY FS_Subset, FS_CardinalityType
    <3> QED BY <2>1, <3>1
  <2>5. \A s \in Upto(n + 1) : h[s] = SumStep(f, h, s)
    BY <2>2, <2>4 DEF SumStep
  <2>6. h \in Partial(n + 1)
    BY <2>3, <2>5
  <2> HIDE DEF h, Partial
  <2>7. n + 1 \in Nat /\ Partial(n + 1) # {}
    BY <2>6
  <2> QED BY <2>7
<1>3. Cardinality(S) \in G
  <2> HIDE DEF G
  <2> QED BY <1>1, <1>2, NatByInduction, FS_CardinalityType
<1>4. PICK g \in Partial(Cardinality(S)) : TRUE
  BY <1>3
<1>5. Upto(Cardinality(S)) = SUBSET S
  BY FS_Subset
<1> QED BY <1>4, <1>5

(* ... and a finite sum of integers is one. *)
LEMMA SumType ==
  ASSUME NEW S, IsFiniteSet(S), NEW f \in [S -> Int]
  PROVE  SumFunction(f) \in Int
<1> DEFINE iter == CHOOSE g : g = [s \in SUBSET S |-> SumStep(f, g, s)]
<1>1. iter = [s \in SUBSET S |-> SumStep(f, iter, s)]
  BY SumExists
<1>2. SumFunction(f) = iter[S]
  BY SumExpanded
<1> HIDE DEF iter
<1> DEFINE G == {n \in Nat : \A s \in SUBSET S : Cardinality(s) = n => iter[s] \in Int}
<1>3. 0 \in G
  <2>1. \A s \in SUBSET S : Cardinality(s) = 0 => s = {}
    BY FS_Subset, FS_EmptySet
  <2> QED BY <1>1, <2>1 DEF SumStep
<1>4. ASSUME NEW n \in Nat, n \in G PROVE n + 1 \in G
  <2>1. ASSUME NEW s \in SUBSET S, Cardinality(s) = n + 1 PROVE iter[s] \in Int
    <3>1. s # {}
      BY <2>1, FS_EmptySet
    <3>2. Chosen(s) \in S /\ s \ {Chosen(s)} \in SUBSET S /\ Cardinality(s \ {Chosen(s)}) = n
      BY <2>1, <3>1, ChosenRemoved
    <3>3. iter[s \ {Chosen(s)}] \in Int
      BY <1>4, <3>2
    <3>4. iter[s] = f[Chosen(s)] + iter[s \ {Chosen(s)}]
      BY <1>1, <3>1 DEF SumStep
    <3> QED BY <3>2, <3>3, <3>4
  <2> QED BY <2>1
<1>5. Cardinality(S) \in G
  <2> HIDE DEF G
  <2> QED BY <1>3, <1>4, NatByInduction, FS_CardinalityType
<1> QED BY <1>2, <1>5

-----------------------------------------------------------------------------
(* The arithmetic of a fare keeps to the integers, and rounding to the     *)
(* unit keeps what is a whole number of units.                             *)
(* What division means. *)
LEMMA DividingUp ==
  ASSUME NEW n \in Int, NEW d \in Nat \ {0}
  PROVE  /\ n \div d \in Int
         /\ n >= 0 => n \div d >= 0
         /\ n = d * (n \div d) + (n % d) /\ n % d \in 0..(d - 1)
  OBVIOUS

(* roundTo gives a whole number, and no negative one for an amount. *)
LEMMA HalfUpType ==
  ASSUME NEW n \in Int, NEW d \in Nat \ {0}
  PROVE  HalfUp(n, d) \in Int /\ (n >= 0 => HalfUp(n, d) \in Nat)
<1>1. 2 * d \in Nat \ {0}
  OBVIOUS
<1>2. 2 * n + d \in Int /\ d - 2 * n \in Int /\ (n >= 0 => 2 * n + d >= 0)
  OBVIOUS
<1>3. (2 * n + d) \div (2 * d) \in Int /\ (d - 2 * n) \div (2 * d) \in Int
  BY <1>1, <1>2, DividingUp
<1>4. n >= 0 => (2 * n + d) \div (2 * d) >= 0
  BY <1>1, <1>2, DividingUp
<1> QED BY <1>3, <1>4 DEF HalfUp

LEMMA ProductType ==
  ASSUME NEW a \in Int, NEW b \in Int
  PROVE  a * b \in Int /\ (a >= 0 /\ b >= 0 => a * b >= 0)
  OBVIOUS

(* So does rounding to the unit. *)
LEMMA RoundToUnitType ==
  ASSUME NEW n \in Int, NEW u \in Nat \ {0}
  PROVE  RoundToUnit(n, u) \in Int /\ (n >= 0 => RoundToUnit(n, u) \in Nat)
  BY HalfUpType, ProductType DEF RoundToUnit

(* A quotient is the largest number of times the divisor fits. *)
LEMMA QuotientBounds ==
  ASSUME NEW n \in Int, NEW d \in Nat \ {0}, NEW k \in Int
  PROVE  /\ n >= d * k => n \div d >= k
         /\ n < d * (k + 1) => n \div d <= k
<1> DEFINE q == n \div d
<1>1. q \in Int /\ n >= d * q /\ n < d * q + d
  BY DividingUp
<1> HIDE DEF q
<1>2. ASSUME n >= d * k PROVE q >= k
  <2>1. SUFFICES ASSUME q + 1 <= k PROVE FALSE
    BY <1>1
  <2>2. d * (q + 1) <= d * k
    BY <2>1, <1>1
  <2> QED BY <1>1, <1>2, <2>2
<1>3. ASSUME n < d * (k + 1) PROVE q <= k
  <2>1. SUFFICES ASSUME k + 1 <= q PROVE FALSE
    BY <1>1
  <2>2. d * (k + 1) <= d * q
    BY <2>1, <1>1
  <2> QED BY <1>1, <1>3, <2>2
<1> QED BY <1>2, <1>3 DEF q

(* An amount of k units or more is not rounded below k units, and exactly  *)
(* k units stay what they are.                                             *)
LEMMA RoundingKeepsUnits ==
  ASSUME NEW n \in Nat, NEW u \in Nat \ {0}, NEW k \in Nat
  PROVE  /\ n >= k * u => RoundToUnit(n, u) >= k * u
         /\ n = k * u => RoundToUnit(n, u) = k * u
<1> DEFINE h == (2 * n + u) \div (2 * u)
<1>1. h \in Int
  BY HalfUpType, DividingUp
<1>2. RoundToUnit(n, u) = h * u
  BY DEF RoundToUnit, HalfUp
<1>3. 2 * n + u \in Int /\ 2 * u \in Nat \ {0}
  OBVIOUS
<1>4. /\ 2 * n + u >= (2 * u) * k => h >= k
      /\ 2 * n + u < (2 * u) * (k + 1) => h <= k
  BY <1>3, QuotientBounds
<1> HIDE DEF h
<1>5. ASSUME n >= k * u PROVE h >= k /\ h * u >= k * u
  <2>1. 2 * n + u >= (2 * u) * k
    BY <1>5
  <2> QED BY <2>1, <1>4, <1>1
<1>6. ASSUME n = k * u PROVE h = k
  <2>1. 2 * n + u < (2 * u) * (k + 1) /\ 2 * n + u >= (2 * u) * k
    BY <1>6
  <2> QED BY <2>1, <1>4, <1>1
<1> QED BY <1>1, <1>2, <1>5, <1>6

(* What a sequence's folding gives is an integer when its numbers are. *)
LEMMA TotalType ==
  ASSUME NEW n \in Nat, NEW S \in SUBSET (1..n), NEW f \in [S -> Int]
  PROVE  Total(f) \in Int
<1>1. IsFiniteSet(1..n)
  BY FS_Interval
<1>2. IsFiniteSet(S)
  BY <1>1, FS_Subset
<1> QED BY <1>2, SumType DEF Total

(* The charges of a route that can be priced are whole numbers. *)
LEMMA DistanceCostType ==
  ASSUME NEW p, ReadablePolicy(p), NEW edges, ReadableLegs(edges)
  PROVE  DistanceCost(p, edges) \in Int /\ TimeCost(p, edges) \in Int
<1>1. /\ DOMAIN edges = 1..Len(edges) /\ Len(edges) \in Nat
      /\ \A i \in DOMAIN edges : /\ edges[i].meters \in Int /\ edges[i].seconds \in Int
                                 /\ edges[i].weight \in Int
  <2> DEFINE Edge == [meters : Nat \ {0}, seconds : Nat \ {0}, weight : Nat \ {0}]
  <2>1. edges \in Seq(Edge)
    BY DEF ReadableLegs
  <2>2. \A i \in DOMAIN edges : edges[i] \in Edge
    <3> HIDE DEF Edge
    <3> QED BY <2>1, ElementOfSeq
  <2>3. \A i \in DOMAIN edges :
          edges[i].meters \in Nat /\ edges[i].seconds \in Nat /\ edges[i].weight \in Nat
    BY <2>2
  <2>4. DOMAIN edges = 1..Len(edges) /\ Len(edges) \in Nat
    BY <2>1
  <2> QED BY <2>3, <2>4
<1>2. p.perKilometer \in Int /\ p.perMinute \in Int
  BY DEF ReadablePolicy
<1>3. ASSUME NEW i \in DOMAIN edges PROVE DistanceCharge(p, edges[i]) \in Int
  <2>1. edges[i].meters * p.perKilometer \in Int
    BY <1>1, <1>2, ProductType
  <2>2. edges[i].meters * p.perKilometer * edges[i].weight \in Int
    BY <1>1, <2>1, ProductType
  <2> QED BY <2>2, HalfUpType DEF DistanceCharge
<1>4. [i \in DOMAIN edges |-> DistanceCharge(p, edges[i])] \in [DOMAIN edges -> Int]
  BY <1>3
<1>5. DistanceCost(p, edges) \in Int
  BY <1>1, <1>4, TotalType DEF DistanceCost
<1>6. Seconds(edges) \in Int
  BY <1>1, TotalType DEF Seconds
<1>7. TimeCost(p, edges) \in Int
  BY <1>2, <1>6, ProductType, HalfUpType DEF TimeCost
<1> QED BY <1>5, <1>7

LEMMA AdjustmentType ==
  ASSUME NEW p, ReadablePolicy(p), NEW rush, NEW subtotal \in Int
  PROVE  TrafficAdjustment(p, rush, subtotal) \in Int
<1>1. Multiplier(p, rush) - 100 \in Int
  BY DEF ReadablePolicy, Multiplier
<1>2. subtotal * (Multiplier(p, rush) - 100) \in Int
  BY <1>1, ProductType
<1> QED BY <1>2, HalfUpType DEF TrafficAdjustment

(* The quoted fare is an amount (calculateSoloFare). *)
LEMMA SoloFareType ==
  ASSUME NEW p, ReadablePolicy(p), NEW edges, ReadableLegs(edges), NEW rush
  PROVE  SoloFare(p, edges, rush).final \in Nat
<1> DEFINE subtotal == p.base + DistanceCost(p, edges) + TimeCost(p, edges)
           adjustment == TrafficAdjustment(p, rush, subtotal)
           unrounded == Larger(p.minimum, subtotal + adjustment)
<1>1. p.base \in Nat /\ p.minimum \in Nat /\ p.unit \in Nat \ {0}
  BY DEF ReadablePolicy
<1>2. subtotal \in Int
  BY <1>1, DistanceCostType
<1> HIDE DEF subtotal
<1>3. adjustment \in Int
  BY <1>2, AdjustmentType
<1> HIDE DEF adjustment
<1>4. unrounded \in Nat
  BY <1>1, <1>2, <1>3 DEF Larger
<1> HIDE DEF unrounded
<1>5. SoloFare(p, edges, rush).final = RoundToUnit(unrounded, p.unit)
  BY DEF SoloFare, subtotal, adjustment, unrounded
<1> QED BY <1>1, <1>4, <1>5, RoundToUnitType

(* So is the cost of a leg (computeLegCost). *)
LEMMA LegCostType ==
  ASSUME NEW p, ReadablePolicy(p), NEW edges, edges = << >> \/ ReadableLegs(edges),
         NEW rush, NEW onboard
  PROVE  PricedLeg(p, edges, rush, onboard).cost \in Int
<1>1. CASE edges = << >> \/ onboard = {}
  BY <1>1 DEF PricedLeg, FreeLeg
<1>2. CASE ~(edges = << >> \/ onboard = {})
  <2> DEFINE pre == DistanceCost(p, edges) + TimeCost(p, edges)
  <2>1. pre \in Int
    BY <1>2, DistanceCostType
  <2>2. TrafficAdjustment(p, rush, pre) \in Int
    BY <2>1, AdjustmentType
  <2>3. PricedLeg(p, edges, rush, onboard).cost = pre + TrafficAdjustment(p, rush, pre)
    BY <1>2 DEF PricedLeg, LegCost
  <2> QED BY <2>1, <2>2, <2>3
<1> QED BY <1>1, <1>2

(* allocateLegShares: whole units, and no two shares are more than one apart. *)
LEMMA LegSharesFair ==
  ASSUME NEW cost \in Int, NEW S, IsFiniteSet(S), S # {}
  PROVE  /\ LegShares(cost, S) \in [S -> Int]
         /\ \A m, o \in S : LegShares(cost, S)[m] - LegShares(cost, S)[o] <= 1
<1> DEFINE count == Cardinality(S)
           base == cost \div count
           left == cost - base * count
<1>1. count \in Nat \ {0}
  BY FS_CardinalityType, FS_EmptySet
<1> HIDE DEF count
<1>2. base \in Int
  BY <1>1, DividingUp
<1> HIDE DEF base
<1>3. LegShares(cost, S) = [m \in S |-> IF Rank(S, m) < left THEN base + 1 ELSE base]
  BY DEF LegShares, count, base, left
<1> HIDE DEF left
<1>4. \A m \in S : LegShares(cost, S)[m] = base \/ LegShares(cost, S)[m] = base + 1
  BY <1>3
<1>5. LegShares(cost, S) \in [S -> Int]
  BY <1>2, <1>3
<1> QED BY <1>2, <1>4, <1>5

-----------------------------------------------------------------------------
(* The stops of a plan, and who is aboard after each of them. *)
Stops == [member : Rides, pickup : BOOLEAN]

(* Who is aboard after stop i, given who was before it. *)
NowAboard(stops, before, i) ==
  IF i = 0 THEN {}
  ELSE IF stops[i].pickup THEN before[i - 1] \cup {stops[i].member}
  ELSE before[i - 1] \ {stops[i].member}

(* A plan has finitely many members, all of them rides. *)
LEMMA MembersAreFinite ==
  ASSUME NEW stops \in Seq(Stops)
  PROVE  IsFiniteSet(MembersOf(stops)) /\ MembersOf(stops) \subseteq Rides
<1>1. /\ DOMAIN stops = 1..Len(stops) /\ Len(stops) \in Nat
      /\ \A i \in DOMAIN stops : stops[i] \in Stops
  <2> HIDE DEF Stops
  <2> QED BY ElementOfSeq
<1>2. IsFiniteSet(1..Len(stops))
  BY <1>1, FS_Interval
<1> DEFINE member == [i \in 1..Len(stops) |-> stops[i].member]
<1>3. member \in Surjection(1..Len(stops), MembersOf(stops))
  BY <1>1 DEF MembersOf, Surjection
<1>4. IsFiniteSet(MembersOf(stops))
  <2> HIDE DEF member
  <2> QED BY <1>2, <1>3, FS_Surjection
<1> QED BY <1>1, <1>4 DEF MembersOf, Stops

(* The walk along the stops exists: induction on the length of the walk. *)
LEMMA AboardUnfolds ==
  ASSUME NEW stops \in Seq(Stops)
  PROVE  Aboard(stops) = [i \in 0..Len(stops) |-> NowAboard(stops, Aboard(stops), i)]
<1> DEFINE n == Len(stops)
           Partial(k) == {g \in [0..k -> SUBSET MembersOf(stops)] :
                            \A i \in 0..k : g[i] = NowAboard(stops, g, i)}
           G == {k \in Nat : k <= n => Partial(k) # {}}
<1>1. n \in Nat /\ DOMAIN stops = 1..n
  OBVIOUS
<1>2. 0 \in G
  <2> DEFINE g == [i \in 0..0 |-> {}]
  <2>1. g \in Partial(0)
    BY DEF NowAboard
  <2> QED BY <2>1
<1>3. ASSUME NEW k \in Nat, k \in G PROVE k + 1 \in G
  <2> SUFFICES ASSUME k + 1 <= n PROVE Partial(k + 1) # {}
    OBVIOUS
  <2>1. PICK g \in Partial(k) : TRUE
    BY <1>3, <1>1
  <2>2. stops[k + 1].member \in MembersOf(stops)
    BY <1>1 DEF MembersOf
  <2> DEFINE h == [i \in 0..(k + 1) |-> NowAboard(stops, g, i)]
  <2>3. \A i \in 0..k : i \in 0..(k + 1) /\ h[i] = g[i]
    BY <2>1
  <2>4. \A i \in 0..(k + 1) : i # 0 => i - 1 \in 0..k
    OBVIOUS
  <2>5. \A i \in 0..(k + 1) : h[i] = NowAboard(stops, h, i)
    BY <2>3, <2>4 DEF NowAboard
  <2>6. \A i \in 0..(k + 1) : h[i] \in SUBSET MembersOf(stops)
    <3>1. \A i \in 0..k : h[i] \in SUBSET MembersOf(stops)
      BY <2>1, <2>3
    <3>2. h[k + 1] = NowAboard(stops, g, k + 1)
      OBVIOUS
    <3>3. g[k] \in SUBSET MembersOf(stops)
      BY <2>1
    <3>4. h[k + 1] \in SUBSET MembersOf(stops)
      BY <3>2, <3>3, <2>2 DEF NowAboard
    <3>5. \A i \in 0..(k + 1) : i \in 0..k \/ i = k + 1
      OBVIOUS
    <3> HIDE DEF h
    <3> QED BY <3>1, <3>4, <3>5
  <2> HIDE DEF h
  <2>7. h \in [0..(k + 1) -> SUBSET MembersOf(stops)]
    <3>1. h = [i \in 0..(k + 1) |-> NowAboard(stops, g, i)]
      BY DEF h
    <3> QED BY <3>1, <2>6
  <2>8. h \in Partial(k + 1)
    BY <2>5, <2>7
  <2> QED BY <2>8
<1>4. n \in G
  <2> HIDE DEF G
  <2> QED BY <1>1, <1>2, <1>3, NatByInduction
<1>5. PICK g \in Partial(n) : TRUE
  BY <1>1, <1>4
<1>6. g = [i \in 0..n |-> NowAboard(stops, g, i)]
  BY <1>5
<1>7. Aboard(stops) = CHOOSE after : after = [i \in 0..n |-> NowAboard(stops, after, i)]
  BY DEF Aboard, NowAboard
<1> QED BY <1>6, <1>7

(* Whom the plan has collected and not yet delivered after stop i. *)
Collected(stops, members, i) ==
  {m \in members : /\ \E k \in 1..i : stops[k] = Stop(m, TRUE)
                   /\ \A k \in 1..i : stops[k] # Stop(m, FALSE)}

(* Only members are ever aboard. *)
LEMMA AboardAreMembers ==
  ASSUME NEW stops \in Seq(Stops)
  PROVE  \A i \in 0..Len(stops) : Aboard(stops)[i] \subseteq MembersOf(stops)
<1> DEFINE n == Len(stops)
           G == {k \in Nat : k <= n => Aboard(stops)[k] \subseteq MembersOf(stops)}
<1>1. n \in Nat /\ DOMAIN stops = 1..n
  OBVIOUS
<1>2. \A i \in 0..n : Aboard(stops)[i] = NowAboard(stops, Aboard(stops), i)
  BY AboardUnfolds
<1>3. 0 \in G
  <2>1. Aboard(stops)[0] = NowAboard(stops, Aboard(stops), 0)
    BY <1>1, <1>2
  <2> QED BY <2>1 DEF NowAboard
<1>4. ASSUME NEW k \in Nat, k \in G PROVE k + 1 \in G
  <2> SUFFICES ASSUME k + 1 <= n PROVE Aboard(stops)[k + 1] \subseteq MembersOf(stops)
    OBVIOUS
  <2>1. Aboard(stops)[k] \subseteq MembersOf(stops)
    BY <1>1, <1>4
  <2>2. stops[k + 1].member \in MembersOf(stops)
    BY <1>1 DEF MembersOf
  <2>3. Aboard(stops)[k + 1] = NowAboard(stops, Aboard(stops), k + 1)
    BY <1>1, <1>2
  <2> QED BY <2>1, <2>2, <2>3 DEF NowAboard
<1>5. Nat \subseteq G
  <2> HIDE DEF G
  <2> QED BY <1>3, <1>4, NatByInduction
<1> QED BY <1>1, <1>5

(* In a plan that can be priced, those aboard after a stop are those the plan *)
(* has collected and not yet delivered (onboardByLeg).                     *)
LEMMA AboardAreCollected ==
  ASSUME NEW stops \in Seq(Stops), NEW capacity,
         CanBePriced(stops, MembersOf(stops), capacity)
  PROVE  \A i \in 0..Len(stops) : Aboard(stops)[i] = Collected(stops, MembersOf(stops), i)
<1> DEFINE n == Len(stops)
           members == MembersOf(stops)
           G == {k \in Nat : k <= n => Aboard(stops)[k] = Collected(stops, members, k)}
<1>1. n \in Nat /\ DOMAIN stops = 1..n /\ \A i \in 1..n : stops[i] \in Stops
  <2> HIDE DEF Stops
  <2> QED BY ElementOfSeq
<1>2. \A i \in 0..n : Aboard(stops)[i] = NowAboard(stops, Aboard(stops), i)
  BY AboardUnfolds
<1>3. 0 \in G
  <2>1. Collected(stops, members, 0) = {}
    BY DEF Collected
  <2>2. Aboard(stops)[0] = NowAboard(stops, Aboard(stops), 0)
    BY <1>1, <1>2
  <2> QED BY <2>1, <2>2 DEF NowAboard
<1>4. ASSUME NEW k \in Nat, k \in G PROVE k + 1 \in G
  <2> SUFFICES ASSUME k + 1 <= n PROVE Aboard(stops)[k + 1] = Collected(stops, members, k + 1)
    OBVIOUS
  <2>1. Aboard(stops)[k] = Collected(stops, members, k)
    BY <1>1, <1>4
  <2> DEFINE m == stops[k + 1].member
  <2>2. m \in members /\ k + 1 \in 1..n
    BY <1>1 DEF MembersOf
  <2>3. Aboard(stops)[k + 1] = NowAboard(stops, Aboard(stops), k + 1)
    BY <1>1, <1>2
  <2>4. stops[k + 1] = Stop(m, stops[k + 1].pickup) /\ stops[k + 1].pickup \in BOOLEAN
    BY <2>2, <1>1 DEF Stops, Stop
  <2>5. PICK i, j \in 1..n : StopOf(stops, m, TRUE) = {i} /\ StopOf(stops, m, FALSE) = {j} /\ i < j
    BY <1>1, <2>2 DEF CanBePriced
  <2>6. 1..(k + 1) = (1..k) \cup {k + 1} /\ 1..(k + 1) \subseteq 1..n
    BY <1>1
  <2>7. ASSUME NEW o \in members, o # m
        PROVE  o \in Collected(stops, members, k + 1) <=> o \in Collected(stops, members, k)
    <3>1. stops[k + 1] # Stop(o, TRUE) /\ stops[k + 1] # Stop(o, FALSE)
      BY <2>7 DEF Stop
    <3> QED BY <2>6, <3>1 DEF Collected
  <2>8. CASE stops[k + 1].pickup
    <3>1. k + 1 \in StopOf(stops, m, TRUE)
      BY <2>8, <1>1, <2>2 DEF StopOf
    <3>2. i = k + 1
      BY <3>1, <2>5
    <3>3. \A l \in 1..(k + 1) : stops[l] # Stop(m, FALSE)
      <4>1. SUFFICES ASSUME NEW l \in 1..(k + 1), stops[l] = Stop(m, FALSE) PROVE FALSE
        OBVIOUS
      <4>2. l \in StopOf(stops, m, FALSE)
        BY <4>1, <2>6, <1>1 DEF StopOf, Stop
      <4>3. l = j
        BY <4>2, <2>5
      <4> QED BY <4>3, <3>2, <2>5
    <3>4. stops[k + 1] = Stop(m, TRUE)
      BY <2>4, <2>8
    <3>5. m \in Collected(stops, members, k + 1)
      BY <2>2, <2>6, <3>3, <3>4 DEF Collected
    <3>6. Aboard(stops)[k + 1] = Aboard(stops)[k] \cup {m}
      BY <2>3, <2>8 DEF NowAboard
    <3>7. /\ Collected(stops, members, k) \subseteq members
          /\ Collected(stops, members, k + 1) \subseteq members
      BY DEF Collected
    <3> QED BY <2>1, <2>7, <3>5, <3>6, <3>7
  <2>9. CASE ~stops[k + 1].pickup
    <3>1. stops[k + 1] = Stop(m, FALSE)
      BY <2>4, <2>9
    <3>2. m \notin Collected(stops, members, k + 1)
      BY <3>1, <2>6 DEF Collected
    <3>3. Aboard(stops)[k + 1] = Aboard(stops)[k] \ {m}
      BY <2>3, <2>9 DEF NowAboard
    <3>4. /\ Collected(stops, members, k) \subseteq members
          /\ Collected(stops, members, k + 1) \subseteq members
      BY DEF Collected
    <3> QED BY <2>1, <2>7, <3>2, <3>3, <3>4
  <2> QED BY <2>8, <2>9, <2>4
<1>5. Nat \subseteq G
  <2> HIDE DEF G
  <2> QED BY <1>3, <1>4, NatByInduction
<1> QED BY <1>1, <1>5

-----------------------------------------------------------------------------
(* An answer: the row recalculatePoolFares writes. *)
IsRow(c) ==
  /\ c = [version |-> c.version, rule |-> c.rule, policy |-> c.policy, status |-> c.status,
          legs |-> c.legs, shares |-> c.shares, fares |-> c.fares, totals |-> c.totals]
  /\ c.version \in Nat

IsPlan(plan) ==
  /\ plan = [status |-> plan.status, version |-> plan.version, stops |-> plan.stops]
  /\ plan.status \in {"NONE", "FORMING", "DEPARTED"}
  /\ plan.version \in Nat
  /\ plan.stops \in Seq(Stops)

(* A fare no cap and no minimum is broken by. *)
Fair(f, accepted, minimum) ==
  /\ f.final \in Nat /\ f.final <= accepted
  /\ f.final < minimum => f.final = f.solo \/ f.final = f.previous

Bounded(c, accepted) ==
  \A m \in DOMAIN c.fares :
    m \in Rides /\ accepted[m] \in Nat /\ Fair(c.fares[m], accepted[m], Policies[c.policy].minimum)

OwnLegs(c, stops) ==
  \A i \in DOMAIN c.legs :
    /\ DOMAIN c.shares[i] = Collected(stops, MembersOf(stops), i)
    /\ \A m, o \in DOMAIN c.shares[i] : c.shares[i][m] - c.shares[i][o] <= 1

(* Whole units are a number of units. *)
LEMMA WholeUnitsDivide ==
  ASSUME NEW n \in Nat, NEW u \in Nat \ {0}, WholeUnits(n, u)
  PROVE  \E k \in Nat : n = k * u
<1> DEFINE k == n \div u
<1>1. k \in Int /\ k >= 0 /\ n = u * k + (n % u)
  <2>1. n \in Int /\ n >= 0
    OBVIOUS
  <2> QED BY <2>1, DividingUp, SMTT(30)
<1>2. n % u = 0
  BY DEF WholeUnits
<1> HIDE DEF k
<1>3. u * k = k * u
  BY <1>1
<1>4. u * k \in Int
  BY <1>1, ProductType
<1>5. n = k * u /\ k \in Nat
  BY <1>1, <1>2, <1>3, <1>4
<1> QED BY <1>5

(* computePassengerFare: a fare the tables accept obeys both caps, and is  *)
(* below the minimum only where a cap is.                                  *)
LEMMA PassengerFareIsFair ==
  ASSUME NEW p, ReadablePolicy(p), NEW legCost \in Int, NEW accepted \in Nat,
         NEW previous \in Nat \cup {NoCap},
         FareRowAccepted(PassengerFare(p, legCost, accepted, previous))
  PROVE  /\ Fair(PassengerFare(p, legCost, accepted, previous), accepted, p.minimum)
         /\ previous # NoCap =>
              PassengerFare(p, legCost, accepted, previous).final <= previous
<1> DEFINE f == PassengerFare(p, legCost, accepted, previous)
           floor == Larger(p.minimum, p.base + legCost)
           capped == Smaller(accepted, floor)
           unrounded == IF previous = NoCap THEN capped ELSE Smaller(previous, capped)
<1>1. p.base \in Nat /\ p.minimum \in Nat /\ p.unit \in Nat \ {0} /\ p.minimum % p.unit = 0
  BY DEF ReadablePolicy
<1>2. /\ f.final = RoundToUnit(unrounded, p.unit)
      /\ f.solo = accepted /\ f.previous = previous /\ f.unit = p.unit
  BY DEF PassengerFare
<1>3. /\ f.final <= f.solo
      /\ f.previous # NoCap => f.final <= f.previous
      /\ WholeUnits(f.solo, f.unit)
      /\ f.previous # NoCap => WholeUnits(f.previous, f.unit)
  BY DEF FareRowAccepted
<1>4. floor \in Nat /\ floor >= p.minimum
  BY <1>1 DEF Larger
<1>5. unrounded \in Nat /\ unrounded \in {floor, accepted, previous}
      /\ (unrounded = previous => previous # NoCap)
  BY <1>4 DEF Smaller, NoCap
<1> HIDE DEF f, unrounded, floor, capped
<1>6. f.final \in Nat
  BY <1>1, <1>2, <1>5, RoundToUnitType
<1>7. CASE unrounded = floor
  <2>1. PICK k \in Nat : p.minimum = k * p.unit
    BY <1>1, WholeUnitsDivide DEF WholeUnits
  <2>2. RoundToUnit(unrounded, p.unit) >= p.minimum
    BY <2>1, <1>1, <1>4, <1>5, <1>7, RoundingKeepsUnits
  <2> QED BY <2>2, <1>1, <1>2, <1>3, <1>6 DEF Fair, f
<1>8. CASE unrounded = accepted
  <2>1. PICK k \in Nat : accepted = k * p.unit
    BY <1>1, <1>2, <1>3, WholeUnitsDivide
  <2>2. RoundToUnit(unrounded, p.unit) = accepted
    BY <2>1, <1>1, <1>8, RoundingKeepsUnits
  <2> QED BY <2>2, <1>2, <1>3, <1>6 DEF Fair, f
<1>9. CASE unrounded = previous
  <2>1. previous \in Nat
    BY <1>5, <1>9
  <2>2. PICK k \in Nat : previous = k * p.unit
    BY <1>1, <1>2, <1>3, <1>5, <1>9, <2>1, WholeUnitsDivide
  <2>3. RoundToUnit(unrounded, p.unit) = previous
    BY <2>1, <2>2, <1>1, <1>9, RoundingKeepsUnits
  <2> QED BY <2>3, <1>2, <1>3, <1>6 DEF Fair, f
<1> QED BY <1>5, <1>7, <1>8, <1>9

(* A leg leads nowhere or along a route that can be priced. *)
LEMMA RoutesAreReadable ==
  ASSUME NEW stops \in Seq(Stops), NEW i \in 1..(Len(stops) - 1), NEW rush \in BOOLEAN
  PROVE  LET edges == LegRoute(PointOf(stops[i]), PointOf(stops[i + 1]), rush)
         IN  edges = << >> \/ ReadableLegs(edges)
<1>1. i \in 1..Len(stops) /\ i + 1 \in 1..Len(stops)
  OBVIOUS
<1>2. stops[i] \in Stops /\ stops[i + 1] \in Stops
  <2> HIDE DEF Stops
  <2> QED BY <1>1, ElementOfSeq
<1> DEFINE points == {From[r] : r \in Rides} \cup {To[r] : r \in Rides}
<1>3. PointOf(stops[i]) \in points /\ PointOf(stops[i + 1]) \in points
  BY <1>2 DEF PointOf, Stops
<1>4. \A a, b \in points : a # b => ReadableLegs(Route[rush][<<a, b>>])
  BY RouteAssumption
<1> HIDE DEF points
<1> QED BY <1>3, <1>4 DEF LegRoute

(* What recalculatePoolFares computes for a plan it can price. *)
LEMMA SharesOfThePlan ==
  ASSUME NEW p, ReadablePolicy(p), NEW stops \in Seq(Stops),
         CanBePriced(stops, MembersOf(stops), Capacity)
  PROVE  LET legs == PriceLegs(p, stops)
             shares == SharesByLeg(stops, legs)
         IN  /\ DOMAIN legs = 1..(Len(stops) - 1) /\ DOMAIN shares = DOMAIN legs
             /\ \A i \in DOMAIN legs :
                  /\ DOMAIN shares[i] = Collected(stops, MembersOf(stops), i)
                  /\ \A m \in DOMAIN shares[i] : shares[i][m] \in Int
                  /\ \A m, o \in DOMAIN shares[i] : shares[i][m] - shares[i][o] <= 1
             /\ \A m : LegCostOf(shares, m) \in Int
<1> DEFINE legs == PriceLegs(p, stops)
           shares == SharesByLeg(stops, legs)
           n == Len(stops)
           onboard == OnboardByLeg(stops)
<1>1. n \in Nat
  OBVIOUS
<1>2. /\ onboard = [i \in 1..(n - 1) |-> Aboard(stops)[i]] /\ DOMAIN legs = 1..(n - 1)
      /\ DOMAIN shares = 1..(n - 1)
  BY DEF OnboardByLeg, PriceLegs, SharesByLeg
<1>3. ASSUME NEW i \in 1..(n - 1) PROVE legs[i].cost \in Int
  <2> DEFINE edges == LegRoute(PointOf(stops[i]), PointOf(stops[i + 1]), now \in Rush)
  <2>1. legs[i] = PricedLeg(p, edges, now \in Rush, onboard[i])
    BY <1>2, <1>3 DEF PriceLegs
  <2>2. edges = << >> \/ ReadableLegs(edges)
    <3> DEFINE rush == now \in Rush
    <3>1. rush \in BOOLEAN
      OBVIOUS
    <3> HIDE DEF rush
    <3>2. LET e == LegRoute(PointOf(stops[i]), PointOf(stops[i + 1]), rush)
          IN  e = << >> \/ ReadableLegs(e)
      BY <3>1, RoutesAreReadable
    <3> QED BY <3>2 DEF rush
  <2> HIDE DEF edges, legs
  <2> QED BY <2>1, <2>2, LegCostType
<1>4. ASSUME NEW i \in 1..(n - 1)
      PROVE  /\ DOMAIN shares[i] = Collected(stops, MembersOf(stops), i)
             /\ \A m \in DOMAIN shares[i] : shares[i][m] \in Int
             /\ \A m, o \in DOMAIN shares[i] : shares[i][m] - shares[i][o] <= 1
  <2>1. i \in 0..n
    BY <1>1
  <2>2. /\ onboard[i] = Collected(stops, MembersOf(stops), i)
        /\ onboard[i] \subseteq MembersOf(stops)
    BY <2>1, <1>2, AboardAreCollected, AboardAreMembers
  <2>3. IsFiniteSet(onboard[i])
    BY <2>2, MembersAreFinite, FS_Subset
  <2>4. shares[i] = IF onboard[i] = {} THEN << >> ELSE LegShares(legs[i].cost, onboard[i])
    BY <1>2 DEF SharesByLeg
  <2> HIDE DEF legs, shares, onboard
  <2>5. CASE onboard[i] = {}
    BY <2>2, <2>4, <2>5
  <2>6. CASE onboard[i] # {}
    <3>1. /\ LegShares(legs[i].cost, onboard[i]) \in [onboard[i] -> Int]
          /\ \A m, o \in onboard[i] :
               LegShares(legs[i].cost, onboard[i])[m] - LegShares(legs[i].cost, onboard[i])[o] <= 1
      BY <1>3, <2>3, <2>6, LegSharesFair
    <3> QED BY <2>2, <2>4, <2>6, <3>1
  <2> QED BY <2>5, <2>6
<1>5. ASSUME NEW m PROVE LegCostOf(shares, m) \in Int
  <2> DEFINE S == {k \in DOMAIN shares : m \in DOMAIN shares[k]}
             f == [i \in S |-> shares[i][m]]
  <2>1. LegCostOf(shares, m) = Total(f)
    BY DEF LegCostOf
  <2> HIDE DEF legs, shares, onboard
  <2>2. S \in SUBSET (1..(n - 1)) /\ S \in SUBSET (1..n)
    BY <1>1, <1>2
  <2>3. f \in [S -> Int]
    BY <1>4, <2>2
  <2> HIDE DEF S, f
  <2> QED BY <1>1, <2>1, <2>2, <2>3, TotalType
<1> HIDE DEF legs, shares, onboard
<1>6. /\ DOMAIN legs = 1..(Len(stops) - 1) /\ DOMAIN shares = DOMAIN legs
      /\ \A i \in DOMAIN legs :
           /\ DOMAIN shares[i] = Collected(stops, MembersOf(stops), i)
           /\ \A m \in DOMAIN shares[i] : shares[i][m] \in Int
           /\ \A m, o \in DOMAIN shares[i] : shares[i][m] - shares[i][o] <= 1
      /\ \A m : LegCostOf(shares, m) \in Int
  BY <1>2, <1>4, <1>5
<1> QED BY <1>6 DEF legs, shares

-----------------------------------------------------------------------------
(* The rows of a pool, as a sequence. *)
AreRows(s) == s \in Seq(Range(s)) /\ \A i \in DOMAIN s : IsRow(s[i])

(* The rows of a pool follow its plan. *)
Follow(s, plan) ==
  LET n == Len(s)
  IN  /\ plan.status = "NONE" => plan = NoPool /\ n = 0
      /\ n = 0 => plan = NoPool \/ (plan.status = "FORMING" /\ plan.version = 1)
      /\ \A i \in 1..n : i # n => s[i].status = "SUPERSEDED"
      /\ \A i, j \in 1..n : i < j => s[i].version < s[j].version
      /\ \A i \in 1..n : DOMAIN s[i].fares \subseteq MembersOf(plan.stops)
      /\ n # 0 => /\ s[n].version = plan.version
                  /\ DOMAIN s[n].fares = MembersOf(plan.stops)
                  /\ s[n].status = IF plan.status = "FORMING" THEN "CURRENT" ELSE "FINALIZED"
                  /\ OwnLegs(s[n], plan.stops)

(* Nobody pays more than they accepted, or than they did. *)
Capped(s, accepted) ==
  /\ \A i \in 1..Len(s) : Bounded(s[i], accepted)
  /\ \A i, j \in 1..Len(s) : i < j =>
       \A m \in DOMAIN s[j].fares :
         m \in DOMAIN s[i].fares => s[j].fares[m].final <= s[i].fares[m].final

Good(plan, s, accepted) ==
  /\ IsPlan(plan) /\ AreRows(s)
  /\ Follow(s, plan)
  /\ Capped(s, accepted)
  /\ \A m \in MembersOf(plan.stops) : accepted[m] \in Nat

(* The rows of a pool are a sequence of answers ... *)
LEMMA AreRowsType ==
  ASSUME NEW s, AreRows(s)
  PROVE  /\ Len(s) \in Nat /\ DOMAIN s = 1..Len(s) /\ \A i \in 1..Len(s) : IsRow(s[i])
         /\ s = [i \in 1..Len(s) |-> s[i]]
  BY DEF AreRows

(* ... and whatever is indexed like one is one. *)
LEMMA RowsFrom ==
  ASSUME NEW s, NEW n \in Nat, s = [i \in 1..n |-> s[i]], \A i \in 1..n : IsRow(s[i])
  PROVE  AreRows(s) /\ Len(s) = n
<1>1. DOMAIN s = 1..n
  OBVIOUS
<1>2. \A i \in 1..n : s[i] \in Range(s)
  BY <1>1 DEF Range
<1> DEFINE R == Range(s)
<1> HIDE DEF R
<1>3. s \in [1..n -> R]
  BY <1>2 DEF R
<1>4. s \in Seq(R) /\ Len(s) = n
  BY <1>3
<1> QED BY <1>1, <1>4 DEF AreRows, R

(* A new answer comes last. *)
LEMMA Appended ==
  ASSUME NEW s, AreRows(s), NEW row, IsRow(row)
  PROVE  /\ AreRows(Append(s, row)) /\ Len(Append(s, row)) = Len(s) + 1
         /\ \A i \in 1..Len(s) : Append(s, row)[i] = s[i]
         /\ Append(s, row)[Len(s) + 1] = row
<1> DEFINE n == Len(s)
           R == Range(s) \cup {row}
           t == Append(s, row)
<1>1. n \in Nat /\ DOMAIN s = 1..n /\ \A i \in 1..n : IsRow(s[i])
  BY AreRowsType
<1>2. s \in Seq(R) /\ row \in R
  <2>1. s \in Seq(Range(s)) /\ Range(s) \subseteq R /\ row \in R
    BY DEF AreRows
  <2> HIDE DEF R
  <2> QED BY <2>1, SeqMonotonic
<1> HIDE DEF R
<1>3. /\ t \in Seq(R) /\ Len(t) = n + 1
      /\ \A i \in 1..n : t[i] = s[i]
      /\ t[n + 1] = row
  BY <1>2, AppendProperties
<1>4. t = [i \in 1..(n + 1) |-> t[i]]
  <2> DEFINE k == n + 1
  <2>1. k \in Nat /\ t \in Seq(R) /\ Len(t) = k
    BY <1>1, <1>3
  <2> HIDE DEF k
  <2>2. t \in [1..k -> R]
    BY <2>1, LenProperties
  <2>3. t = [i \in 1..k |-> t[i]]
    BY <2>2
  <2> QED BY <2>3 DEF k
<1>5. \A i \in 1..(n + 1) : IsRow(t[i])
  BY <1>1, <1>3
<1> HIDE DEF t
<1>6. AreRows(t)
  <2> DEFINE k == n + 1
  <2>1. k \in Nat /\ t = [i \in 1..k |-> t[i]] /\ \A i \in 1..k : IsRow(t[i])
    BY <1>1, <1>4, <1>5
  <2> HIDE DEF k
  <2> QED BY <2>1, RowsFrom
<1> QED BY <1>3, <1>6 DEF t

(* An update of the status leaves the rest of an answer. *)
LEMMA StatusOnly ==
  ASSUME NEW c, IsRow(c), NEW status
  PROVE  LET d == [c EXCEPT !.status = status]
         IN  /\ IsRow(d)
             /\ d.status = status /\ d.version = c.version /\ d.fares = c.fares
             /\ d.policy = c.policy /\ d.legs = c.legs /\ d.shares = c.shares
<1>1. PICK v, r, p, s, l, h, f, t :
        /\ c = [version |-> v, rule |-> r, policy |-> p, status |-> s,
                legs |-> l, shares |-> h, fares |-> f, totals |-> t]
        /\ v \in Nat
  BY DEF IsRow
<1>2. [c EXCEPT !.status = status] =
        [version |-> v, rule |-> r, policy |-> p, status |-> status,
         legs |-> l, shares |-> h, fares |-> f, totals |-> t]
  BY <1>1
<1> QED BY <1>1, <1>2 DEF IsRow

(* Two answers alike but for their status. *)
Alike(d, c) ==
  /\ d.version = c.version /\ d.fares = c.fares /\ d.policy = c.policy
  /\ d.legs = c.legs /\ d.shares = c.shares

(* The caps do not depend on the statuses. *)
LEMMA CappedAlike ==
  ASSUME NEW s, NEW t, NEW accepted, Capped(s, accepted), Len(t) = Len(s), 
         \A i \in 1..Len(s) : Alike(t[i], s[i])
  PROVE  Capped(t, accepted)
<1>1. \A i \in 1..Len(s) : t[i].fares = s[i].fares /\ t[i].policy = s[i].policy
  BY DEF Alike
<1> QED BY <1>1 DEF Capped, Bounded

(* An answer below the last one is below all the earlier ones: whoever is in *)
(* an earlier one is in the last.                                          *)
LEMMA CappedFurther ==
  ASSUME NEW s, NEW n \in Nat, Len(s) = n, NEW accepted, Capped(s, accepted),
         NEW plan, Follow(s, plan),
         NEW t, NEW row, Len(t) = n + 1, \A i \in 1..n : t[i] = s[i], t[n + 1] = row,
         Bounded(row, accepted),
         n # 0 => \A m \in DOMAIN row.fares :
                    m \in DOMAIN s[n].fares => row.fares[m].final <= s[n].fares[m].final
  PROVE  Capped(t, accepted)
<1>1. \A i \in 1..(n + 1) : i \in 1..n \/ i = n + 1
  OBVIOUS
<1>2. \A i \in 1..Len(t) : Bounded(t[i], accepted)
  BY <1>1 DEF Capped
<1>3. ASSUME NEW i \in 1..(n + 1), NEW j \in 1..(n + 1), i < j,
             NEW m \in DOMAIN t[j].fares, m \in DOMAIN t[i].fares
      PROVE  t[j].fares[m].final <= t[i].fares[m].final
  <2>1. CASE j \in 1..n
    <3>1. i \in 1..n /\ t[i] = s[i] /\ t[j] = s[j]
      BY <1>3, <2>1
    <3> QED BY <1>3, <2>1, <3>1 DEF Capped
  <2>2. CASE j = n + 1
    <3>1. i \in 1..n /\ n \in 1..n /\ n # 0 /\ t[i] = s[i] /\ t[j] = row
      BY <1>3, <2>2
    <3>2. m \in DOMAIN s[n].fares
      BY <1>3, <3>1 DEF Follow
    <3>3. row.fares[m].final <= s[n].fares[m].final
      BY <1>3, <3>1, <3>2
    <3>4. i = n \/ (i < n /\ s[n].fares[m].final <= s[i].fares[m].final)
      BY <1>3, <3>1, <3>2 DEF Capped
    <3>5. s[n].fares[m].final \in Nat /\ s[i].fares[m].final \in Nat /\ row.fares[m].final \in Nat
      BY <1>3, <3>1, <3>2 DEF Capped, Bounded, Fair
    <3> QED BY <3>1, <3>3, <3>4, <3>5
  <2> QED BY <1>1, <2>1, <2>2
<1> QED BY <1>2, <1>3 DEF Capped

(* The answer for a new plan takes the place of the one for the old. *)
LEMMA AnswerIsGood ==
  ASSUME NEW s, NEW old, NEW accepted, Good(old, s, accepted),
         NEW plan, IsPlan(plan), plan.status = "FORMING",
         Len(s) # 0 => old.version < plan.version,
         MembersOf(old.stops) \subseteq MembersOf(plan.stops),
         \A m \in MembersOf(plan.stops) : accepted[m] \in Nat,
         NEW others, AreRows(others), Len(others) = Len(s),
         \A i \in 1..Len(s) : Alike(others[i], s[i]) /\ others[i].status = "SUPERSEDED",
         NEW row, IsRow(row), row.version = plan.version, row.status = "CURRENT",
         DOMAIN row.fares = MembersOf(plan.stops),
         Bounded(row, accepted), OwnLegs(row, plan.stops),
         Len(s) # 0 => \A m \in DOMAIN row.fares :
            m \in DOMAIN s[Len(s)].fares => row.fares[m].final <= s[Len(s)].fares[m].final
  PROVE  Good(plan, Append(others, row), accepted)
<1> DEFINE n == Len(s)
           t == Append(others, row)
<1>1. n \in Nat /\ Follow(s, old) /\ Capped(s, accepted)
  BY AreRowsType DEF Good
<1>2. /\ AreRows(t) /\ Len(t) = n + 1 /\ \A i \in 1..n : t[i] = others[i]
      /\ t[n + 1] = row
  BY Appended
<1>3. \A i \in 1..n : Alike(others[i], s[i]) /\ others[i].status = "SUPERSEDED"
  OBVIOUS
<1> HIDE DEF t
<1>4. \A i \in 1..(n + 1) : i \in 1..n \/ i = n + 1
  BY <1>1
<1>5. Capped(others, accepted)
  BY <1>1, <1>3, CappedAlike
<1>6. Capped(t, accepted)
  <2>1. Capped(s, accepted)
    BY <1>1
  <2>2. \A i \in 1..(n + 1) : Bounded(t[i], accepted)
    BY <1>2, <1>4, <1>5 DEF Capped
  <2> DEFINE u == [i \in 1..(n + 1) |-> IF i = n + 1 THEN row ELSE s[i]]
  <2>3. Len(u) = n + 1 /\ (\A i \in 1..n : u[i] = s[i]) /\ u[n + 1] = row
    BY <1>1
  <2> HIDE DEF u
  <2>4. Capped(u, accepted)
    BY <2>1, <2>3, <1>1, CappedFurther
  <2>5. \A i \in 1..(n + 1) : Alike(t[i], u[i])
    BY <1>2, <1>3, <1>4, <2>3 DEF Alike
  <2> QED BY <2>3, <2>4, <2>5, <1>2, CappedAlike
<1>7. ASSUME NEW i \in 1..(n + 1), NEW j \in 1..(n + 1), i < j PROVE t[i].version < t[j].version
  <2>1. CASE j \in 1..n
    <3>1. i \in 1..n /\ s[i].version < s[j].version
      BY <1>7, <2>1, <1>1 DEF Follow
    <3> QED BY <1>2, <1>3, <2>1, <3>1 DEF Alike
  <2>2. CASE j = n + 1
    <3>1. i \in 1..n /\ n \in 1..n /\ n # 0
      BY <1>7, <2>2, <1>1
    <3>2. s[n].version = old.version /\ (i = n \/ s[i].version < s[n].version)
      BY <1>1, <3>1 DEF Follow
    <3>3. s[i].version \in Nat /\ s[n].version \in Nat /\ plan.version \in Nat
      <4>1. \A k \in 1..n : IsRow(s[k])
        BY AreRowsType DEF Good
      <4> QED BY <3>1, <4>1 DEF IsRow, IsPlan
    <3>4. t[i].version = s[i].version /\ t[j].version = plan.version
      BY <1>2, <1>3, <2>2, <3>1 DEF Alike
    <3> QED BY <3>1, <3>2, <3>3, <3>4
  <2> QED BY <1>4, <2>1, <2>2
<1>8. \A i \in 1..(n + 1) : DOMAIN t[i].fares \subseteq MembersOf(plan.stops)
  <2>1. \A i \in 1..n : t[i].fares = s[i].fares
    BY <1>2, <1>3 DEF Alike
  <2>2. \A i \in 1..n : DOMAIN s[i].fares \subseteq MembersOf(old.stops)
    BY <1>1 DEF Follow
  <2> QED BY <1>2, <1>4, <2>1, <2>2
<1>9. \A i \in 1..(n + 1) : i # n + 1 => t[i].status = "SUPERSEDED"
  BY <1>2, <1>3, <1>4
<1>10. n + 1 # 0 /\ plan.status # "NONE"
  BY <1>1
<1>11. Follow(t, plan)
  <2>1. Len(t) = n + 1 /\ t[n + 1] = row
    BY <1>2
  <2> HIDE DEF n
  <2> QED BY <2>1, <1>7, <1>8, <1>9, <1>10 DEF Follow
<1> QED BY <1>2, <1>6, <1>11 DEF Good, t

(* Departing changes the status of the answer and nothing else. *)
LEMMA SettledIsGood ==
  ASSUME NEW s, NEW old, NEW accepted, Good(old, s, accepted), Len(s) # 0,
         NEW plan, IsPlan(plan), plan.status = "DEPARTED",
         plan.version = old.version, plan.stops = old.stops,
         NEW t, AreRows(t), Len(t) = Len(s),
         \A i \in 1..Len(s) : Alike(t[i], s[i]),
         \A i \in 1..Len(s) : i # Len(s) => t[i].status = s[i].status,
         t[Len(s)].status = "FINALIZED"
  PROVE  Good(plan, t, accepted)
<1> DEFINE n == Len(s)
<1>1. n \in Nat /\ n \in 1..n /\ Follow(s, old) /\ Capped(s, accepted)
  BY AreRowsType DEF Good
<1>2. Capped(t, accepted)
  BY <1>1, CappedAlike
<1>3. \A i \in 1..n : /\ t[i].version = s[i].version /\ t[i].fares = s[i].fares
                      /\ t[i].legs = s[i].legs /\ t[i].shares = s[i].shares
  BY DEF Alike
<1>4. OwnLegs(t[n], plan.stops)
  BY <1>1, <1>3 DEF Follow, OwnLegs
<1>5. Follow(t, plan)
  BY <1>1, <1>3, <1>4 DEF Follow
<1> QED BY <1>2, <1>5 DEF Good

-----------------------------------------------------------------------------
(* The inductive invariant. *)
Domains ==
  /\ quote = [r \in Rides |-> quote[r]]
  /\ \A r \in Rides : quote[r] = NoQuote \/ quote[r].fare \in Nat
  /\ solo \in [Rides -> Nat \cup {NoFare}]
  /\ pool = [p \in Pools |-> pool[p]]
  /\ rows = [p \in Pools |-> rows[p]]

PoolsAreGood == \A p \in Pools : Good(pool[p], rows[p], solo)

PoolsAreApart ==
  \A p, o \in Pools : p # o => MembersOf(pool[p].stops) \cap MembersOf(pool[o].stops) = {}

Inductive == Domains /\ PoolsAreGood /\ PoolsAreApart

(* The previous answer, from the versions of the rows. *)
LEMMA PreviousIs ==
  ASSUME NEW p, AreRows(rows[p]),
         \A i, j \in 1..Len(rows[p]) : i < j => rows[p][i].version < rows[p][j].version,
         NEW version, NEW k \in 0..Len(rows[p]),
         {i \in DOMAIN rows[p] : rows[p][i].version < version} = 1..k
  PROVE  Previous(p, version) = k
<1> DEFINE s == rows[p]
           older == {i \in DOMAIN s : s[i].version < version}
           newest == {i \in older : \A o \in older : s[o].version <= s[i].version}
<1>1. Len(s) \in Nat /\ DOMAIN s = 1..Len(s) /\ \A i \in DOMAIN s : s[i].version \in Nat
  BY AreRowsType DEF IsRow
<1>2. older = 1..k
  OBVIOUS
<1>3. Previous(p, version) =
        IF older = {} THEN 0 ELSE CHOOSE i \in newest : \A o \in newest : o <= i
  BY DEF Previous
<1>4. CASE k = 0
  BY <1>2, <1>3, <1>4
<1>5. CASE k # 0
  <2>1. k \in 1..k /\ 1..k \subseteq DOMAIN s
    BY <1>1, <1>5
  <2>2. \A o \in 1..k : o = k \/ s[o].version < s[k].version
    BY <2>1, <1>1
  <2>3. \A o \in 1..k : s[o].version \in Nat
    BY <2>1, <1>1
  <2> HIDE DEF older, s
  <2>4. newest = {k}
    BY <1>2, <2>1, <2>2, <2>3
  <2> HIDE DEF newest
  <2> QED BY <1>2, <1>3, <2>1, <2>4
<1> QED BY <1>4, <1>5

(* The versions of the rows, against the plan's. *)
LEMMA OlderRows ==
  ASSUME NEW p, NEW plan, AreRows(rows[p]), Follow(rows[p], plan), IsPlan(plan)
  PROVE  LET n == Len(rows[p])
         IN  /\ Previous(p, plan.version + 1) = n
             /\ n = 0 => Previous(p, plan.version) = 0
             /\ n # 0 => Previous(p, plan.version) = n - 1
<1> DEFINE s == rows[p]
           n == Len(s)
<1>1. n \in Nat /\ DOMAIN s = 1..n /\ \A i \in 1..n : s[i].version \in Nat
  BY AreRowsType DEF IsRow
<1>2. plan.version \in Nat
  BY DEF IsPlan
<1>3. \A i, j \in 1..n : i < j => s[i].version < s[j].version
  BY DEF Follow
<1>4. n # 0 => n \in 1..n /\ s[n].version = plan.version
  BY <1>1 DEF Follow
<1>5. \A i \in 1..n : s[i].version <= plan.version /\ (i # n => s[i].version < plan.version)
  BY <1>1, <1>2, <1>3, <1>4
<1>6. {i \in DOMAIN s : s[i].version < plan.version + 1} = 1..n
  BY <1>1, <1>2, <1>5
<1>7. Previous(p, plan.version + 1) = n
  <2>1. n \in 0..n
    BY <1>1
  <2> QED BY <2>1, <1>3, <1>6, PreviousIs
<1>8. CASE n = 0
  <2>1. {i \in DOMAIN s : s[i].version < plan.version} = 1..0
    BY <1>1, <1>8
  <2>2. 0 \in 0..n
    BY <1>1
  <2>3. Previous(p, plan.version) = 0
    BY <2>1, <2>2, <1>3, PreviousIs
  <2> QED BY <2>3, <1>7, <1>8
<1>9. CASE n # 0
  <2>1. {i \in DOMAIN s : s[i].version < plan.version} = 1..(n - 1)
    BY <1>1, <1>2, <1>4, <1>5, <1>9
  <2> DEFINE k == n - 1
  <2>2. k \in 0..n
    BY <1>1, <1>9
  <2>3. {i \in DOMAIN s : s[i].version < plan.version} = 1..k
    BY <2>1
  <2> HIDE DEF k
  <2>4. Previous(p, plan.version) = k
    BY <2>2, <2>3, <1>3, PreviousIs
  <2> QED BY <2>4, <1>7, <1>9 DEF k
<1> QED BY <1>8, <1>9

(* For a plan one version on, every row is superseded ... *)
LEMMA SupersededForNewPlan ==
  ASSUME NEW p, NEW plan, AreRows(rows[p]), Follow(rows[p], plan), IsPlan(plan),
         plan.status # "DEPARTED"
  PROVE  LET s == rows[p]
             others == Superseded(p, plan.version + 1)
         IN  /\ AreRows(others) /\ Len(others) = Len(s)
             /\ \A i \in 1..Len(s) : Alike(others[i], s[i]) /\ others[i].status = "SUPERSEDED"
<1> DEFINE s == rows[p]
           n == Len(s)
           others == Superseded(p, plan.version + 1)
<1>1. n \in Nat /\ DOMAIN s = 1..n /\ (\A i \in 1..n : IsRow(s[i])) /\ s = [i \in 1..n |-> s[i]]
  BY AreRowsType
<1>2. Previous(p, plan.version + 1) = n
  BY OlderRows
<1>3. CASE n = 0
  BY <1>1, <1>2, <1>3 DEF Superseded
<1>4. CASE n # 0
  <2>1. n \in 1..n /\ plan.status = "FORMING" /\ s[n].status = "CURRENT"
    BY <1>1, <1>4 DEF Follow, IsPlan
  <2>2. PICK d : d = [s[n] EXCEPT !.status = "SUPERSEDED"]
    OBVIOUS
  <2>3. others = [s EXCEPT ![n].status = "SUPERSEDED"]
    BY <1>2, <1>4, <2>1 DEF Superseded
  <2>4. others = [s EXCEPT ![n] = d]
    BY <2>2, <2>3, Zenon
  <2>5. others = [i \in 1..n |-> IF i = n THEN d ELSE s[i]]
    BY <1>1, <2>4
  <2>6. IsRow(d) /\ Alike(d, s[n]) /\ d.status = "SUPERSEDED"
    <3>1. IsRow(s[n])
      BY <1>1, <2>1
    <3> HIDE DEF s, n, others
    <3> QED BY <2>2, <3>1, StatusOnly DEF Alike
  <2>7. \A i \in 1..n : i # n => s[i].status = "SUPERSEDED"
    BY DEF Follow
  <2> HIDE DEF others, s, n
  <2>8. \A i \in 1..n : /\ IsRow(others[i]) /\ Alike(others[i], s[i])
                        /\ others[i].status = "SUPERSEDED"
    BY <1>1, <2>5, <2>6, <2>7 DEF Alike
  <2>9. others = [i \in 1..n |-> others[i]]
    BY <2>5
  <2>10. AreRows(others) /\ Len(others) = n
    BY <1>1, <2>8, <2>9, RowsFrom
  <2> QED BY <2>8, <2>10 DEF others, s, n
<1> QED BY <1>3, <1>4

(* ... and for the plan the pool has, nothing is. *)
LEMMA SupersededForSamePlan ==
  ASSUME NEW p, NEW plan, AreRows(rows[p]), Follow(rows[p], plan), IsPlan(plan)
  PROVE  Superseded(p, plan.version) = rows[p]
<1> DEFINE s == rows[p]
           n == Len(s)
<1>1. n \in Nat
  BY AreRowsType
<1>2. CASE n = 0
  BY <1>2, OlderRows DEF Superseded
<1>3. CASE n # 0
  <2>1. Previous(p, plan.version) = n - 1
    BY <1>3, OlderRows
  <2>2. n - 1 # 0 => s[n - 1].status = "SUPERSEDED"
    <3>1. \A i \in 1..n : i # n => s[i].status = "SUPERSEDED"
      BY DEF Follow
    <3> HIDE DEF s, n
    <3>2. n - 1 # 0 => n - 1 \in 1..n /\ n - 1 # n
      BY <1>1, <1>3
    <3> QED BY <3>1, <3>2
  <2> QED BY <2>1, <2>2 DEF Superseded
<1> QED BY <1>2, <1>3

(* A cap is a fare, or none. *)
LEMMA CapsAreFares ==
  ASSUME NEW p, AreRows(rows[p]), Capped(rows[p], solo), NEW version,
         Previous(p, version) \in 0..Len(rows[p]), NEW m
  PROVE  PreviousCap(p, version, m) \in Nat \cup {NoCap}
<1> DEFINE i == Previous(p, version)
<1>1. CASE i # 0 /\ m \in DOMAIN rows[p][i].fares
  <2>1. i \in 1..Len(rows[p])
    BY <1>1, AreRowsType
  <2>2. rows[p][i].fares[m].final \in Nat
    BY <2>1, <1>1 DEF Capped, Bounded, Fair
  <2> QED BY <2>2, <1>1 DEF PreviousCap
<1>2. CASE ~(i # 0 /\ m \in DOMAIN rows[p][i].fares)
  BY <1>2 DEF PreviousCap
<1> QED BY <1>1, <1>2

(* An answer recalculatePoolFares writes. *)
Answers(row, p, plan, version) ==
  /\ plan.version = version /\ plan.status = "FORMING"
  /\ ~Collides(Superseded(p, version), row)
  /\ IsRow(row) /\ row.version = version /\ row.status = "CURRENT"
  /\ DOMAIN row.fares = MembersOf(plan.stops)
  /\ Bounded(row, solo) /\ OwnLegs(row, plan.stops)
  /\ \A m \in DOMAIN row.fares :
       LET cap == PreviousCap(p, version, m)
       IN  cap # NoCap => row.fares[m].final <= cap

(* A plan that is priced gets an answer for this plan, with fares within   *)
(* their caps and shares for those aboard.                                 *)
LEMMA PricingWrites ==
  ASSUME NEW p, NEW plan, IsPlan(plan), NEW version \in Nat,
         \A m \in MembersOf(plan.stops) : solo[m] \in Nat,
         \A m : PreviousCap(p, version, m) \in Nat \cup {NoCap},
         Pricing(p, plan, version).how = "priced"
  PROVE  \E row : /\ Pricing(p, plan, version).rows = Append(Superseded(p, version), row)
                  /\ Answers(row, p, plan, version)
<1> DEFINE effective == EffectiveAt(Policies, now)
           v == CHOOSE v \in effective : TRUE
           row == Calculation(p, plan.stops, version, v)
<1>1. /\ plan.version = version /\ plan.status = "FORMING"
      /\ CanBePriced(plan.stops, MembersOf(plan.stops), Capacity)
      /\ Cardinality(effective) = 1
      /\ Pricing(p, plan, version) = Stored(p, Superseded(p, version), row)
  BY DEF Pricing, Refused
<1>2. v \in DOMAIN Policies /\ ReadablePolicy(Policies[v])
  <2>1. effective # {}
    BY <1>1, FS_EmptySet
  <2>2. v \in effective
    BY <2>1
  <2> QED BY <2>2, PoliciesAssumption DEF EffectiveAt
<1>3. /\ ~Collides(Superseded(p, version), row) /\ ChecksAccept(row)
      /\ Pricing(p, plan, version).rows = Append(Superseded(p, version), row)
  <2> HIDE DEF row
  <2> QED BY <1>1 DEF Stored, Refused, Written
<1> DEFINE legs == PriceLegs(Policies[v], plan.stops)
           shares == SharesByLeg(plan.stops, legs)
           fares == Fares(p, version, v, MembersOf(plan.stops), shares)
<1>4. plan.stops \in Seq(Stops)
  BY DEF IsPlan
<1> HIDE DEF v, effective
<1>5. /\ DOMAIN legs = 1..(Len(plan.stops) - 1) /\ DOMAIN shares = DOMAIN legs
      /\ \A i \in DOMAIN legs :
           /\ DOMAIN shares[i] = Collected(plan.stops, MembersOf(plan.stops), i)
           /\ \A m \in DOMAIN shares[i] : shares[i][m] \in Int
           /\ \A m, o \in DOMAIN shares[i] : shares[i][m] - shares[i][o] <= 1
      /\ \A m : LegCostOf(shares, m) \in Int
  BY <1>1, <1>2, <1>4, SharesOfThePlan
<1>6. row = [version |-> version, rule |-> rule, policy |-> v, status |-> "CURRENT",
             legs |-> legs, shares |-> shares, fares |-> fares, totals |-> Totals(legs, fares)]
  BY DEF Calculation, Shared, Row
<1> HIDE DEF row, legs, shares
<1>7. /\ IsRow(row) /\ row.version = version /\ row.status = "CURRENT" /\ row.policy = v
      /\ row.legs = legs /\ row.shares = shares /\ row.fares = fares
  BY <1>6 DEF IsRow
<1>8. OwnLegs(row, plan.stops)
  BY <1>5, <1>7 DEF OwnLegs
<1>9. DOMAIN fares = MembersOf(plan.stops)
  BY DEF Fares
<1>10. ASSUME NEW m \in MembersOf(plan.stops)
       PROVE  LET cap == PreviousCap(p, version, m)
              IN  /\ Fair(fares[m], solo[m], Policies[v].minimum)
                  /\ cap # NoCap => fares[m].final <= cap
  <2> DEFINE cap == PreviousCap(p, version, m)
             f == PassengerFare(Policies[v], LegCostOf(shares, m), solo[m], cap)
  <2>1. fares[m] = f
    BY DEF Fares
  <2>2. FareRowAccepted(fares[m])
    BY <1>3, <1>7, <1>9 DEF ChecksAccept
  <2>3. LegCostOf(shares, m) \in Int /\ solo[m] \in Nat /\ cap \in Nat \cup {NoCap}
    BY <1>5
  <2> HIDE DEF cap, fares
  <2>4. Fair(f, solo[m], Policies[v].minimum) /\ (cap # NoCap => f.final <= cap)
    BY <2>1, <2>2, <2>3, <1>2, PassengerFareIsFair
  <2> QED BY <2>1, <2>4 DEF cap
<1>11. MembersOf(plan.stops) \subseteq Rides
  BY <1>4, MembersAreFinite
<1> HIDE DEF fares
<1>12. Bounded(row, solo)
  BY <1>7, <1>9, <1>10, <1>11 DEF Bounded
<1>13. Answers(row, p, plan, version)
  BY <1>1, <1>3, <1>7, <1>8, <1>9, <1>10, <1>12 DEF Answers
<1> QED BY <1>3, <1>13

-----------------------------------------------------------------------------
(* The plans the actions make, and the states the program starts in. *)
(* A stop put into a plan at i moves the later ones up by one ... *)
LEMMA InsertedAt ==
  ASSUME NEW s \in Seq(Stops), NEW i \in 1..(Len(s) + 1), NEW e \in Stops
  PROVE  /\ InsertAt(s, i, e) \in Seq(Stops) /\ Len(InsertAt(s, i, e)) = Len(s) + 1
         /\ MembersOf(InsertAt(s, i, e)) = MembersOf(s) \cup {e.member}
         /\ \A k \in 1..(Len(s) + 1) :
              InsertAt(s, i, e)[k] = IF k < i THEN s[k] ELSE IF k = i THEN e ELSE s[k - 1]
<1> DEFINE n == Len(s)
           front == SubSeq(s, 1, i - 1)
           back == SubSeq(s, i, n)
           t == (front \o <<e>>) \o back
<1>1. n \in Nat /\ DOMAIN s = 1..n
  OBVIOUS
<1> HIDE DEF Stops
<1>2. front \in Seq(Stops) /\ Len(front) = i - 1 /\ \A k \in 1..(i - 1) : front[k] = s[k]
  BY <1>1
<1>3. /\ back \in Seq(Stops) /\ Len(back) = n + 1 - i
      /\ \A k \in 1..(n + 1 - i) : back[k] = s[i + k - 1]
  BY <1>1
<1>4. <<e>> \in Seq(Stops) /\ Len(<<e>>) = 1 /\ <<e>>[1] = e
  OBVIOUS
<1> HIDE DEF front, back
<1>5. /\ front \o <<e>> \in Seq(Stops) /\ Len(front \o <<e>>) = i
      /\ \A k \in 1..i : (front \o <<e>>)[k] = IF k < i THEN s[k] ELSE e
  <2> DEFINE one == <<e>>
  <2>1. one \in Seq(Stops) /\ Len(one) = 1 /\ one[1] = e
    BY <1>4
  <2> HIDE DEF one
  <2>2. /\ front \o one \in Seq(Stops) /\ Len(front \o one) = Len(front) + Len(one)
        /\ \A k \in 1..(Len(front) + Len(one)) : (front \o one)[k] =
              IF k <= Len(front) THEN front[k] ELSE one[k - Len(front)]
    BY <1>2, <2>1, ConcatProperties
  <2>3. Len(front) + Len(one) = i
    BY <1>1, <1>2, <2>1
  <2>4. ASSUME NEW k \in 1..i PROVE (front \o one)[k] = IF k < i THEN s[k] ELSE e
    <3>1. k < i => k <= i - 1 /\ k \in 1..(i - 1)
      BY <1>1
    <3>2. ~(k < i) => k = i /\ ~(k <= i - 1) /\ k - (i - 1) = 1
      BY <1>1
    <3>3. (front \o one)[k] = IF k <= i - 1 THEN front[k] ELSE one[k - (i - 1)]
      BY <1>2, <2>2, <2>3
    <3> QED BY <1>2, <2>1, <3>1, <3>2, <3>3
  <2> QED BY <2>2, <2>3, <2>4 DEF one
<1> DEFINE head == front \o <<e>>
<1> HIDE DEF head
<1>6. /\ t \in Seq(Stops) /\ Len(t) = n + 1
      /\ \A k \in 1..(n + 1) : t[k] = IF k <= i THEN head[k] ELSE back[k - i]
  <2>1. head \in Seq(Stops) /\ Len(head) = i
    BY <1>5 DEF head
  <2>2. /\ head \o back \in Seq(Stops) /\ Len(head \o back) = Len(head) + Len(back)
        /\ \A k \in 1..(Len(head) + Len(back)) : (head \o back)[k] =
              IF k <= Len(head) THEN head[k] ELSE back[k - Len(head)]
    BY <1>3, <2>1, ConcatProperties
  <2> QED BY <1>1, <1>3, <2>1, <2>2 DEF head
<1>7. \A k \in 1..(n + 1) : t[k] = IF k < i THEN s[k] ELSE IF k = i THEN e ELSE s[k - 1]
  <2> TAKE k \in 1..(n + 1)
  <2>1. CASE k <= i
    <3>1. k \in 1..i /\ (k < i \/ k = i)
      BY <2>1, <1>1
    <3>2. t[k] = head[k]
      BY <2>1, <1>6
    <3>3. head[k] = IF k < i THEN s[k] ELSE e
      BY <3>1, <1>5 DEF head
    <3> HIDE DEF t
    <3> QED BY <3>1, <3>2, <3>3
  <2>2. CASE k > i
    <3>1. k - i \in 1..(n + 1 - i) /\ i + (k - i) - 1 = k - 1
      BY <2>2, <1>1
    <3>2. back[k - i] = s[k - 1]
      BY <3>1, <1>3
    <3>3. t[k] = back[k - i]
      BY <2>2, <1>6
    <3>4. ~(k < i) /\ k # i
      BY <2>2, <1>1
    <3> HIDE DEF t
    <3> QED BY <3>2, <3>3, <3>4
  <2>3. k <= i \/ k > i
    BY <1>1
  <2> HIDE DEF t
  <2> QED BY <2>1, <2>2, <2>3
<1>8. InsertAt(s, i, e) = t
  BY DEF InsertAt, front, back
<1> HIDE DEF t
<1>9. DOMAIN t = 1..(n + 1)
  <2>1. DOMAIN t = 1..Len(t)
    BY <1>6, LenProperties
  <2> QED BY <2>1, <1>6
<1>10. MembersOf(t) = MembersOf(s) \cup {e.member}
  <2>1. ASSUME NEW k \in 1..(n + 1) PROVE t[k].member \in MembersOf(s) \cup {e.member}
    <3>1. k < i => k \in 1..n
      BY <1>1
    <3>2. k > i => k - 1 \in 1..n
      BY <1>1
    <3>3. t[k] = IF k < i THEN s[k] ELSE IF k = i THEN e ELSE s[k - 1]
      BY <1>7
    <3>4. k < i \/ k = i \/ k > i
      BY <1>1
    <3> QED BY <1>1, <3>1, <3>2, <3>3, <3>4 DEF MembersOf
  <2>2. ASSUME NEW k \in 1..n PROVE s[k].member \in MembersOf(t)
    <3>1. CASE k < i
      <4>1. k \in 1..(n + 1) /\ t[k] = s[k]
        BY <3>1, <1>1, <1>7
      <4> QED BY <4>1, <1>9 DEF MembersOf
    <3>2. CASE k >= i
      <4>1. k + 1 \in 1..(n + 1) /\ ~(k + 1 < i) /\ k + 1 # i /\ (k + 1) - 1 = k
        BY <3>2, <1>1
      <4>2. t[k + 1] = s[k]
        BY <4>1, <1>7
      <4> QED BY <4>1, <4>2, <1>9 DEF MembersOf
    <3> QED BY <3>1, <3>2, <1>1
  <2>3. e.member \in MembersOf(t)
    <3>1. i \in 1..(n + 1) /\ t[i] = e
      BY <1>1, <1>7
    <3> QED BY <3>1, <1>9 DEF MembersOf
  <2>4. MembersOf(t) \subseteq MembersOf(s) \cup {e.member}
    BY <2>1, <1>9 DEF MembersOf
  <2>5. MembersOf(s) \subseteq MembersOf(t)
    BY <2>2, <1>1 DEF MembersOf
  <2> QED BY <2>3, <2>4, <2>5
<1> QED BY <1>6, <1>7, <1>8, <1>10

(* ... and adds its member to the plan, and nobody else. *)
LEMMA Inserted ==
  ASSUME NEW s \in Seq(Stops), NEW i \in 1..(Len(s) + 1), NEW e \in Stops
  PROVE  /\ InsertAt(s, i, e) \in Seq(Stops) /\ Len(InsertAt(s, i, e)) = Len(s) + 1
         /\ MembersOf(InsertAt(s, i, e)) = MembersOf(s) \cup {e.member}
  BY InsertedAt

LEMMA NewStops ==
  ASSUME NEW r \in Rides
  PROVE  /\ <<Stop(r, TRUE), Stop(r, FALSE)>> \in Seq(Stops)
         /\ MembersOf(<<Stop(r, TRUE), Stop(r, FALSE)>>) = {r}
         /\ Stop(r, TRUE) \in Stops /\ Stop(r, FALSE) \in Stops
         /\ Stop(r, TRUE).member = r /\ Stop(r, FALSE).member = r
<1>1. /\ Stop(r, TRUE) \in Stops /\ Stop(r, FALSE) \in Stops
      /\ Stop(r, TRUE).member = r /\ Stop(r, FALSE).member = r
  BY DEF Stop, Stops
<1> DEFINE s == <<Stop(r, TRUE), Stop(r, FALSE)>>
<1>2. s \in Seq(Stops) /\ DOMAIN s = {1, 2} /\ s[1] = Stop(r, TRUE) /\ s[2] = Stop(r, FALSE)
  <2> DEFINE a == Stop(r, TRUE)
             b == Stop(r, FALSE)
  <2>1. a \in Stops /\ b \in Stops /\ s = <<a, b>>
    BY <1>1
  <2> HIDE DEF Stops, a, b, s
  <2>2. s \in Seq(Stops) /\ Len(s) = 2 /\ s[1] = a /\ s[2] = b
    BY <2>1
  <2>3. DOMAIN s = 1..2
    BY <2>2, LenProperties
  <2> QED BY <2>2, <2>3 DEF a, b
<1> HIDE DEF s
<1>3. MembersOf(s) = {r}
  BY <1>1, <1>2 DEF MembersOf
<1> QED BY <1>1, <1>2, <1>3 DEF s

(* The first plan of a pool. *)
LEMMA UnpricedIsPlan ==
  ASSUME NEW r \in Rides
  PROVE  /\ IsPlan(Unpriced(r)) /\ Unpriced(r).status = "FORMING" /\ Unpriced(r).version = 1
         /\ MembersOf(Unpriced(r).stops) = {r}
<1> DEFINE s == <<Stop(r, TRUE), Stop(r, FALSE)>>
<1>1. s \in Seq(Stops) /\ MembersOf(s) = {r}
  BY NewStops
<1>2. Unpriced(r) = [status |-> "FORMING", version |-> 1, stops |-> s]
  BY DEF Unpriced
<1> HIDE DEF s
<1> QED BY <1>1, <1>2 DEF IsPlan

(* A pool without rows. *)
LEMMA NothingPriced ==
  ASSUME NEW plan, IsPlan(plan), NEW accepted,
         plan = NoPool \/ (plan.status = "FORMING" /\ plan.version = 1),
         \A m \in MembersOf(plan.stops) : accepted[m] \in Nat
  PROVE  Good(plan, << >>, accepted)
<1> DEFINE s == << >>
<1>1. Len(s) = 0 /\ DOMAIN s = {} /\ s \in Seq(Range(s))
  OBVIOUS
<1> HIDE DEF s
<1>2. AreRows(s)
  BY <1>1 DEF AreRows
<1>3. 1..0 = {}
  OBVIOUS
<1>4. Follow(s, plan) /\ Capped(s, accepted)
  BY <1>1, <1>3 DEF Follow, Capped, NoPool
<1> QED BY <1>2, <1>4 DEF Good, s

LEMMA NoPoolIsPlan == IsPlan(NoPool) /\ MembersOf(NoPool.stops) = {} /\ NoPool.version = 0
<1>1. << >> \in Seq(Stops)
  OBVIOUS
<1> QED BY <1>1 DEF IsPlan, NoPool, MembersOf

(* Pools older than the shared fares have one passenger and no row. *)
LEMMA InitInductive == Init => Inductive
<1> SUFFICES ASSUME Init PROVE Inductive
  OBVIOUS
<1>1. /\ quote = [r \in Rides |-> NoQuote] /\ rows = [p \in Pools |-> << >>]
      /\ solo = [r \in Rides |-> OldFare[r]]
  BY DEF Init
<1>2. \A r \in Rides : /\ OldFare[r] \in Nat \cup {NoFare}
                       /\ OldPool[r] \in Pools => OldFare[r] \in Nat
  BY PoolFaresAssumption DEF NoFare
<1>3. solo \in [Rides -> Nat \cup {NoFare}]
  BY <1>1, <1>2
<1> DEFINE Of(p) == CHOOSE r \in Rides : OldPool[r] = p
           Old(p) == \E r \in Rides : OldPool[r] = p
<1>4. pool = [p \in Pools |-> IF Old(p) THEN Unpriced(Of(p)) ELSE NoPool]
  BY DEF Init
<1>5. \A p \in Pools : Old(p) => Of(p) \in Rides /\ OldPool[Of(p)] = p
  OBVIOUS
<1> HIDE DEF Of, Old
<1>6. Domains
  BY <1>1, <1>3, <1>4 DEF Domains
<1>7. ASSUME NEW p \in Pools
      PROVE  /\ Good(pool[p], rows[p], solo)
             /\ \A m \in MembersOf(pool[p].stops) : Old(p) /\ m = Of(p)
  <2>1. CASE Old(p)
    <3> DEFINE r == Of(p)
    <3>1. r \in Rides /\ solo[r] \in Nat /\ pool[p] = Unpriced(r) /\ rows[p] = << >>
      BY <1>1, <1>2, <1>4, <1>5, <2>1
    <3> HIDE DEF r
    <3>2. Good(pool[p], rows[p], solo) /\ MembersOf(pool[p].stops) = {r}
      BY <3>1, UnpricedIsPlan, NothingPriced
    <3> QED BY <2>1, <3>2 DEF r
  <2>2. CASE ~Old(p)
    <3>1. pool[p] = NoPool /\ rows[p] = << >>
      BY <1>1, <1>4, <2>2
    <3> QED BY <3>1, NoPoolIsPlan, NothingPriced
  <2> QED BY <2>1, <2>2
<1>8. PoolsAreApart
  BY <1>5, <1>7 DEF PoolsAreApart
<1> QED BY <1>6, <1>7, <1>8 DEF Inductive, PoolsAreGood

-----------------------------------------------------------------------------
(* Every action keeps it. *)

(* What a pool is owed by the accepted fares of its members stays as it is. *)
LEMMA GoodStays ==
  ASSUME NEW plan, NEW s, NEW accepted, Good(plan, s, accepted), NEW later,
         \A r \in Rides : accepted[r] \in Nat => later[r] = accepted[r]
  PROVE  Good(plan, s, later)
<1>1. MembersOf(plan.stops) \subseteq Rides
  BY MembersAreFinite DEF Good, IsPlan
<1>2. \A i \in 1..Len(s) : Bounded(s[i], later)
  BY DEF Good, Capped, Bounded
<1>3. Capped(s, later)
  BY <1>2 DEF Good, Capped
<1>4. \A m \in MembersOf(plan.stops) : later[m] \in Nat
  BY <1>1 DEF Good
<1> QED BY <1>3, <1>4 DEF Good

LEMMA QuoteKeeps ==
  ASSUME Inductive, NEW r \in Rides, NEW departure, Quote(r, departure)
  PROVE  Inductive'
<1> DEFINE effective == EffectiveAt(Policies, departure)
           rush == departure \in Rush
           p == Policies[CHOOSE v \in effective : TRUE]
           final == SoloFare(p, Route[rush][<<From[r], To[r]>>], rush).final
<1>1. UNCHANGED <<solo, pool, rows>>
  BY DEF Quote
<1>2. CASE quote' = quote
  BY <1>1, <1>2 DEF Inductive, Domains, PoolsAreGood, PoolsAreApart
<1>3. CASE quote' # quote
  <2>1. /\ Cardinality(effective) = 1
        /\ quote' = [quote EXCEPT ![r] = [fare |-> final, expires |-> now + p.ttl]]
    BY <1>3 DEF Quote
  <2>2. effective # {}
    BY <2>1, FS_EmptySet
  <2>3. ReadablePolicy(p)
    <3>1. \A v \in effective : v \in DOMAIN Policies
      BY DEF EffectiveAt
    <3> HIDE DEF effective
    <3> QED BY <2>2, <3>1, PoliciesAssumption
  <2>4. rush \in BOOLEAN /\ From[r] # To[r]
    BY PoolFaresAssumption
  <2>5. ReadableLegs(Route[rush][<<From[r], To[r]>>])
    <3> HIDE DEF rush
    <3> QED BY <2>4, RouteAssumption
  <2>6. final \in Nat
    <3> HIDE DEF p, rush
    <3> QED BY <2>3, <2>5, SoloFareType
  <2> HIDE DEF final, p
  <2>7. /\ quote' = [o \in Rides |-> quote'[o]]
        /\ \A o \in Rides : quote'[o] = NoQuote \/ quote'[o].fare \in Nat
    <3>1. PICK q : q = [fare |-> final, expires |-> now + p.ttl]
      OBVIOUS
    <3>2. q.fare \in Nat
      BY <2>6, <3>1
    <3>3. quote' = [quote EXCEPT ![r] = q]
      BY <2>1, <3>1
    <3> QED BY <3>2, <3>3 DEF Inductive, Domains
  <2> QED BY <1>1, <2>7 DEF Inductive, Domains, PoolsAreGood, PoolsAreApart
<1> QED BY <1>2, <1>3

(* A fare is accepted once, before its ride is in a pool. *)
LEMMA AcceptQuoteKeeps ==
  ASSUME Inductive, NEW r \in Rides, AcceptQuote(r)
  PROVE  Inductive'
<1>1. /\ solo' = [solo EXCEPT ![r] = quote[r].fare] /\ quote' = [quote EXCEPT ![r] = NoQuote]
      /\ UNCHANGED <<pool, rows>> /\ quote[r] # NoQuote /\ solo[r] = NoFare
  BY DEF AcceptQuote
<1>2. quote[r].fare \in Nat
  BY <1>1 DEF Inductive, Domains
<1>3. Domains'
  BY <1>1, <1>2 DEF Inductive, Domains
<1>4. \A o \in Rides : solo[o] \in Nat => solo'[o] = solo[o]
  BY <1>1 DEF Inductive, Domains, NoFare
<1>5. ASSUME NEW p \in Pools PROVE Good(pool[p], rows[p], solo')
  <2>1. Good(pool[p], rows[p], solo)
    BY DEF Inductive, PoolsAreGood
  <2> QED BY <2>1, <1>4, GoodStays
<1> QED BY <1>1, <1>3, <1>5 DEF Inductive, PoolsAreGood, PoolsAreApart

(* One pool and its rows change, and stay good. *)
LEMMA OnePoolChanges ==
  ASSUME Inductive, NEW p \in Pools, NEW plan, NEW s,
         pool' = [pool EXCEPT ![p] = plan], rows' = [rows EXCEPT ![p] = s],
         UNCHANGED <<quote, solo>>, Good(plan, s, solo),
         \A m \in MembersOf(plan.stops), o \in Pools :
           o # p => m \notin MembersOf(pool[o].stops)
  PROVE  Inductive'
<1>1. /\ \A o \in Pools : pool'[o] = IF o = p THEN plan ELSE pool[o]
      /\ \A o \in Pools : rows'[o] = IF o = p THEN s ELSE rows[o]
      /\ pool' = [o \in Pools |-> pool'[o]] /\ rows' = [o \in Pools |-> rows'[o]]
  BY DEF Inductive, Domains
<1>2. Domains'
  BY <1>1 DEF Inductive, Domains
<1>3. PoolsAreGood'
  BY <1>1 DEF Inductive, PoolsAreGood
<1>4. PoolsAreApart'
  <2>1. ASSUME NEW a \in Pools, NEW b \in Pools, a # b
        PROVE  MembersOf(pool'[a].stops) \cap MembersOf(pool'[b].stops) = {}
    <3>1. CASE a = p
      BY <1>1, <2>1, <3>1
    <3>2. CASE b = p
      BY <1>1, <2>1, <3>2
    <3>3. CASE a # p /\ b # p
      BY <1>1, <2>1, <3>3 DEF Inductive, PoolsAreApart
    <3> QED BY <3>1, <3>2, <3>3
  <2> QED BY <2>1 DEF PoolsAreApart
<1> QED BY <1>2, <1>3, <1>4 DEF Inductive

(* What is not priced leaves the rows alone. *)
LEMMA NotPriced ==
  ASSUME NEW p, NEW plan, NEW version, Pricing(p, plan, version).how # "priced"
  PROVE  Pricing(p, plan, version).rows = rows[p]
<1> DEFINE effective == EffectiveAt(Policies, now)
           row == Calculation(p, plan.stops, version, CHOOSE v \in effective : TRUE)
<1>1. Stored(p, Superseded(p, version), row).how # "priced" =>
        Stored(p, Superseded(p, version), row).rows = rows[p]
  <2> HIDE DEF row
  <2> QED BY DEF Stored, Refused
<1>2. \A how : Refused(p, how).rows = rows[p]
  BY DEF Refused
<1> QED BY <1>1, <1>2 DEF Pricing

(* A new plan of a pool that has not left keeps the pool good, priced or not. *)
LEMMA ChangePlanKeeps ==
  ASSUME Inductive, NEW p \in Pools, pool[p].status # "DEPARTED",
         NEW plan, IsPlan(plan), plan.version = pool[p].version + 1,
         MembersOf(pool[p].stops) \subseteq MembersOf(plan.stops),
         \A m \in MembersOf(plan.stops) : solo[m] \in Nat,
         \A m \in MembersOf(plan.stops), o \in Pools :
           o # p => m \notin MembersOf(pool[o].stops),
         ChangePlan(p, plan)
  PROVE  Inductive'
<1> DEFINE version == pool[p].version + 1
           s == rows[p]
           n == Len(s)
           others == Superseded(p, version)
<1>1. UNCHANGED <<quote, solo>>
  BY DEF ChangePlan
<1>2. CASE Pricing(p, plan, plan.version).how # "priced"
  <2>1. UNCHANGED <<pool, rows>>
    BY <1>2 DEF ChangePlan
  <2> QED BY <1>1, <2>1 DEF Inductive, Domains, PoolsAreGood, PoolsAreApart
<1>3. CASE Pricing(p, plan, plan.version).how = "priced"
  <2>1. /\ pool' = [pool EXCEPT ![p] = plan]
        /\ rows' = [rows EXCEPT ![p] = Pricing(p, plan, version).rows]
    BY <1>3 DEF ChangePlan
  <2>2. Good(pool[p], s, solo)
    BY DEF Inductive, PoolsAreGood
  <2>3. /\ AreRows(s) /\ Follow(s, pool[p]) /\ IsPlan(pool[p]) /\ Capped(s, solo)
        /\ n \in Nat /\ pool[p].version \in Nat /\ version \in Nat
    BY <2>2, AreRowsType DEF Good, IsPlan
  <2>4. Previous(p, version) = n
    BY <2>3, OlderRows
  <2>5. \A m : PreviousCap(p, version, m) \in Nat \cup {NoCap}
    <3>1. Previous(p, version) \in 0..n
      BY <2>3, <2>4
    <3> QED BY <2>3, <3>1, CapsAreFares
  <2>6. PICK row : /\ Pricing(p, plan, version).rows = Append(others, row)
                   /\ Answers(row, p, plan, version)
    BY <1>3, <2>3, <2>5, PricingWrites
  <2>7. /\ AreRows(others) /\ Len(others) = n
        /\ \A i \in 1..n : Alike(others[i], s[i]) /\ others[i].status = "SUPERSEDED"
    BY <2>3, SupersededForNewPlan
  <2>8. n # 0 => \A m \in DOMAIN row.fares :
                   m \in DOMAIN s[n].fares => row.fares[m].final <= s[n].fares[m].final
    <3> SUFFICES ASSUME n # 0, NEW m \in DOMAIN row.fares, m \in DOMAIN s[n].fares
                 PROVE  row.fares[m].final <= s[n].fares[m].final
      OBVIOUS
    <3>1. PreviousCap(p, version, m) = s[n].fares[m].final
      BY <2>4 DEF PreviousCap
    <3>2. n \in 1..n
      BY <2>3
    <3>3. s[n].fares[m].final \in Nat
      BY <2>3, <3>2 DEF Capped, Bounded, Fair
    <3>4. PreviousCap(p, version, m) # NoCap
      BY <3>1, <3>3 DEF NoCap
    <3> QED BY <2>6, <3>1, <3>4 DEF Answers
  <2> HIDE DEF version, others, s, n
  <2>9. /\ plan.status = "FORMING" /\ IsRow(row) /\ row.version = version
        /\ row.status = "CURRENT" /\ DOMAIN row.fares = MembersOf(plan.stops)
        /\ Bounded(row, solo) /\ OwnLegs(row, plan.stops)
    BY <2>6 DEF Answers
  <2>10. version = plan.version /\ pool[p].version < plan.version
    BY <2>3 DEF version
  <2>11. Good(plan, Append(others, row), solo)
    BY <2>2, <2>7, <2>8, <2>9, <2>10, AnswerIsGood DEF n
  <2>12. rows' = [rows EXCEPT ![p] = Append(others, row)]
    BY <2>1, <2>6
  <2> QED BY <1>1, <2>1, <2>11, <2>12, OnePoolChanges
<1> QED BY <1>2, <1>3

LEMMA FreeRider ==
  ASSUME Inductive, NEW r \in Rides, Free(r)
  PROVE  solo[r] \in Nat /\ \A p \in Pools : r \notin MembersOf(pool[p].stops)
  BY DEF Inductive, Domains, Free

LEMMA OpenPoolKeeps ==
  ASSUME Inductive, NEW p \in Pools, NEW r \in Rides, OpenPool(p, r)
  PROVE  Inductive'
<1> DEFINE plan == Unpriced(r)
<1>1. pool[p] = NoPool /\ Free(r) /\ ChangePlan(p, plan)
  BY DEF OpenPool
<1>2. solo[r] \in Nat /\ \A o \in Pools : r \notin MembersOf(pool[o].stops)
  BY <1>1, FreeRider
<1>3. IsPlan(plan) /\ plan.version = 1 /\ MembersOf(plan.stops) = {r}
  BY UnpricedIsPlan
<1>4. pool[p].version = 0 /\ pool[p].status # "DEPARTED" /\ MembersOf(pool[p].stops) = {}
  BY <1>1, NoPoolIsPlan DEF NoPool
<1> HIDE DEF plan
<1> QED BY <1>1, <1>2, <1>3, <1>4, ChangePlanKeeps

LEMMA JoinKeeps ==
  ASSUME Inductive, NEW p \in Pools, NEW r \in Rides,
         NEW i \in 1..(Len(pool[p].stops) + 2), NEW j \in 1..(Len(pool[p].stops) + 2),
         Join(p, r, i, j)
  PROVE  Inductive'
<1> DEFINE stops == pool[p].stops
           one == InsertAt(stops, i, Stop(r, TRUE))
           two == InsertAt(one, j, Stop(r, FALSE))
           plan == [status |-> pool[p].status, version |-> pool[p].version + 1, stops |-> two]
<1>1. /\ pool[p].status = "FORMING" /\ Free(r) /\ i < j /\ i <= Len(stops) + 1
      /\ j <= Len(stops) + 2 /\ ChangePlan(p, plan)
  BY DEF Join
<1>2. IsPlan(pool[p]) /\ Good(pool[p], rows[p], solo)
  BY DEF Inductive, PoolsAreGood, Good
<1>3. stops \in Seq(Stops) /\ Len(stops) \in Nat /\ pool[p].version \in Nat
  BY <1>2 DEF IsPlan
<1>4. Stop(r, TRUE) \in Stops /\ Stop(r, FALSE) \in Stops
      /\ Stop(r, TRUE).member = r /\ Stop(r, FALSE).member = r
  BY NewStops
<1>5. i \in 1..(Len(stops) + 1)
  BY <1>1, <1>3
<1> HIDE DEF stops
<1>6. one \in Seq(Stops) /\ Len(one) = Len(stops) + 1 /\ MembersOf(one) = MembersOf(stops) \cup {r}
  BY <1>3, <1>4, <1>5, Inserted
<1> HIDE DEF one
<1>7. j \in 1..(Len(one) + 1)
  <2>1. i \in Nat /\ j \in Nat /\ j >= 1 /\ j <= Len(stops) + 2
    BY <1>1, <1>3 DEF stops
  <2> QED BY <2>1, <1>3, <1>6
<1>8. two \in Seq(Stops) /\ MembersOf(two) = MembersOf(stops) \cup {r}
  <2>1. two \in Seq(Stops) /\ MembersOf(two) = MembersOf(one) \cup {Stop(r, FALSE).member}
    BY <1>4, <1>6, <1>7, Inserted
  <2> QED BY <2>1, <1>4, <1>6
<1> HIDE DEF two
<1>9. /\ IsPlan(plan) /\ plan.version = pool[p].version + 1
      /\ MembersOf(plan.stops) = MembersOf(stops) \cup {r}
  BY <1>1, <1>3, <1>8 DEF IsPlan
<1>10. solo[r] \in Nat /\ \A o \in Pools : r \notin MembersOf(pool[o].stops)
  BY <1>1, FreeRider
<1>11. \A m \in MembersOf(stops) : solo[m] \in Nat
  BY <1>2 DEF Good, stops
<1>12. \A m \in MembersOf(stops), o \in Pools : o # p => m \notin MembersOf(pool[o].stops)
  BY DEF Inductive, PoolsAreApart, stops
<1> HIDE DEF plan
<1>13. MembersOf(pool[p].stops) \subseteq MembersOf(plan.stops)
  BY <1>9 DEF stops
<1> QED BY <1>1, <1>9, <1>10, <1>11, <1>12, <1>13, ChangePlanKeeps

(* The current answer is settled, with the plan it was priced for. *)
LEMMA DepartKeeps ==
  ASSUME Inductive, NEW p \in Pools, Depart(p)
  PROVE  Inductive'
<1> DEFINE s == rows[p]
           n == Len(s)
           current == {i \in DOMAIN s : s[i].status = "CURRENT"}
           settled == {i \in DOMAIN s : s[i].status = "FINALIZED"}
           t == [i \in DOMAIN s |->
                   IF i \in current THEN [s[i] EXCEPT !.status = "FINALIZED"] ELSE s[i]]
           plan == [pool[p] EXCEPT !.status = "DEPARTED"]
<1>1. UNCHANGED <<quote, solo>> /\ pool[p].status = "FORMING"
  BY DEF Depart
<1>2. Good(pool[p], s, solo)
  BY DEF Inductive, PoolsAreGood
<1>3. /\ n \in Nat /\ DOMAIN s = 1..n /\ (\A i \in 1..n : IsRow(s[i]))
      /\ Follow(s, pool[p]) /\ IsPlan(pool[p])
  BY <1>2, AreRowsType DEF Good
<1>4. CASE current \cup settled = {}
  <2>1. UNCHANGED <<pool, rows>>
    BY <1>4 DEF Depart
  <2> QED BY <1>1, <2>1 DEF Inductive, Domains, PoolsAreGood, PoolsAreApart
<1>5. CASE current \cup settled # {}
  <2>1. rows' = [rows EXCEPT ![p] = t]
    BY <1>5 DEF Depart
  <2>2. pool' = [pool EXCEPT ![p].status = "DEPARTED"]
    BY <1>5 DEF Depart
  <2>3. PICK d : d = [pool[p] EXCEPT !.status = "DEPARTED"]
    OBVIOUS
  <2>4. pool' = [pool EXCEPT ![p] = d]
    BY <2>2, <2>3, Zenon
  <2>5. IsPlan(d) /\ d.status = "DEPARTED" /\ d.version = pool[p].version /\ d.stops = pool[p].stops
    <3>1. PICK a, v, q : /\ pool[p] = [status |-> a, version |-> v, stops |-> q]
                         /\ v \in Nat /\ q \in Seq(Stops)
      BY <1>3 DEF IsPlan
    <3>2. d = [status |-> "DEPARTED", version |-> v, stops |-> q]
      BY <2>3, <3>1
    <3> QED BY <3>1, <3>2 DEF IsPlan
  <2>6. n # 0
    BY <1>3, <1>5
  <2>7. n \in 1..n /\ s[n].status = "CURRENT" /\ \A i \in 1..n : i # n => s[i].status = "SUPERSEDED"
    BY <1>1, <1>3, <2>6 DEF Follow
  <2>8. current = {n}
    BY <1>3, <2>7
  <2>9. DOMAIN t = 1..n /\ \A i \in 1..n : i # n => t[i] = s[i]
    BY <1>3, <2>8
  <2>10. t[n] = [s[n] EXCEPT !.status = "FINALIZED"]
    BY <1>3, <2>7, <2>8
  <2>11. t = [i \in 1..n |-> t[i]]
    BY <1>3
  <2>12. IsRow(t[n]) /\ Alike(t[n], s[n]) /\ t[n].status = "FINALIZED"
    <3>1. IsRow(s[n])
      BY <1>3, <2>7
    <3> HIDE DEF s, t, n
    <3> QED BY <2>10, <3>1, StatusOnly DEF Alike
  <2> HIDE DEF t, s, current, settled
  <2>13. \A i \in 1..n : IsRow(t[i]) /\ Alike(t[i], s[i])
    BY <1>3, <2>9, <2>12 DEF Alike
  <2> HIDE DEF n
  <2>14. AreRows(t) /\ Len(t) = n
    BY <1>3, <2>11, <2>13, RowsFrom
  <2>15. Good(d, t, solo)
    BY <1>2, <2>5, <2>6, <2>7, <2>9, <2>12, <2>13, <2>14, SettledIsGood DEF n
  <2>16. \A m \in MembersOf(d.stops), o \in Pools : o # p => m \notin MembersOf(pool[o].stops)
    BY <2>5 DEF Inductive, PoolsAreApart
  <2> QED BY <1>1, <2>1, <2>4, <2>15, <2>16, OnePoolChanges
<1> QED BY <1>4, <1>5

(* The repair prices a pool that has no answer, and no other. *)
LEMMA RepairNextKeeps ==
  ASSUME Inductive, RepairNext
  PROVE  Inductive'
<1>0. PICK next \in sweep :
        /\ rows' = [rows EXCEPT ![next.pool] =
                      Pricing(next.pool, pool[next.pool], next.version).rows]
        /\ UNCHANGED <<quote, solo, pool>>
  BY DEF RepairNext
<1> DEFINE p == next.pool
           version == next.version
           plan == pool[p]
<1>1. /\ rows' = [rows EXCEPT ![p] = Pricing(p, plan, version).rows]
      /\ UNCHANGED <<quote, solo, pool>>
  BY <1>0
<1> HIDE DEF p, version
<1>2. CASE p \notin Pools \/ Pricing(p, plan, version).how # "priced"
  <2>1. rows' = rows
    <3>1. p \in Pools => Pricing(p, plan, version).rows = rows[p]
      BY <1>2, NotPriced
    <3> DEFINE t == Pricing(p, plan, version).rows
    <3>2. rows = [o \in Pools |-> rows[o]] /\ (p \in Pools => t = rows[p])
      BY <3>1 DEF Inductive, Domains
    <3>3. rows' = [rows EXCEPT ![p] = t]
      BY <1>1
    <3> HIDE DEF t
    <3> QED BY <3>2, <3>3
  <2> QED BY <1>1, <2>1 DEF Inductive, Domains, PoolsAreGood, PoolsAreApart
<1>3. CASE p \in Pools /\ Pricing(p, plan, version).how = "priced"
  <2> DEFINE s == rows[p]
             n == Len(s)
  <2>1. version = plan.version
    BY <1>3 DEF Pricing, Refused
  <2>2. Good(plan, s, solo)
    BY <1>3 DEF Inductive, PoolsAreGood
  <2>3. /\ AreRows(s) /\ Follow(s, plan) /\ IsPlan(plan) /\ Capped(s, solo)
        /\ n \in Nat /\ version \in Nat /\ \A m \in MembersOf(plan.stops) : solo[m] \in Nat
    BY <2>1, <2>2, AreRowsType DEF Good, IsPlan
  <2>4. /\ n = 0 => Previous(p, version) = 0
        /\ n # 0 => Previous(p, version) = n - 1
    BY <2>1, <2>3, OlderRows
  <2>5. \A m : PreviousCap(p, version, m) \in Nat \cup {NoCap}
    <3>1. Previous(p, version) \in 0..n
      BY <2>3, <2>4
    <3> QED BY <2>3, <3>1, CapsAreFares
  <2>6. Superseded(p, version) = s
    BY <2>1, <2>3, SupersededForSamePlan
  <2>7. PICK row : /\ Pricing(p, plan, version).rows = Append(s, row)
                   /\ Answers(row, p, plan, version)
    BY <1>3, <2>3, <2>5, <2>6, PricingWrites
  <2>8. n = 0
    <3>1. SUFFICES ASSUME n # 0 PROVE FALSE
      OBVIOUS
    <3>2. n \in DOMAIN s /\ s[n].status = "CURRENT"
      BY <2>3, <2>7, <3>1, AreRowsType DEF Follow, Answers
    <3>3. ~Collides(s, row)
      BY <2>6, <2>7 DEF Answers
    <3> HIDE DEF s, n
    <3> QED BY <3>2, <3>3 DEF Collides
  <2>9. /\ plan.status = "FORMING" /\ IsRow(row) /\ row.version = plan.version
        /\ row.status = "CURRENT" /\ DOMAIN row.fares = MembersOf(plan.stops)
        /\ Bounded(row, solo) /\ OwnLegs(row, plan.stops)
    BY <2>1, <2>7 DEF Answers
  <2>10. 1..n = {}
    BY <2>8
  <2> HIDE DEF plan, s, n
  <2>11. Good(plan, Append(s, row), solo)
    BY <2>2, <2>3, <2>8, <2>9, <2>10, AnswerIsGood DEF n
  <2>12. pool' = [pool EXCEPT ![p] = plan]
    BY <1>1, <1>3 DEF Inductive, Domains, plan
  <2>13. rows' = [rows EXCEPT ![p] = Append(s, row)]
    BY <1>1, <2>7
  <2>14. \A m \in MembersOf(plan.stops), o \in Pools : o # p => m \notin MembersOf(pool[o].stops)
    BY <1>3 DEF Inductive, PoolsAreApart, plan
  <2> QED BY <1>1, <1>3, <2>11, <2>12, <2>13, <2>14, OnePoolChanges
<1> QED BY <1>2, <1>3

LEMMA NextKeeps == Inductive /\ [Next]_vars => Inductive'
<1> SUFFICES ASSUME Inductive, [Next]_vars PROVE Inductive'
  OBVIOUS
<1>1. ASSUME NEW r \in Rides, NEW d \in 0..LastInstant, Quote(r, d) PROVE Inductive'
  BY <1>1, QuoteKeeps
<1>2. ASSUME NEW r \in Rides, AcceptQuote(r) PROVE Inductive'
  BY <1>2, AcceptQuoteKeeps
<1>3. ASSUME NEW p \in Pools, NEW r \in Rides, OpenPool(p, r) PROVE Inductive'
  BY <1>3, OpenPoolKeeps
<1>4. ASSUME NEW p \in Pools, NEW r \in Rides,
             NEW i \in 1..(Len(pool[p].stops) + 2), NEW j \in 1..(Len(pool[p].stops) + 2),
             Join(p, r, i, j)
      PROVE  Inductive'
  BY <1>4, JoinKeeps
<1>5. ASSUME NEW p \in Pools, Depart(p) PROVE Inductive'
  BY <1>5, DepartKeeps
<1>6. CASE RepairNext
  BY <1>6, RepairNextKeeps
<1>7. CASE UNCHANGED <<quote, solo, pool, rows>>
  BY <1>7 DEF Inductive, Domains, PoolsAreGood, PoolsAreApart
<1>8. StartRepair \/ Tick \/ Release \/ UNCHANGED vars => UNCHANGED <<quote, solo, pool, rows>>
  BY DEF StartRepair, Tick, Release, vars
<1> QED BY <1>1, <1>2, <1>3, <1>4, <1>5, <1>6, <1>7, <1>8 DEF Next

(* The inductive invariant of the fares: the rows of every pool follow its *)
(* plan version by version, every fare keeps its caps, and no ride is in two *)
(* pools.                                                                  *)
THEOREM InductiveHolds == Spec => []Inductive
<1>1. Inductive /\ [Next]_vars => Inductive'
  BY NextKeeps
<1> QED BY <1>1, InitInductive, PTL DEF Spec

-----------------------------------------------------------------------------
(* What a passenger is shown is their fare in the pool's newest row. *)
LEMMA TheNewestIsShown ==
  ASSUME Inductive, NEW p \in Pools, Len(rows[p]) # 0, NEW m \in MembersOf(pool[p].stops)
  PROVE  ShownFare(m) = rows[p][Len(rows[p])].fares[m].final
<1> DEFINE mine == {o \in Pools : m \in MembersOf(pool[o].stops)}
           q == CHOOSE o \in mine : TRUE
           s == rows[q]
           n == Len(s)
           In(status) == {i \in DOMAIN s : s[i].status = status}
           shown == IF In("CURRENT") # {} THEN In("CURRENT") ELSE In("FINALIZED")
           newest == CHOOSE i \in shown : \A o \in shown : s[o].version <= s[i].version
<1>1. ShownFare(m) =
        IF mine = {} THEN NoFare
        ELSE IF shown = {} THEN NoFare
        ELSE IF ~RowOf(s[newest], m) THEN NoFare
        ELSE s[newest].fares[m].final
  BY DEF ShownFare
<1>2. mine = {p}
  BY DEF Inductive, PoolsAreApart
<1> HIDE DEF mine
<1>3. q = p
  BY <1>2
<1> HIDE DEF q
<1>4. AreRows(s) /\ Follow(s, pool[p]) /\ n # 0
  BY <1>3 DEF Inductive, PoolsAreGood, Good
<1> HIDE DEF s
<1>5. n \in Nat /\ DOMAIN s = 1..n /\ \A i \in 1..n : s[i].version \in Nat
  BY <1>4, AreRowsType DEF IsRow
<1>6. n \in 1..n
  <2> HIDE DEF n
  <2> QED BY <1>4, <1>5
<1>7. /\ \A i \in 1..n : i # n => s[i].status = "SUPERSEDED"
      /\ s[n].status \in {"CURRENT", "FINALIZED"}
      /\ m \in DOMAIN s[n].fares
  BY <1>4 DEF Follow
<1>8. shown = {n}
  <2> HIDE DEF n
  <2> QED BY <1>5, <1>6, <1>7
<1>9. newest = n
  <2> HIDE DEF n, shown
  <2> QED BY <1>5, <1>6, <1>8
<1> HIDE DEF n, shown, newest
<1>10. ShownFare(m) = s[n].fares[m].final
  BY <1>1, <1>2, <1>7, <1>8, <1>9 DEF RowOf
<1> QED BY <1>3, <1>10 DEF s, n

(* A pool has one answer at most, priced for the plan it has and shown to  *)
(* everybody in it.                                                        *)
THEOREM OneAnswerHolds == Spec => []OneAnswer
<1>1. Inductive => OneAnswer
  <2> SUFFICES ASSUME Inductive PROVE OneAnswer
    OBVIOUS
  <2>1. ASSUME NEW p \in Pools
        PROVE  LET n == Len(rows[p])
               IN  /\ \A i \in 1..(n - 1) : rows[p][i].status = "SUPERSEDED"
                   /\ \A i \in 1..(n - 1) : rows[p][i].version < rows[p][i + 1].version
                   /\ n > 0 => /\ rows[p][n].version = pool[p].version
                               /\ DOMAIN rows[p][n].fares = MembersOf(pool[p].stops)
                               /\ \A m \in MembersOf(pool[p].stops) :
                                    ShownFare(m) = rows[p][n].fares[m].final
                               /\ rows[p][n].status =
                                    IF pool[p].status = "FORMING" THEN "CURRENT" ELSE "FINALIZED"
                   /\ n = 0 => pool[p].status \in {"NONE", "FORMING"} /\ pool[p].version <= 1
    <3> DEFINE s == rows[p]
               n == Len(s)
    <3>1. Good(pool[p], s, solo)
      BY DEF Inductive, PoolsAreGood
    <3>2. n \in Nat /\ Follow(s, pool[p])
      BY <3>1, AreRowsType DEF Good
    <3>3. n > 0 => \A m \in MembersOf(pool[p].stops) : ShownFare(m) = s[n].fares[m].final
      BY TheNewestIsShown
    <3>4. \A i \in 1..(n - 1) : i \in 1..n /\ i + 1 \in 1..n /\ i # n /\ i < i + 1
      BY <3>2
    <3>5. \A i \in 1..(n - 1) : s[i].status = "SUPERSEDED" /\ s[i].version < s[i + 1].version
      BY <3>2, <3>4 DEF Follow
    <3>6. n = 0 => pool[p].status \in {"NONE", "FORMING"} /\ pool[p].version <= 1
      BY <3>2 DEF Follow, NoPool
    <3>7. n > 0 => n # 0
      BY <3>2
    <3> QED BY <3>2, <3>3, <3>5, <3>6, <3>7 DEF Follow
  <2> QED BY <2>1 DEF OneAnswer
<1> QED BY <1>1, InductiveHolds, PTL

(* No fare exceeds what the passenger accepted or was shown before, and a  *)
(* fare below the minimum is a cap paid in full.                           *)
THEOREM FaresStayInBoundsHolds == Spec => []FaresStayInBounds
<1>1. Inductive => FaresStayInBounds
  <2> SUFFICES ASSUME Inductive,
                      NEW p \in Pools, NEW j \in DOMAIN rows[p], NEW m \in DOMAIN rows[p][j].fares
               PROVE  LET f == rows[p][j].fares[m]
                      IN  /\ f.final <= solo[m]
                          /\ \A i \in 1..(j - 1) :
                               RowOf(rows[p][i], m) => f.final <= rows[p][i].fares[m].final
                          /\ f.final < Policies[rows[p][j].policy].minimum =>
                               f.final = f.solo \/ f.final = f.previous
    BY DEF FaresStayInBounds
  <2> DEFINE s == rows[p]
             n == Len(s)
  <2>1. AreRows(s) /\ Capped(s, solo)
    BY DEF Inductive, PoolsAreGood, Good
  <2>2. n \in Nat /\ DOMAIN s = 1..n
    BY <2>1, AreRowsType
  <2>3. Fair(s[j].fares[m], solo[m], Policies[s[j].policy].minimum)
    BY <2>1, <2>2 DEF Capped, Bounded
  <2>4. \A i \in 1..(j - 1) : i \in 1..n /\ i < j
    BY <2>2
  <2>5. \A i \in 1..(j - 1) : RowOf(s[i], m) => s[j].fares[m].final <= s[i].fares[m].final
    BY <2>1, <2>2, <2>4 DEF Capped, RowOf
  <2> QED BY <2>3, <2>5 DEF Fair
<1> QED BY <1>1, InductiveHolds, PTL

(* Every leg is paid by those aboard it, with shares one unit apart at most. *)
THEOREM PaysForOwnLegsHolds == Spec => []PaysForOwnLegs
<1>1. Inductive => PaysForOwnLegs
  <2> SUFFICES ASSUME Inductive, NEW p \in Pools, rows[p] # << >>
               PROVE  LET c == Last(rows[p])
                          stops == pool[p].stops
                      IN  \A i \in DOMAIN c.legs :
                            /\ DOMAIN c.shares[i] =
                                 {m \in MembersOf(stops) :
                                    /\ \E k \in 1..i : stops[k] = Stop(m, TRUE)
                                    /\ \A k \in 1..i : stops[k] # Stop(m, FALSE)}
                            /\ \A m, o \in DOMAIN c.shares[i] : c.shares[i][m] - c.shares[i][o] <= 1
    BY DEF PaysForOwnLegs
  <2>1. AreRows(rows[p]) /\ Follow(rows[p], pool[p])
    BY DEF Inductive, PoolsAreGood, Good
  <2>2. Len(rows[p]) # 0
    <3>1. rows[p] = [i \in 1..Len(rows[p]) |-> rows[p][i]] /\ Len(rows[p]) \in Nat
      BY <2>1, AreRowsType
    <3>2. Len(rows[p]) = 0 => rows[p] = << >>
      BY <2>1 DEF AreRows
    <3> QED BY <3>2
  <2>3. OwnLegs(Last(rows[p]), pool[p].stops)
    BY <2>1, <2>2 DEF Follow, Last
  <2> QED BY <2>3 DEF OwnLegs, Collected
<1> QED BY <1>1, InductiveHolds, PTL

(* The rows of a pool under way are never touched again. *)
THEOREM SettledForGoodHolds == Spec => SettledForGood
<1>1. ASSUME Inductive, [Next]_vars, NEW p \in Pools, pool[p].status = "DEPARTED"
      PROVE  rows'[p] = rows[p]
  <2>1. DOMAIN rows = Pools
    BY <1>1 DEF Inductive, Domains
  <2>2. ASSUME NEW o \in Pools, NEW r \in Rides, OpenPool(o, r) PROVE rows'[p] = rows[p]
    <3>1. o # p
      BY <1>1, <2>2 DEF OpenPool, NoPool
    <3>2. rows' = rows \/ \E s : rows' = [rows EXCEPT ![o] = s]
      BY <2>2 DEF OpenPool, ChangePlan
    <3> QED BY <2>1, <3>1, <3>2
  <2>3. ASSUME NEW o \in Pools, NEW r \in Rides,
               NEW i \in 1..(Len(pool[o].stops) + 2), NEW j \in 1..(Len(pool[o].stops) + 2),
               Join(o, r, i, j)
        PROVE  rows'[p] = rows[p]
    <3>1. o # p
      BY <1>1, <2>3 DEF Join
    <3>2. \E plan : ChangePlan(o, plan)
      BY <2>3 DEF Join
    <3>3. rows' = rows \/ \E s : rows' = [rows EXCEPT ![o] = s]
      BY <3>2 DEF ChangePlan
    <3> QED BY <2>1, <3>1, <3>3
  <2>4. ASSUME NEW o \in Pools, Depart(o) PROVE rows'[p] = rows[p]
    <3>1. o # p
      BY <1>1, <2>4 DEF Depart
    <3>2. rows' = rows \/ \E s : rows' = [rows EXCEPT ![o] = s]
      BY <2>4 DEF Depart
    <3> QED BY <2>1, <3>1, <3>2
  <2>5. ASSUME RepairNext PROVE rows'[p] = rows[p]
    <3>0. PICK next \in sweep :
            rows' = [rows EXCEPT ![next.pool] =
                      Pricing(next.pool, pool[next.pool], next.version).rows]
      BY <2>5 DEF RepairNext
    <3> DEFINE o == next.pool
               pricing == Pricing(o, pool[o], next.version)
    <3>1. rows' = [rows EXCEPT ![o] = pricing.rows]
      BY <3>0
    <3>2. o = p => pricing.how # "priced"
      BY <1>1 DEF Pricing, Refused
    <3>3. o = p => pricing.rows = rows[p]
      BY <3>2, NotPriced
    <3> HIDE DEF o, pricing
    <3> QED BY <2>1, <3>1, <3>3
  <2>6. ASSUME UNCHANGED rows PROVE rows'[p] = rows[p]
    BY <2>6
  <2>7. ASSUME NEW r \in Rides, NEW d \in 0..LastInstant, Quote(r, d) PROVE UNCHANGED rows
    BY <2>7 DEF Quote
  <2>8. ASSUME NEW r \in Rides, AcceptQuote(r) PROVE UNCHANGED rows
    BY <2>8 DEF AcceptQuote
  <2>9. StartRepair \/ Tick \/ Release \/ UNCHANGED vars => UNCHANGED rows
    BY DEF StartRepair, Tick, Release, vars
  <2> QED BY <1>1, <2>2, <2>3, <2>4, <2>5, <2>6, <2>7, <2>8, <2>9 DEF Next
<1>2. Inductive /\ [Next]_vars =>
        [\A p \in Pools : pool[p].status = "DEPARTED" => rows'[p] = rows[p]]_vars
  BY <1>1
<1> QED BY <1>2, InductiveHolds, PTL DEF Spec, SettledForGood

-----------------------------------------------------------------------------
(* Sums do not depend on the order they are taken in: the sums of the      *)
(* parts of a set, each one element more than a smaller part.              *)
SumsOf(g, f, S) ==
  /\ g \in [SUBSET S -> Int] /\ g[{}] = 0
  /\ \A s \in SUBSET S : \A x \in s : g[s] = f[x] + g[s \ {x}]

LEMMA SumsExist ==
  ASSUME NEW S, IsFiniteSet(S), NEW f \in [S -> Int]
  PROVE  \E g : SumsOf(g, f, S)
<1> DEFINE iter == CHOOSE g : g = [s \in SUBSET S |-> SumStep(f, g, s)]
<1>1. iter = [s \in SUBSET S |-> SumStep(f, iter, s)]
  BY SumExists
<1> HIDE DEF iter
<1> DEFINE Sound(s) == /\ iter[s] \in Int
                      /\ \A x \in s : iter[s \ {x}] \in Int /\ iter[s] = f[x] + iter[s \ {x}]
           G == {n \in Nat : \A s \in SUBSET S : Cardinality(s) = n => Sound(s)}
<1>2. iter[{}] = 0
  BY <1>1 DEF SumStep
<1>3. 0 \in G
  <2>1. \A s \in SUBSET S : Cardinality(s) = 0 => s = {}
    BY FS_Subset, FS_EmptySet
  <2>2. Sound({})
    BY <1>2
  <2> HIDE DEF Sound
  <2> QED BY <2>1, <2>2
<1>4. ASSUME NEW n \in Nat, n \in G PROVE n + 1 \in G
  <2>1. ASSUME NEW s \in SUBSET S, Cardinality(s) = n + 1 PROVE Sound(s)
    <3> DEFINE c == Chosen(s)
    <3>1. s # {}
      BY <2>1, FS_EmptySet
    <3>2. c \in s /\ c \in S /\ s \ {c} \in SUBSET S
      BY <3>1, ChosenRemoved
    <3>3. \A x \in s : Cardinality(s \ {x}) = n
      <4>1. IsFiniteSet(s)
        BY FS_Subset
      <4>2. \A x \in s : Cardinality(s \ {x}) = Cardinality(s) - 1
        BY <4>1, FS_RemoveElement
      <4>3. Cardinality(s) - 1 = n
        BY <2>1
      <4> QED BY <4>2, <4>3
    <3>4. \A x \in s : s \ {x} \in SUBSET S /\ Sound(s \ {x})
      BY <1>4, <3>3
    <3>5. iter[s] = f[c] + iter[s \ {c}]
      BY <1>1, <3>1 DEF SumStep
    <3> HIDE DEF c
    <3>6. iter[s] \in Int
      BY <3>2, <3>4, <3>5
    <3>7. ASSUME NEW x \in s PROVE iter[s] = f[x] + iter[s \ {x}]
      <4>1. CASE x = c
        BY <3>5, <4>1
      <4>2. CASE x # c
        <5> DEFINE less == s \ {x}
                   rest == s \ {c}
                   least == (s \ {x}) \ {c}
        <5>1. x \in rest /\ c \in less /\ rest \ {x} = least /\ less \ {c} = least
          BY <3>2, <4>2
        <5>2. iter[rest] = f[x] + iter[rest \ {x}] /\ iter[rest] \in Int
          BY <3>2, <3>4, <5>1
        <5>3. iter[less] = f[c] + iter[less \ {c}] /\ iter[less] \in Int
          BY <3>4, <5>1
        <5>4. f[x] \in Int /\ f[c] \in Int
          BY <3>2
        <5>5. iter[least] \in Int
          BY <3>2, <3>4, <5>1
        <5> HIDE DEF less, rest, least
        <5>6. iter[s] = f[c] + iter[rest]
          BY <3>5 DEF rest
        <5>7. iter[rest] = f[x] + iter[least] /\ iter[less] = f[c] + iter[least]
          BY <5>1, <5>2, <5>3
        <5>8. iter[s] = f[x] + iter[less]
          BY <5>4, <5>5, <5>6, <5>7
        <5> QED BY <5>8 DEF less
      <4> QED BY <4>1, <4>2
    <3> QED BY <3>4, <3>6, <3>7
  <2> QED BY <2>1
<1>5. ASSUME NEW s \in SUBSET S PROVE Sound(s)
  <2>1. Cardinality(s) \in Nat
    BY FS_Subset, FS_CardinalityType
  <2>2. Cardinality(s) \in G
    <3> HIDE DEF G
    <3> QED BY <1>3, <1>4, <2>1, NatByInduction
  <2> QED BY <2>2
<1>6. iter \in [SUBSET S -> Int]
  BY <1>1, <1>5
<1>7. SumsOf(iter, f, S)
  BY <1>2, <1>5, <1>6 DEF SumsOf
<1> QED BY <1>7

(* ... and there is but one such sum. *)
LEMMA SumIs ==
  ASSUME NEW S, IsFiniteSet(S), NEW f \in [S -> Int], NEW g, SumsOf(g, f, S)
  PROVE  Total(f) = g[S] /\ Total(f) \in Int
<1> DEFINE iter == CHOOSE h : h = [s \in SUBSET S |-> SumStep(f, h, s)]
<1>1. iter = [s \in SUBSET S |-> SumStep(f, iter, s)]
  BY SumExists
<1>2. Total(f) = iter[S]
  BY SumExpanded DEF Total
<1> HIDE DEF iter
<1> DEFINE G == {n \in Nat : \A s \in SUBSET S : Cardinality(s) = n => iter[s] = g[s]}
<1>3. 0 \in G
  <2>1. \A s \in SUBSET S : Cardinality(s) = 0 => s = {}
    BY FS_Subset, FS_EmptySet
  <2> QED BY <1>1, <2>1 DEF SumStep, SumsOf
<1>4. ASSUME NEW n \in Nat, n \in G PROVE n + 1 \in G
  <2>1. ASSUME NEW s \in SUBSET S, Cardinality(s) = n + 1 PROVE iter[s] = g[s]
    <3>1. s # {}
      BY <2>1, FS_EmptySet
    <3>2. Chosen(s) \in s /\ s \ {Chosen(s)} \in SUBSET S /\ Cardinality(s \ {Chosen(s)}) = n
      BY <2>1, <3>1, ChosenRemoved
    <3>3. iter[s] = f[Chosen(s)] + iter[s \ {Chosen(s)}]
      BY <1>1, <3>1 DEF SumStep
    <3> QED BY <1>4, <3>2, <3>3 DEF SumsOf
  <2> QED BY <2>1
<1>5. Cardinality(S) \in G
  <2> HIDE DEF G
  <2> QED BY <1>3, <1>4, NatByInduction, FS_CardinalityType
<1>6. g[S] \in Int
  BY DEF SumsOf
<1> QED BY <1>2, <1>5, <1>6

(* The sum of a sum, element by element. *)
LEMMA TotalAdds ==
  ASSUME NEW S, IsFiniteSet(S), NEW f \in [S -> Int], NEW h \in [S -> Int]
  PROVE  Total([x \in S |-> f[x] + h[x]]) = Total(f) + Total(h)
<1> DEFINE k == [x \in S |-> f[x] + h[x]]
<1>1. PICK a : SumsOf(a, f, S)
  BY SumsExist
<1>2. PICK b : SumsOf(b, h, S)
  BY SumsExist
<1> DEFINE c == [s \in SUBSET S |-> a[s] + b[s]]
<1>3. k \in [S -> Int] /\ c \in [SUBSET S -> Int] /\ c[{}] = 0
  BY <1>1, <1>2 DEF SumsOf
<1>4. ASSUME NEW s \in SUBSET S, NEW x \in s PROVE c[s] = k[x] + c[s \ {x}]
  <2>1. a[s] = f[x] + a[s \ {x}] /\ b[s] = h[x] + b[s \ {x}]
    BY <1>1, <1>2 DEF SumsOf
  <2>2. a[s \ {x}] \in Int /\ b[s \ {x}] \in Int /\ f[x] \in Int /\ h[x] \in Int
    BY <1>1, <1>2 DEF SumsOf
  <2>3. c[s] = a[s] + b[s] /\ c[s \ {x}] = a[s \ {x}] + b[s \ {x}] /\ k[x] = f[x] + h[x]
    OBVIOUS
  <2> HIDE DEF c, k
  <2> QED BY <2>1, <2>2, <2>3
<1>5. c[S] = a[S] + b[S]
  OBVIOUS
<1> HIDE DEF c, k
<1>6. SumsOf(c, k, S)
  BY <1>3, <1>4 DEF SumsOf
<1>7. Total(k) = c[S] /\ Total(f) = a[S] /\ Total(h) = b[S]
  BY <1>1, <1>2, <1>3, <1>6, SumIs
<1> QED BY <1>5, <1>7 DEF k

(* Nothing is added by an element that adds zero. *)
Padded(f, S, M) == [x \in M |-> IF x \in S THEN f[x] ELSE 0]

LEMMA TotalPadded ==
  ASSUME NEW M, IsFiniteSet(M), NEW S \in SUBSET M, NEW f \in [S -> Int]
  PROVE  Total(Padded(f, S, M)) = Total(f)
<1> DEFINE k == [x \in M |-> IF x \in S THEN f[x] ELSE 0]
<1>1. IsFiniteSet(S)
  BY FS_Subset
<1>2. PICK a : SumsOf(a, f, S)
  BY <1>1, SumsExist
<1> DEFINE c == [s \in SUBSET M |-> a[s \cap S]]
<1>3. k \in [M -> Int]
  OBVIOUS
<1>4. c \in [SUBSET M -> Int] /\ c[{}] = 0
  <2>1. \A s : s \cap S \in SUBSET S /\ {} \cap S = {}
    OBVIOUS
  <2> QED BY <1>2, <2>1 DEF SumsOf
<1>5. ASSUME NEW s \in SUBSET M, NEW x \in s PROVE c[s] = k[x] + c[s \ {x}]
  <2> DEFINE part == s \cap S
             less == (s \ {x}) \cap S
  <2>1. c[s] = a[part] /\ c[s \ {x}] = a[less] /\ k[x] = IF x \in S THEN f[x] ELSE 0
    OBVIOUS
  <2>2. part \in SUBSET S /\ a[part] \in Int
    BY <1>2 DEF SumsOf
  <2> HIDE DEF c, k
  <2>3. CASE x \in S
    <3>1. x \in part /\ less = part \ {x}
      BY <2>3
    <3> HIDE DEF part, less
    <3>2. a[part] = f[x] + a[less]
      BY <1>2, <2>2, <3>1 DEF SumsOf
    <3> QED BY <2>1, <2>3, <3>2
  <2>4. CASE x \notin S
    <3>1. less = part
      BY <2>4
    <3> HIDE DEF part, less
    <3> QED BY <2>1, <2>2, <2>4, <3>1
  <2> QED BY <2>3, <2>4
<1>6. c[M] = a[S]
  <2>1. M \cap S = S /\ M \in SUBSET M
    OBVIOUS
  <2> QED BY <2>1
<1> HIDE DEF c, k
<1>7. SumsOf(c, k, M)
  BY <1>4, <1>5 DEF SumsOf
<1>8. Total(k) = c[M] /\ Total(f) = a[S]
  BY <1>1, <1>2, <1>3, <1>7, SumIs
<1> QED BY <1>6, <1>8 DEF k, Padded

(* One element less. *)
LEMMA TotalWithout ==
  ASSUME NEW S, IsFiniteSet(S), NEW f \in [S -> Int], NEW x \in S
  PROVE  Total(f) = f[x] + Total([y \in S \ {x} |-> f[y]])
<1> DEFINE T == S \ {x}
           k == [y \in T |-> f[y]]
<1>1. IsFiniteSet(T) /\ k \in [T -> Int] /\ T \in SUBSET S
  BY FS_Subset
<1>2. PICK a : SumsOf(a, f, S)
  BY SumsExist
<1> DEFINE c == [s \in SUBSET T |-> a[s]]
<1>3. SumsOf(c, k, T)
  <2>1. c \in [SUBSET T -> Int] /\ c[{}] = 0
    BY <1>2 DEF SumsOf
  <2>2. ASSUME NEW s \in SUBSET T, NEW y \in s PROVE c[s] = k[y] + c[s \ {y}]
    <3>1. s \in SUBSET S /\ s \ {y} \in SUBSET T /\ y \in T
      OBVIOUS
    <3>2. c[s] = a[s] /\ c[s \ {y}] = a[s \ {y}] /\ k[y] = f[y]
      BY <3>1
    <3> HIDE DEF c, k
    <3> QED BY <1>2, <3>1, <3>2 DEF SumsOf
  <2> QED BY <2>1, <2>2 DEF SumsOf
<1>4. c[T] = a[T] /\ a[S] = f[x] + a[T]
  BY <1>2 DEF SumsOf
<1> HIDE DEF c, k
<1>5. Total(k) = c[T] /\ Total(f) = a[S]
  BY <1>1, <1>2, <1>3, SumIs
<1> QED BY <1>4, <1>5 DEF k

(* Zeros come to nothing. *)
LEMMA TotalOfZeros ==
  ASSUME NEW S, IsFiniteSet(S)
  PROVE  Total([x \in S |-> 0]) = 0
<1> DEFINE k == [x \in S |-> 0]
           c == [s \in SUBSET S |-> 0]
<1>1. SumsOf(c, k, S)
  BY DEF SumsOf
<1>2. k \in [S -> Int] /\ c[S] = 0
  OBVIOUS
<1> HIDE DEF c, k
<1> QED BY <1>1, <1>2, SumIs DEF k

(* Amounts come to an amount, and to more than none if one of them does. *)
LEMMA TotalOfAmounts ==
  ASSUME NEW S, IsFiniteSet(S), NEW f \in [S -> Nat]
  PROVE  Total(f) \in Nat /\ \A x \in S : f[x] > 0 => Total(f) > 0
<1>1. f \in [S -> Int]
  OBVIOUS
<1>2. PICK a : SumsOf(a, f, S)
  BY <1>1, SumsExist
<1> DEFINE G == {n \in Nat : \A s \in SUBSET S : Cardinality(s) = n => a[s] \in Nat}
<1>3. 0 \in G
  <2>1. \A s \in SUBSET S : Cardinality(s) = 0 => s = {}
    BY FS_Subset, FS_EmptySet
  <2>2. a[{}] \in Nat
    BY <1>2 DEF SumsOf
  <2> QED BY <2>1, <2>2
<1>4. ASSUME NEW n \in Nat, n \in G PROVE n + 1 \in G
  <2>1. ASSUME NEW s \in SUBSET S, Cardinality(s) = n + 1 PROVE a[s] \in Nat
    <3>1. s # {}
      BY <2>1, FS_EmptySet
    <3>2. Chosen(s) \in s /\ s \ {Chosen(s)} \in SUBSET S /\ Cardinality(s \ {Chosen(s)}) = n
      BY <2>1, <3>1, ChosenRemoved
    <3>3. a[s] = f[Chosen(s)] + a[s \ {Chosen(s)}]
      BY <1>2, <3>2 DEF SumsOf
    <3>4. a[s \ {Chosen(s)}] \in Nat /\ f[Chosen(s)] \in Nat
      BY <1>4, <3>2
    <3> QED BY <3>3, <3>4
  <2> QED BY <2>1
<1>5. \A s \in SUBSET S : a[s] \in Nat
  <2> SUFFICES ASSUME NEW s \in SUBSET S PROVE a[s] \in Nat
    OBVIOUS
  <2>1. Cardinality(s) \in Nat
    BY FS_Subset, FS_CardinalityType
  <2>2. Cardinality(s) \in G
    <3> HIDE DEF G
    <3> QED BY <1>3, <1>4, <2>1, NatByInduction
  <2> QED BY <2>2
<1>6. Total(f) = a[S]
  BY <1>1, <1>2, SumIs
<1>7. ASSUME NEW x \in S, f[x] > 0 PROVE a[S] > 0
  <2>1. a[S] = f[x] + a[S \ {x}]
    BY <1>2 DEF SumsOf
  <2>2. a[S \ {x}] \in Nat /\ f[x] \in Nat
    BY <1>5
  <2> QED BY <1>7, <2>1, <2>2
<1> QED BY <1>5, <1>6, <1>7

(* Rows first or columns first: the total of a table is the same. *)
LEMMA TotalsExchange ==
  ASSUME NEW I, IsFiniteSet(I), NEW M, IsFiniteSet(M), NEW b \in [I -> [M -> Int]]
  PROVE  Total([i \in I |-> Total(b[i])]) = Total([m \in M |-> Total([i \in I |-> b[i][m]])])
<1> DEFINE column(m) == [i \in I |-> b[i][m]]
           sums == [m \in M |-> CHOOSE g : SumsOf(g, column(m), I)]
           rowTotal == [i \in I |-> Total(b[i])]
           part(s) == [m \in M |-> sums[m][s]]
           c == [s \in SUBSET I |-> Total(part(s))]
<1>1. \A m \in M : column(m) \in [I -> Int]
  OBVIOUS
<1>2. \A m \in M : SumsOf(sums[m], column(m), I)
  <2> HIDE DEF column
  <2> QED BY <1>1, SumsExist
<1>3. \A i \in I : b[i] \in [M -> Int]
  OBVIOUS
<1>4. rowTotal \in [I -> Int]
  <2>1. \A i \in I : Total(b[i]) \in Int
    BY <1>3, SumsExist, SumIs
  <2> QED BY <2>1
<1> HIDE DEF sums
<1>5. \A s \in SUBSET I : part(s) \in [M -> Int]
  <2>1. \A s \in SUBSET I, m \in M : sums[m][s] \in Int
    BY <1>2 DEF SumsOf
  <2> QED BY <2>1
<1>6. c \in [SUBSET I -> Int]
  <2> HIDE DEF part
  <2>1. \A s \in SUBSET I : Total(part(s)) \in Int
    BY <1>5, SumsExist, SumIs
  <2> QED BY <2>1
<1>7. c[{}] = 0
  <2>1. part({}) = [m \in M |-> 0]
    BY <1>2 DEF SumsOf
  <2> HIDE DEF part
  <2>2. c[{}] = Total([m \in M |-> 0])
    BY <2>1
  <2> QED BY <2>2, TotalOfZeros
<1>8. ASSUME NEW s \in SUBSET I, NEW i \in s PROVE c[s] = rowTotal[i] + c[s \ {i}]
  <2> DEFINE old == part(s \ {i})
             new == part(s)
             row == b[i]
  <2>1. s \ {i} \in SUBSET I /\ i \in I
    OBVIOUS
  <2>2. old \in [M -> Int] /\ row \in [M -> Int]
    <3> HIDE DEF part
    <3> QED BY <1>3, <1>5, <2>1
  <2>3. new = [m \in M |-> row[m] + old[m]]
    <3>1. \A m \in M : sums[m][s] = column(m)[i] + sums[m][s \ {i}]
      <4> HIDE DEF column
      <4> QED BY <1>2 DEF SumsOf
    <3>2. \A m \in M : column(m)[i] = row[m]
      BY <2>1
    <3> HIDE DEF column
    <3> QED BY <3>1, <3>2
  <2>4. c[s] = Total(new) /\ c[s \ {i}] = Total(old) /\ rowTotal[i] = Total(row)
    BY <2>1
  <2> HIDE DEF old, new, row, c, rowTotal
  <2>5. Total([m \in M |-> row[m] + old[m]]) = Total(row) + Total(old)
    BY <2>2, TotalAdds
  <2> QED BY <2>3, <2>4, <2>5
<1>9. c[I] = Total([m \in M |-> Total(column(m))])
  <2>1. \A m \in M : Total(column(m)) = sums[m][I]
    <3> HIDE DEF column
    <3> QED BY <1>1, <1>2, SumIs
  <2>2. part(I) = [m \in M |-> Total(column(m))]
    <3> HIDE DEF column
    <3> QED BY <2>1
  <2>3. c[I] = Total(part(I))
    OBVIOUS
  <2> HIDE DEF part, column, c
  <2> QED BY <2>2, <2>3
<1> HIDE DEF c, rowTotal
<1>10. SumsOf(c, rowTotal, I)
  BY <1>6, <1>7, <1>8 DEF SumsOf
<1>11. Total(rowTotal) = c[I]
  BY <1>4, <1>10, SumIs
<1> QED BY <1>9, <1>11 DEF rowTotal

-----------------------------------------------------------------------------
(* The shares of a leg add up to its cost: as many members are given one   *)
(* unit more as there are units left over.                                 *)
LEMMA GreatestExists ==
  ASSUME NEW S \in SUBSET Nat, IsFiniteSet(S), S # {}
  PROVE  \E x \in S : \A y \in S : y <= x
<1> DEFINE Top(T) == \E x \in T : \A y \in T : y <= x
           G == {n \in Nat : \A T \in SUBSET S : Cardinality(T) = n => T = {} \/ Top(T)}
<1>1. 0 \in G
  <2>1. \A T \in SUBSET S : Cardinality(T) = 0 => T = {}
    BY FS_Subset, FS_EmptySet
  <2> QED BY <2>1
<1>2. ASSUME NEW n \in Nat, n \in G PROVE n + 1 \in G
  <2>1. ASSUME NEW T \in SUBSET S, Cardinality(T) = n + 1, NEW z \in T PROVE Top(T)
    <3> DEFINE U == T \ {z}
    <3>1. IsFiniteSet(T)
      BY FS_Subset
    <3>2. Cardinality(U) = Cardinality(T) - 1
      BY <3>1, FS_RemoveElement
    <3>3. U \in SUBSET S /\ Cardinality(U) = n
      BY <2>1, <3>2
    <3>4. U = {} \/ Top(U)
      BY <1>2, <3>3
    <3>5. CASE U = {}
      <4>1. T = {z} /\ z \in Nat
        BY <3>5
      <4> QED BY <4>1
    <3>6. CASE Top(U)
      <4>1. PICK x \in U : \A y \in U : y <= x
        BY <3>6
      <4>2. x \in Nat /\ z \in Nat /\ \A y \in T : y \in Nat /\ (y \in U \/ y = z)
        BY <3>3
      <4>3. x \in T
        OBVIOUS
      <4> HIDE DEF U
      <4>4. CASE z <= x
        <5>1. \A y \in T : y <= x
          BY <4>1, <4>2, <4>4
        <5> QED BY <4>3, <5>1
      <4>5. CASE x <= z
        <5>1. \A y \in T : y <= z
          BY <4>1, <4>2, <4>5
        <5> QED BY <5>1
      <4> QED BY <4>2, <4>4, <4>5
    <3> QED BY <3>4, <3>5, <3>6
  <2> HIDE DEF Top
  <2> QED BY <2>1
<1>3. Cardinality(S) \in G
  <2> HIDE DEF G
  <2> QED BY <1>1, <1>2, NatByInduction, FS_CardinalityType
<1> QED BY <1>3

(* The ranks of the members: the greatest has all others below it. *)
LEMMA Ranks ==
  ASSUME NEW S \in SUBSET Nat, IsFiniteSet(S), NEW x \in S, \A y \in S : y <= x
  PROVE  /\ Rank(S, x) = Cardinality(S \ {x})
         /\ \A m \in S \ {x} : /\ Rank(S, m) = Rank(S \ {x}, m)
                               /\ Rank(S, m) \in Nat /\ Rank(S, m) < Cardinality(S \ {x})
<1> DEFINE T == S \ {x}
<1>1. \A y \in S : y \in Nat
  OBVIOUS
<1>2. {o \in S : o < x} = T
  <2>1. \A y \in S : y < x <=> y # x
    BY <1>1
  <2> QED BY <2>1
<1>3. ASSUME NEW m \in T
      PROVE  Rank(S, m) = Rank(T, m) /\ Rank(S, m) \in Nat /\ Rank(S, m) < Cardinality(T)
  <2> DEFINE below == {o \in S : o < m}
  <2>1. below = {o \in T : o < m}
    BY <1>1
  <2>2. below \subseteq T \ {m}
    BY <1>1, <2>1
  <2>3. IsFiniteSet(T)
    BY FS_RemoveElement
  <2>4. /\ Cardinality(T \ {m}) = Cardinality(T) - 1 /\ IsFiniteSet(T \ {m})
        /\ Cardinality(T) \in Nat
    BY <2>3, FS_RemoveElement, FS_CardinalityType
  <2>5. IsFiniteSet(below) /\ Cardinality(below) <= Cardinality(T \ {m})
    BY <2>2, <2>4, FS_Subset
  <2>6. Cardinality(below) \in Nat
    BY <2>5, FS_CardinalityType
  <2>7. Rank(S, m) = Cardinality(below) /\ Rank(T, m) = Cardinality(below)
    BY <2>1 DEF Rank
  <2> HIDE DEF below, T
  <2> QED BY <2>4, <2>5, <2>6, <2>7
<1> QED BY <1>2, <1>3 DEF Rank

Handed(S, base, left) == [m \in S |-> IF Rank(S, m) < left THEN base + 1 ELSE base]

LEMMA HandedOut ==
  ASSUME NEW S \in SUBSET Nat, IsFiniteSet(S), NEW base \in Int, NEW left \in 0..Cardinality(S)
  PROVE  Total(Handed(S, base, left)) = base * Cardinality(S) + left
<1> DEFINE Sums(T) == \A k \in 0..Cardinality(T) :
                        Total(Handed(T, base, k)) = base * Cardinality(T) + k
           G == {n \in Nat : \A T \in SUBSET S : Cardinality(T) = n => Sums(T)}
<1>1. 0 \in G
  <2>1. ASSUME NEW T \in SUBSET S, Cardinality(T) = 0 PROVE Sums(T)
    <3>1. T = {} /\ IsFiniteSet(T)
      BY <2>1, FS_Subset, FS_EmptySet
    <3>2. \A k : Handed(T, base, k) = [m \in T |-> 0]
      BY <3>1 DEF Handed
    <3>3. Total([m \in T |-> 0]) = 0
      BY <3>1, TotalOfZeros
    <3>4. \A k \in 0..Cardinality(T) : k = 0 /\ base * Cardinality(T) + k = 0
      BY <2>1
    <3> QED BY <3>2, <3>3, <3>4
  <2> HIDE DEF Sums
  <2> QED BY <2>1
<1>2. ASSUME NEW n \in Nat, n \in G PROVE n + 1 \in G
  <2>1. ASSUME NEW T \in SUBSET S, Cardinality(T) = n + 1, NEW k \in 0..(n + 1)
        PROVE  Total(Handed(T, base, k)) = base * (n + 1) + k
    <3>1. IsFiniteSet(T) /\ T \in SUBSET Nat
      BY FS_Subset
    <3>2. T # {}
      BY <2>1, FS_EmptySet
    <3>3. PICK x \in T : \A y \in T : y <= x
      BY <3>1, <3>2, GreatestExists
    <3> DEFINE U == T \ {x}
               all == Handed(T, base, k)
               rest == [y \in U |-> all[y]]
               l == IF k = n + 1 THEN n ELSE k
    <3>4. Cardinality(U) = Cardinality(T) - 1
      BY <3>1, FS_RemoveElement
    <3>5. U \in SUBSET S /\ Cardinality(U) = n
      BY <2>1, <3>4
    <3>6. /\ Rank(T, x) = n
          /\ \A m \in U : Rank(T, m) = Rank(U, m) /\ Rank(T, m) \in Nat /\ Rank(T, m) < n
      BY <3>1, <3>3, <3>5, Ranks
    <3>7. all[x] = IF k = n + 1 THEN base + 1 ELSE base
      <4>1. all[x] = IF Rank(T, x) < k THEN base + 1 ELSE base
        BY DEF Handed
      <4>2. Rank(T, x) < k <=> k = n + 1
        BY <3>6
      <4> QED BY <4>1, <4>2
    <3>8. rest = Handed(U, base, l)
      <4>1. ASSUME NEW m \in U PROVE rest[m] = IF Rank(U, m) < l THEN base + 1 ELSE base
        <5>1. rest[m] = IF Rank(T, m) < k THEN base + 1 ELSE base
          BY DEF Handed
        <5>2. Rank(U, m) < l <=> Rank(T, m) < k
          <6>1. Rank(T, m) = Rank(U, m) /\ Rank(T, m) \in Nat /\ Rank(T, m) < n
            BY <3>6
          <6> QED BY <6>1
        <5> HIDE DEF rest, U, l
        <5> QED BY <5>1, <5>2
      <4> HIDE DEF l, all
      <4> QED BY <4>1 DEF Handed
    <3>9. Total(rest) = base * n + l
      <4>1. Sums(U)
        BY <1>2, <3>5
      <4>2. l \in 0..n
        OBVIOUS
      <4> HIDE DEF rest, U, l
      <4> QED BY <3>5, <3>8, <4>1, <4>2
    <3>10. all \in [T -> Int]
      BY DEF Handed
    <3> HIDE DEF all
    <3>11. Total(all) = all[x] + Total(rest)
      BY <3>1, <3>10, TotalWithout
    <3> HIDE DEF rest, U
    <3>12. Total(all) = (IF k = n + 1 THEN base + 1 ELSE base) + (base * n + l)
      BY <3>7, <3>9, <3>11
    <3>13. base * (n + 1) = base * n + base
      OBVIOUS
    <3>14. base * n \in Int
      BY ProductType
    <3> DEFINE product == base * n
    <3>15. Total(all) = (IF k = n + 1 THEN base + 1 ELSE base) + (product + l)
           /\ base * (n + 1) = product + base /\ product \in Int
      BY <3>12, <3>13, <3>14
    <3> HIDE DEF product
    <3>16. Total(all) = base * (n + 1) + k
      <4>1. CASE k = n + 1
        BY <3>15, <4>1
      <4>2. CASE k # n + 1
        BY <3>15, <4>2
      <4> QED BY <4>1, <4>2
    <3> QED BY <3>16 DEF all
  <2>2. ASSUME NEW T \in SUBSET S, Cardinality(T) = n + 1 PROVE Sums(T)
    BY <2>1, <2>2
  <2> HIDE DEF Sums
  <2> QED BY <2>2
<1>3. Cardinality(S) \in G
  <2> HIDE DEF G
  <2> QED BY <1>1, <1>2, NatByInduction, FS_CardinalityType
<1> QED BY <1>3

(* allocateLegShares hands out the cost of the leg, no more and no less. *)
LEMMA LegSharesAddUp ==
  ASSUME NEW cost \in Int, NEW S \in SUBSET Nat, IsFiniteSet(S), S # {}
  PROVE  Total(LegShares(cost, S)) = cost
<1> DEFINE count == Cardinality(S)
           base == cost \div count
           left == cost - base * count
<1>1. count \in Nat \ {0}
  BY FS_CardinalityType, FS_EmptySet
<1> HIDE DEF count
<1>2. base \in Int /\ cost = count * base + (cost % count) /\ cost % count \in 0..(count - 1)
  BY <1>1, DividingUp
<1> HIDE DEF base
<1>3. count * base = base * count /\ base * count \in Int
  BY <1>1, <1>2
<1>4. left \in 0..count /\ base * count + left = cost
  BY <1>1, <1>2, <1>3
<1>5. LegShares(cost, S) = Handed(S, base, left)
  BY DEF LegShares, Handed, count, base, left
<1> HIDE DEF left
<1>6. Total(Handed(S, base, left)) = base * count + left
  BY <1>2, <1>4, HandedOut DEF count
<1> QED BY <1>4, <1>5, <1>6

-----------------------------------------------------------------------------
(* What the tables ask of a fare. *)
LEMMA MultiplesAreWhole ==
  ASSUME NEW k \in Nat, NEW u \in Nat \ {0}
  PROVE  WholeUnits(k * u, u)
<1> DEFINE n == k * u
           q == n \div u
<1>1. n \in Int /\ n >= u * k /\ n < u * (k + 1)
  BY ProductType
<1> HIDE DEF n
<1>2. q \in Int /\ q >= k /\ q <= k /\ n = u * q + (n % u) /\ n % u \in 0..(u - 1)
  <2>1. q \in Int /\ n = u * q + (n % u) /\ n % u \in 0..(u - 1)
    BY <1>1, DividingUp
  <2>2. k \in Int
    OBVIOUS
  <2>3. q >= k /\ q <= k
    BY <1>1, <2>2, QuotientBounds
  <2> QED BY <2>1, <2>3
<1>3. q = k
  BY <1>2
<1> HIDE DEF q
<1>4. n % u = n - u * k
  BY <1>1, <1>2, <1>3
<1>5. n = u * k
  BY DEF n
<1>6. u * k \in Int
  BY ProductType
<1>7. n % u = 0
  BY <1>4, <1>5, <1>6
<1> QED BY <1>7 DEF WholeUnits, n

(* Rounding to the unit gives whole units, is off by half a unit at most,  *)
(* and does not pass a whole number of units.                              *)
LEMMA RoundingIsClose ==
  ASSUME NEW n \in Nat, NEW u \in Nat \ {0}
  PROVE  LET r == RoundToUnit(n, u)
         IN  /\ r \in Nat /\ WholeUnits(r, u)
             /\ 2 * (r - n) <= u /\ -2 * (r - n) <= u
             /\ \A k \in Nat : n <= k * u => r <= k * u
<1> DEFINE h == (2 * n + u) \div (2 * u)
           product == h * u
           double == (2 * u) * h
<1>1. 2 * n + u \in Int /\ 2 * n + u >= 0 /\ 2 * u \in Nat \ {0}
  OBVIOUS
<1>2. h \in Int /\ h >= 0 /\ 2 * n + u = (2 * u) * h + ((2 * n + u) % (2 * u))
      /\ (2 * n + u) % (2 * u) \in 0..(2 * u - 1)
  BY <1>1, DividingUp
<1>3. \A k \in Int : 2 * n + u < (2 * u) * (k + 1) => h <= k
  BY <1>1, QuotientBounds
<1>4. RoundToUnit(n, u) = product
  BY DEF RoundToUnit, HalfUp
<1> HIDE DEF h
<1>5. h \in Nat
  BY <1>2
<1>6. WholeUnits(product, u) /\ product \in Nat
  <2>1. WholeUnits(h * u, u)
    BY <1>5, MultiplesAreWhole
  <2>2. h \in Int /\ u \in Int /\ h >= 0 /\ u >= 0
    BY <1>5
  <2>3. h * u \in Int /\ h * u >= 0
    BY <2>2, ProductType
  <2> QED BY <2>1, <2>3
<1>7. double = 2 * product /\ double \in Int
  BY <1>5
<1>8. 2 * n + u >= double /\ 2 * n + u < double + 2 * u
  <2>1. (2 * n + u) % (2 * u) >= 0 /\ (2 * n + u) % (2 * u) < 2 * u
        /\ (2 * n + u) % (2 * u) \in Int
    BY <1>2
  <2> DEFINE rest == (2 * n + u) % (2 * u)
  <2>2. rest \in Int /\ rest >= 0 /\ rest < 2 * u /\ 2 * n + u = double + rest
    BY <1>2, <2>1
  <2> HIDE DEF rest, double
  <2> QED BY <1>7, <2>2
<1> HIDE DEF double
<1>9. ASSUME NEW k \in Nat, n <= k * u PROVE product <= k * u
  <2>1. 2 * n + u < (2 * u) * (k + 1)
    BY <1>9
  <2>2. h <= k
    BY <1>3, <2>1
  <2> QED BY <1>5, <2>2
<1> HIDE DEF product
<1>10. 2 * (product - n) <= u /\ -2 * (product - n) <= u
  BY <1>6, <1>7, <1>8
<1> QED BY <1>4, <1>6, <1>9, <1>10

(* A cap of whole units is kept whatever the rounding. *)
LEMMA CapsAreKept ==
  ASSUME NEW n \in Nat, NEW u \in Nat \ {0}, NEW cap \in Nat, WholeUnits(cap, u), n <= cap
  PROVE  RoundToUnit(n, u) <= cap
<1>1. PICK k \in Nat : cap = k * u
  BY WholeUnitsDivide
<1>2. n <= k * u
  BY <1>1
<1>3. RoundToUnit(n, u) <= k * u
  BY <1>2, RoundingIsClose
<1> QED BY <1>1, <1>3

LEMMA FareIsAccepted ==
  ASSUME NEW p, ReadablePolicy(p), NEW legCost \in Int,
         NEW accepted \in Nat, WholeUnits(accepted, p.unit),
         NEW previous \in Nat \cup {NoCap}, previous # NoCap => WholeUnits(previous, p.unit)
  PROVE  LET f == PassengerFare(p, legCost, accepted, previous)
         IN  /\ FareRowAccepted(f) /\ WholeUnits(f.final, p.unit)
             /\ f.base \in Int /\ f.uncapped = f.base + legCost /\ f.uncapped \in Int
             /\ f.minimum \in Int /\ f.final \in Int /\ f.soloReduction \in Int
             /\ f.noIncreaseReduction \in Int /\ f.rounding \in Int
<1> DEFINE f == PassengerFare(p, legCost, accepted, previous)
           uncapped == p.base + legCost
           floor == Larger(p.minimum, uncapped)
           capped == Smaller(accepted, floor)
           unrounded == IF previous = NoCap THEN capped ELSE Smaller(previous, capped)
           final == RoundToUnit(unrounded, p.unit)
<1>1. p.base \in Nat /\ p.minimum \in Nat /\ p.unit \in Nat \ {0}
  BY DEF ReadablePolicy
<1>2. f = [solo |-> accepted, previous |-> previous, base |-> p.base, legCost |-> legCost,
           uncapped |-> uncapped, minimum |-> p.minimum,
           soloReduction |-> floor - capped, noIncreaseReduction |-> capped - unrounded,
           rounding |-> final - unrounded, unit |-> p.unit, final |-> final]
  BY DEF PassengerFare
<1>3. uncapped \in Int
  BY <1>1
<1>4. floor \in Nat
  BY <1>1, <1>3 DEF Larger
<1>5. capped \in Nat /\ capped <= accepted
  BY <1>4 DEF Smaller
<1> HIDE DEF capped
<1>6. unrounded \in Nat /\ unrounded <= accepted
      /\ (previous # NoCap => previous \in Nat /\ unrounded <= previous)
  BY <1>5 DEF Smaller
<1> HIDE DEF unrounded
<1>7. /\ final \in Nat /\ WholeUnits(final, p.unit)
      /\ 2 * (final - unrounded) <= p.unit /\ -2 * (final - unrounded) <= p.unit
  BY <1>1, <1>6, RoundingIsClose
<1>8. final <= accepted
  BY <1>1, <1>6, CapsAreKept
<1>9. previous # NoCap => final <= previous
  BY <1>1, <1>6, CapsAreKept
<1> HIDE DEF f, uncapped, floor, final
<1>10. /\ f.solo = accepted /\ f.previous = previous /\ f.base = p.base /\ f.legCost = legCost
       /\ f.uncapped = uncapped /\ f.minimum = p.minimum
       /\ f.soloReduction = floor - capped /\ f.noIncreaseReduction = capped - unrounded
       /\ f.rounding = final - unrounded /\ f.unit = p.unit /\ f.final = final
  BY <1>2
<1>11. final + (floor - capped) + (capped - unrounded) = floor + (final - unrounded)
  BY <1>4, <1>5, <1>6, <1>7
<1>12. Larger(f.minimum, f.uncapped) = floor
  BY <1>10 DEF floor
<1>13. f.uncapped = f.base + f.legCost
  BY <1>10 DEF uncapped
<1>14. FareRowAccepted(f)
  BY <1>7, <1>8, <1>9, <1>10, <1>11, <1>12, <1>13 DEF FareRowAccepted
<1>15. /\ f.soloReduction \in Int /\ f.noIncreaseReduction \in Int /\ f.rounding \in Int
       /\ f.base \in Int /\ f.uncapped \in Int /\ f.minimum \in Int /\ f.final \in Int
  BY <1>1, <1>3, <1>4, <1>5, <1>6, <1>7, <1>10
<1> QED BY <1>7, <1>10, <1>13, <1>14, <1>15 DEF f

-----------------------------------------------------------------------------
(* What the tables ask of a leg. *)
LEMMA EdgesAre ==
  ASSUME NEW edges, ReadableLegs(edges)
  PROVE  /\ IsFiniteSet(DOMAIN edges) /\ 1 \in DOMAIN edges
         /\ \A i \in DOMAIN edges : /\ edges[i].meters \in Nat \ {0} /\ edges[i].seconds \in Nat \ {0}
                                    /\ edges[i].weight \in Nat \ {0}
<1> DEFINE edge == [meters : Nat \ {0}, seconds : Nat \ {0}, weight : Nat \ {0}]
<1>1. edges \in Seq(edge) /\ edges # << >>
  BY DEF ReadableLegs
<1>2. \A e \in edge : e.meters \in Nat \ {0} /\ e.seconds \in Nat \ {0} /\ e.weight \in Nat \ {0}
  OBVIOUS
<1> HIDE DEF edge
<1>3. DOMAIN edges = 1..Len(edges) /\ Len(edges) \in Nat /\ Len(edges) # 0
  BY <1>1, LenProperties, EmptySeq
<1>4. \A i \in DOMAIN edges : edges[i] \in edge
  BY <1>1, <1>3, ElementOfSeq
<1>5. IsFiniteSet(1..Len(edges))
  BY <1>3, FS_Interval
<1>6. 1 \in DOMAIN edges
  BY <1>3
<1> QED BY <1>2, <1>3, <1>4, <1>5, <1>6

LEMMA RouteAmounts ==
  ASSUME NEW p, ReadablePolicy(p), NEW edges, ReadableLegs(edges)
  PROVE  /\ Meters(edges) \in Nat /\ Meters(edges) > 0 /\ Seconds(edges) \in Nat
         /\ DistanceCost(p, edges) \in Nat /\ TimeCost(p, edges) \in Nat
<1> DEFINE D == DOMAIN edges
           meters == [i \in D |-> edges[i].meters]
           seconds == [i \in D |-> edges[i].seconds]
           charges == [i \in D |-> DistanceCharge(p, edges[i])]
<1>1. /\ IsFiniteSet(D) /\ 1 \in D
      /\ \A i \in D : /\ edges[i].meters \in Nat \ {0} /\ edges[i].seconds \in Nat \ {0}
                      /\ edges[i].weight \in Nat \ {0}
  BY EdgesAre
<1>2. p.perKilometer \in Nat /\ p.perMinute \in Nat
  BY DEF ReadablePolicy
<1> HIDE DEF D
<1>3. ASSUME NEW i \in D PROVE DistanceCharge(p, edges[i]) \in Nat
  <2> DEFINE first == edges[i].meters * p.perKilometer
             second == first * edges[i].weight
  <2>1. edges[i].meters \in Nat /\ edges[i].weight \in Nat
    BY <1>1
  <2>2. first \in Int /\ first >= 0
    BY <1>2, <2>1, ProductType
  <2> HIDE DEF first
  <2>3. second \in Int /\ second >= 0
    BY <2>1, <2>2, ProductType
  <2>4. DistanceCharge(p, edges[i]) = HalfUp(second, 1000 * 1000)
    BY DEF DistanceCharge, first
  <2> HIDE DEF second
  <2>5. 1000 * 1000 \in Nat \ {0}
    OBVIOUS
  <2> QED BY <2>3, <2>4, <2>5, HalfUpType
<1>4. meters \in [D -> Nat] /\ seconds \in [D -> Nat] /\ charges \in [D -> Nat]
  BY <1>1, <1>3
<1>5. meters[1] > 0 /\ 1 \in D
  BY <1>1
<1>6. Meters(edges) = Total(meters) /\ Seconds(edges) = Total(seconds)
      /\ DistanceCost(p, edges) = Total(charges)
  BY DEF Meters, Seconds, DistanceCost, D
<1> HIDE DEF meters, seconds, charges
<1>7. /\ Meters(edges) \in Nat /\ Meters(edges) > 0 /\ Seconds(edges) \in Nat
      /\ DistanceCost(p, edges) \in Nat
  BY <1>1, <1>4, <1>5, <1>6, TotalOfAmounts
<1>8. TimeCost(p, edges) \in Nat
  <2> DEFINE product == Seconds(edges) * p.perMinute
  <2>1. product \in Int /\ product >= 0
    BY <1>2, <1>7, ProductType
  <2> HIDE DEF product
  <2>2. HalfUp(product, 60) \in Nat
    BY <2>1, HalfUpType
  <2> QED BY <2>2 DEF TimeCost, product
<1> QED BY <1>7, <1>8

(* Traffic never makes it cheaper where no multiplier is below one. *)
LEMMA TrafficAdds ==
  ASSUME NEW p, ReadablePolicy(p), p.normal >= 100, p.rush >= 100, NEW rush, NEW subtotal \in Nat
  PROVE  TrafficAdjustment(p, rush, subtotal) \in Nat
<1> DEFINE extra == Multiplier(p, rush) - 100
           product == subtotal * extra
<1>1. extra \in Int /\ extra >= 0
  BY DEF ReadablePolicy, Multiplier
<1>2. TrafficAdjustment(p, rush, subtotal) = HalfUp(product, 100)
  BY DEF TrafficAdjustment
<1> HIDE DEF extra
<1>3. product \in Int /\ product >= 0
  BY <1>1, ProductType
<1> HIDE DEF product
<1> QED BY <1>2, <1>3, HalfUpType

LEMMA LegIsAccepted ==
  ASSUME NEW p, ReadablePolicy(p), p.normal >= 100, p.rush >= 100,
         NEW edges, edges = << >> \/ ReadableLegs(edges), NEW rush,
         NEW onboard \in SUBSET Nat, IsFiniteSet(onboard)
  PROVE  LET leg == PricedLeg(p, edges, rush, onboard)
             shares == IF onboard = {} THEN << >> ELSE LegShares(leg.cost, onboard)
         IN  /\ LegRowAccepted(leg, shares)
             /\ leg.cost \in Int /\ leg.meters \in Nat /\ (edges # << >> => leg.meters > 0)
             /\ onboard = {} => leg.cost = 0
             /\ onboard # {} => Total(shares) = leg.cost /\ shares \in [onboard -> Int]
<1> DEFINE leg == PricedLeg(p, edges, rush, onboard)
           shares == IF onboard = {} THEN << >> ELSE LegShares(leg.cost, onboard)
<1>1. /\ leg.distance \in Nat /\ leg.time \in Nat /\ leg.adjustment \in Nat
      /\ leg.cost = leg.distance + leg.time + leg.adjustment
      /\ leg.meters = Meters(edges)
      /\ edges = << >> \/ onboard = {} => leg.cost = 0
  <2>1. CASE edges = << >> \/ onboard = {}
    BY <2>1 DEF PricedLeg, FreeLeg
  <2>2. CASE ~(edges = << >> \/ onboard = {})
    <3> DEFINE distance == DistanceCost(p, edges)
               time == TimeCost(p, edges)
               adjustment == TrafficAdjustment(p, rush, distance + time)
    <3>1. distance \in Nat /\ time \in Nat
      BY <2>2, RouteAmounts
    <3>2. leg.distance = distance /\ leg.time = time /\ leg.adjustment = adjustment
          /\ leg.cost = distance + time + adjustment /\ leg.meters = Meters(edges)
      BY <2>2 DEF PricedLeg, LegCost
    <3> HIDE DEF distance, time, leg
    <3>3. distance + time \in Nat
      BY <3>1
    <3>4. adjustment \in Nat
      BY <3>3, TrafficAdds
    <3> QED BY <2>2, <3>1, <3>2, <3>4
  <2> QED BY <2>1, <2>2
<1>2. Meters(edges) \in Nat /\ (edges # << >> => Meters(edges) > 0)
  <2>1. CASE edges = << >>
    <3>1. DOMAIN edges = {} /\ IsFiniteSet({})
      BY <2>1, FS_EmptySet
    <3>2. [i \in DOMAIN edges |-> edges[i].meters] = [i \in {} |-> 0]
      BY <3>1
    <3>3. Meters(edges) = 0
      BY <3>1, <3>2, TotalOfZeros DEF Meters
    <3> QED BY <2>1, <3>3
  <2>2. CASE edges # << >>
    BY <2>2, RouteAmounts
  <2> QED BY <2>1, <2>2
<1> HIDE DEF leg
<1>3. leg.cost \in Int
  BY <1>1
<1>4. CASE onboard = {}
  BY <1>1, <1>2, <1>4 DEF LegRowAccepted, leg
<1>5. CASE onboard # {}
  <2>1. Total(shares) = leg.cost
    BY <1>3, <1>5, LegSharesAddUp
  <2>2. shares \in [onboard -> Int]
    BY <1>3, <1>5, LegSharesFair
  <2>3. shares # << >>
    <3>1. DOMAIN shares = onboard
      BY <2>2
    <3>2. \A s : s = << >> => DOMAIN s = {}
      OBVIOUS
    <3> HIDE DEF shares
    <3> QED BY <1>5, <3>1, <3>2
  <2> HIDE DEF shares
  <2>4. LegRowAccepted(leg, shares)
    BY <1>1, <2>1, <2>3 DEF LegRowAccepted
  <2> QED BY <1>1, <1>2, <1>3, <1>5, <2>1, <2>2, <2>4 DEF leg, shares
<1> QED BY <1>4, <1>5

-----------------------------------------------------------------------------
(* What the tables ask of a calculation.  Policies of one unit, which make *)
(* nothing cheaper for the traffic, after fares of whole units (the CHECKs *)
(* of fare_policies ask for neither, the seeded policies have both).       *)
SteadyPolicies ==
  /\ \A v \in DOMAIN Policies : Policies[v].normal >= 100 /\ Policies[v].rush >= 100
  /\ \A v, w \in DOMAIN Policies : Policies[v].unit = Policies[w].unit
  /\ \A r \in Rides, v \in DOMAIN Policies :
       OldFare[r] # NoFare => WholeUnits(OldFare[r], Policies[v].unit)

Whole(amount) == \A v \in DOMAIN Policies : WholeUnits(amount, Policies[v].unit)

(* Whoever is collected is somewhere else than where they are delivered,   *)
(* so some leg of a plan leads somewhere.                                  *)
LEMMA SomeLegLeads ==
  ASSUME NEW stops \in Seq(Stops), CanBePriced(stops, MembersOf(stops), Capacity)
  PROVE  \E k \in 1..(Len(stops) - 1) : PointOf(stops[k]) # PointOf(stops[k + 1])
<1> DEFINE n == Len(stops)
<1>1. n \in Nat /\ DOMAIN stops = 1..n
  OBVIOUS
<1>2. PICK m \in MembersOf(stops) : TRUE
  <2> DEFINE stop == Stops
  <2> HIDE DEF stop
  <2>1. stops \in Seq(stop) /\ stops # << >>
    BY DEF CanBePriced, stop
  <2>2. n # 0
    BY <2>1, EmptySeq
  <2>3. 1 \in DOMAIN stops
    BY <1>1, <2>2
  <2> QED BY <2>3 DEF MembersOf
<1>3. PICK i, j \in DOMAIN stops : /\ StopOf(stops, m, TRUE) = {i}
                                   /\ StopOf(stops, m, FALSE) = {j} /\ i < j
  BY DEF CanBePriced
<1>4. /\ stops[i].member = m /\ stops[i].pickup = TRUE
      /\ stops[j].member = m /\ stops[j].pickup = FALSE
  BY <1>3 DEF StopOf
<1>5. m \in Rides
  BY MembersAreFinite
<1>6. PointOf(stops[i]) # PointOf(stops[j])
  BY <1>4, <1>5, PoolFaresAssumption DEF PointOf
<1> SUFFICES ASSUME \A k \in 1..(n - 1) : PointOf(stops[k]) = PointOf(stops[k + 1])
             PROVE  FALSE
  OBVIOUS
<1> DEFINE G == {k \in Nat : i + k <= n => PointOf(stops[i + k]) = PointOf(stops[i])}
<1>7. i \in Nat /\ j \in Nat /\ i >= 1 /\ j <= n /\ j - i \in Nat /\ i + (j - i) = j
  BY <1>1, <1>3
<1>8. 0 \in G
  <2>1. i + 0 = i
    BY <1>7
  <2> QED BY <2>1
<1>9. ASSUME NEW k \in Nat, k \in G PROVE k + 1 \in G
  <2> SUFFICES ASSUME i + (k + 1) <= n PROVE PointOf(stops[i + (k + 1)]) = PointOf(stops[i])
    OBVIOUS
  <2> DEFINE here == i + k
  <2>1. here <= n /\ here \in 1..(n - 1) /\ here + 1 = i + (k + 1)
    BY <1>1, <1>7
  <2>2. PointOf(stops[here]) = PointOf(stops[i])
    BY <1>9, <2>1
  <2> HIDE DEF here
  <2>3. PointOf(stops[here + 1]) = PointOf(stops[here])
    BY <2>1
  <2> QED BY <2>1, <2>2, <2>3
<1>10. j - i \in G
  <2> HIDE DEF G
  <2> QED BY <1>7, <1>8, <1>9, NatByInduction
<1> QED BY <1>6, <1>7, <1>10

(* The legs of a plan, their shares and what everybody's come to. *)
LEMMA LegsAreAccepted ==
  ASSUME NEW p, ReadablePolicy(p), p.normal >= 100, p.rush >= 100,
         NEW stops \in Seq(Stops), CanBePriced(stops, MembersOf(stops), Capacity)
  PROVE  LET legs == PriceLegs(p, stops)
             shares == SharesByLeg(stops, legs)
         IN  /\ \A i \in DOMAIN legs : LegRowAccepted(legs[i], shares[i])
             /\ Total([i \in DOMAIN legs |-> legs[i].meters]) > 0
             /\ Total([m \in MembersOf(stops) |-> LegCostOf(shares, m)])
                  = Total([i \in DOMAIN legs |-> legs[i].cost])
<1> DEFINE legs == PriceLegs(p, stops)
           shares == SharesByLeg(stops, legs)
           n == Len(stops)
           I == 1..(n - 1)
           M == MembersOf(stops)
           onboard == OnboardByLeg(stops)
           rush == now \in Rush
           edges(i) == LegRoute(PointOf(stops[i]), PointOf(stops[i + 1]), rush)
<1>1. n \in Nat /\ IsFiniteSet(I) /\ I = 1..(n - 1)
  <2>1. n \in Nat
    OBVIOUS
  <2> HIDE DEF n
  <2> QED BY <2>1, FS_Interval
<1>2. /\ onboard = [i \in I |-> Aboard(stops)[i]] /\ DOMAIN legs = I /\ DOMAIN shares = I
  BY DEF OnboardByLeg, PriceLegs, SharesByLeg
<1>3. IsFiniteSet(M) /\ M \subseteq Nat
  BY MembersAreFinite, PoolFaresAssumption
<1>4. ASSUME NEW i \in I
      PROVE  /\ onboard[i] \subseteq M /\ onboard[i] \in SUBSET Nat /\ IsFiniteSet(onboard[i])
             /\ edges(i) = << >> \/ ReadableLegs(edges(i))
             /\ legs[i] = PricedLeg(p, edges(i), rush, onboard[i])
             /\ shares[i] = IF onboard[i] = {} THEN << >> ELSE LegShares(legs[i].cost, onboard[i])
  <2>1. i \in 0..n /\ i \in 1..(Len(stops) - 1)
    BY <1>1
  <2>2. onboard[i] \subseteq M
    BY <1>2, <2>1, AboardAreMembers
  <2>3. legs[i] = PricedLeg(p, edges(i), rush, onboard[i])
    BY <1>2 DEF PriceLegs
  <2>4. shares[i] = IF onboard[i] = {} THEN << >> ELSE LegShares(legs[i].cost, onboard[i])
    BY <1>2 DEF SharesByLeg
  <2>5. edges(i) = << >> \/ ReadableLegs(edges(i))
    <3>1. rush \in BOOLEAN
      OBVIOUS
    <3> HIDE DEF rush
    <3> QED BY <2>1, <3>1, RoutesAreReadable
  <2> HIDE DEF legs, shares, onboard, edges, M
  <2>6. IsFiniteSet(onboard[i]) /\ onboard[i] \in SUBSET Nat
    BY <1>3, <2>2, FS_Subset
  <2> QED BY <2>2, <2>3, <2>4, <2>5, <2>6
<1> HIDE DEF legs, shares, onboard, rush
<1>5. ASSUME NEW i \in I
      PROVE  /\ LegRowAccepted(legs[i], shares[i])
             /\ legs[i].cost \in Int /\ legs[i].meters \in Nat
             /\ edges(i) # << >> => legs[i].meters > 0
             /\ onboard[i] = {} => legs[i].cost = 0
             /\ onboard[i] # {} => Total(shares[i]) = legs[i].cost /\ shares[i] \in [onboard[i] -> Int]
  <2> DEFINE e == edges(i)
             on == onboard[i]
  <2>1. /\ (e = << >> \/ ReadableLegs(e)) /\ on \in SUBSET Nat /\ IsFiniteSet(on)
        /\ legs[i] = PricedLeg(p, e, rush, on)
        /\ shares[i] = IF on = {} THEN << >> ELSE LegShares(legs[i].cost, on)
    BY <1>4
  <2> HIDE DEF e, on
  <2>2. /\ LegRowAccepted(legs[i], shares[i])
        /\ legs[i].cost \in Int /\ legs[i].meters \in Nat /\ (e # << >> => legs[i].meters > 0)
        /\ on = {} => legs[i].cost = 0
        /\ on # {} => Total(shares[i]) = legs[i].cost /\ shares[i] \in [on -> Int]
    <3> DEFINE leg == legs[i]
               given == shares[i]
    <3>1. leg = PricedLeg(p, e, rush, on) /\ given = IF on = {} THEN << >> ELSE LegShares(leg.cost, on)
      BY <2>1
    <3>2. LET l == PricedLeg(p, e, rush, on)
              s == IF on = {} THEN << >> ELSE LegShares(l.cost, on)
          IN  /\ LegRowAccepted(l, s)
              /\ l.cost \in Int /\ l.meters \in Nat /\ (e # << >> => l.meters > 0)
              /\ on = {} => l.cost = 0
              /\ on # {} => Total(s) = l.cost /\ s \in [on -> Int]
      BY <2>1, LegIsAccepted
    <3> HIDE DEF leg, given
    <3>3. /\ LegRowAccepted(leg, given)
          /\ leg.cost \in Int /\ leg.meters \in Nat /\ (e # << >> => leg.meters > 0)
          /\ on = {} => leg.cost = 0
          /\ on # {} => Total(given) = leg.cost /\ given \in [on -> Int]
      BY <3>1, <3>2, Zenon
    <3> QED BY <3>3 DEF leg, given
  <2> QED BY <2>2 DEF e, on
<1>6. Total([i \in DOMAIN legs |-> legs[i].meters]) > 0
  <2> DEFINE meters == [i \in I |-> legs[i].meters]
  <2>1. PICK k \in I : PointOf(stops[k]) # PointOf(stops[k + 1])
    BY <1>1, SomeLegLeads
  <2>2. edges(k) # << >>
    <3>1. rush \in BOOLEAN
      BY DEF rush
    <3>2. edges(k) = Route[rush][<<PointOf(stops[k]), PointOf(stops[k + 1])>>]
      BY <2>1 DEF LegRoute
    <3>3. k \in 1..Len(stops) /\ k + 1 \in 1..Len(stops)
      BY <1>1
    <3>4. stops[k] \in Stops /\ stops[k + 1] \in Stops
      <4> HIDE DEF Stops
      <4> QED BY <3>3, ElementOfSeq
    <3> DEFINE points == {From[r] : r \in Rides} \cup {To[r] : r \in Rides}
               a == PointOf(stops[k])
               b == PointOf(stops[k + 1])
    <3>5. a \in points /\ b \in points
      BY <3>4 DEF PointOf, Stops
    <3>6. \A c, d \in points : c # d => ReadableLegs(Route[rush][<<c, d>>])
      BY <3>1, RouteAssumption
    <3> HIDE DEF points
    <3>7. ReadableLegs(Route[rush][<<a, b>>])
      BY <2>1, <3>5, <3>6
    <3>8. edges(k) = Route[rush][<<a, b>>]
      BY <3>2
    <3> HIDE DEF edges, a, b
    <3> QED BY <3>7, <3>8 DEF ReadableLegs
  <2>3. meters \in [I -> Nat] /\ meters[k] > 0
    <3> HIDE DEF edges
    <3> QED BY <1>5, <2>2
  <2>4. [i \in DOMAIN legs |-> legs[i].meters] = meters
    BY <1>2
  <2> HIDE DEF meters, I
  <2> QED BY <1>1, <2>3, <2>4, TotalOfAmounts
<1>7. Total([m \in M |-> LegCostOf(shares, m)]) = Total([i \in I |-> legs[i].cost])
  <2> DEFINE b == [i \in I |-> [m \in M |-> IF m \in onboard[i] THEN shares[i][m] ELSE 0]]
             costs == [m \in M |-> LegCostOf(shares, m)]
             legCosts == [i \in I |-> legs[i].cost]
  <2> HIDE DEF M, edges
  <2>1. \A i \in I : onboard[i] \subseteq M
    BY <1>4
  <2>2. ASSUME NEW i \in I, NEW m \in onboard[i] PROVE shares[i][m] \in Int
    BY <1>5
  <2>3. b \in [I -> [M -> Int]]
    BY <2>2
  <2>4. ASSUME NEW i \in I PROVE Total(b[i]) = legCosts[i]
    <3> DEFINE on == onboard[i]
               given == shares[i]
    <3>1. b[i] = Padded(given, on, M) /\ legCosts[i] = legs[i].cost
      BY DEF Padded
    <3>2. on \in SUBSET M
      BY <2>1
    <3>3. /\ on = {} => legs[i].cost = 0
          /\ on # {} => Total(given) = legs[i].cost /\ given \in [on -> Int]
      BY <1>5
    <3> HIDE DEF on, given, b, legCosts
    <3>4. CASE on = {}
      <4>1. b[i] = [m \in M |-> 0]
        BY <3>1, <3>4 DEF Padded
      <4>2. Total([m \in M |-> 0]) = 0
        BY <1>3, TotalOfZeros
      <4> QED BY <3>1, <3>3, <3>4, <4>1, <4>2
    <3>5. CASE on # {}
      <4>1. IsFiniteSet(M) /\ on \in SUBSET M /\ given \in [on -> Int]
        BY <1>3, <3>2, <3>3, <3>5
      <4>2. Total(Padded(given, on, M)) = Total(given)
        BY <4>1, TotalPadded
      <4> QED BY <3>1, <3>3, <3>5, <4>2
    <3> QED BY <3>4, <3>5
  <2>5. ASSUME NEW m \in M PROVE Total([i \in I |-> b[i][m]]) = costs[m]
    <3> DEFINE S == {k \in I : m \in onboard[k]}
               own == [i \in S |-> shares[i][m]]
    <3>1. S \in SUBSET I /\ own \in [S -> Int]
      BY <2>2
    <3>2. [i \in I |-> b[i][m]] = Padded(own, S, I)
      BY DEF Padded
    <3>3. {k \in DOMAIN shares : m \in DOMAIN shares[k]} = S
      <4>1. ASSUME NEW k \in I PROVE DOMAIN shares[k] = onboard[k]
        <5>1. CASE onboard[k] = {}
          <6>1. shares[k] = << >>
            BY <1>4, <5>1
          <6> QED BY <5>1, <6>1
        <5>2. CASE onboard[k] # {}
          BY <1>5, <5>2
        <5> QED BY <5>1, <5>2
      <4> QED BY <1>2, <4>1
    <3>4. LegCostOf(shares, m) = Total(own)
      BY <3>3 DEF LegCostOf
    <3>5. costs[m] = LegCostOf(shares, m)
      OBVIOUS
    <3> HIDE DEF S, own, I, costs, b
    <3>6. IsFiniteSet(I) /\ S \in SUBSET I /\ own \in [S -> Int]
      BY <1>1, <3>1
    <3>7. Total(Padded(own, S, I)) = Total(own)
      BY <3>6, TotalPadded
    <3> QED BY <3>2, <3>4, <3>5, <3>7
  <2>6. /\ [i \in I |-> Total(b[i])] = legCosts
        /\ [m \in M |-> Total([i \in I |-> b[i][m]])] = costs
    <3> HIDE DEF b
    <3> QED BY <2>4, <2>5
  <2> HIDE DEF b, costs, legCosts, I
  <2>7. Total([i \in I |-> Total(b[i])]) = Total([m \in M |-> Total([i \in I |-> b[i][m]])])
    <3>1. IsFiniteSet(I) /\ IsFiniteSet(M)
      BY <1>1, <1>3
    <3> QED BY <2>3, <3>1, TotalsExchange
  <2> QED BY <2>6, <2>7 DEF costs, legCosts
<1> HIDE DEF I, M
<1> QED BY <1>2, <1>5, <1>6, <1>7 DEF legs, shares, M

(* Three amounts each, taken together. *)
Together(a, b, c, M) == [m \in M |-> a[m] + b[m] + c[m]]

LEMMA TotalTogether ==
  ASSUME NEW M, IsFiniteSet(M),
         NEW a \in [M -> Int], NEW b \in [M -> Int], NEW c \in [M -> Int]
  PROVE  Total(Together(a, b, c, M)) = Total(a) + Total(b) + Total(c)
<1> DEFINE ab == [m \in M |-> a[m] + b[m]]
<1>1. ab \in [M -> Int] /\ Together(a, b, c, M) = [m \in M |-> ab[m] + c[m]]
  BY DEF Together
<1>2. Total(ab) = Total(a) + Total(b)
  BY TotalAdds
<1> HIDE DEF ab
<1>3. Total([m \in M |-> ab[m] + c[m]]) = Total(ab) + Total(c)
  BY <1>1, TotalAdds
<1> QED BY <1>1, <1>2, <1>3

(* What holds of each passenger's row holds of the totals. *)
LEMMA TotalsAreAccepted ==
  ASSUME NEW legs, NEW fares, NEW costs \in [DOMAIN fares -> Int], IsFiniteSet(DOMAIN fares),
         Total(costs) = Total([i \in DOMAIN legs |-> legs[i].cost]),
         \A m \in DOMAIN fares : fares[m].base \in Int,
         \A m \in DOMAIN fares : fares[m].uncapped = fares[m].base + costs[m],
         \A m \in DOMAIN fares : fares[m].minimum \in Int,
         \A m \in DOMAIN fares : fares[m].final \in Int,
         \A m \in DOMAIN fares : fares[m].soloReduction \in Int,
         \A m \in DOMAIN fares : fares[m].noIncreaseReduction \in Int,
         \A m \in DOMAIN fares : fares[m].rounding \in Int,
         \A m \in DOMAIN fares :
           fares[m].final + fares[m].soloReduction + fares[m].noIncreaseReduction
             = Larger(fares[m].minimum, fares[m].uncapped) + fares[m].rounding
  PROVE  /\ Totals(legs, fares).uncapped = Totals(legs, fares).base + Totals(legs, fares).route
         /\ Totals(legs, fares).final + Totals(legs, fares).soloReduction
              + Totals(legs, fares).noIncreaseReduction
              = Totals(legs, fares).uncapped + Totals(legs, fares).uplift
                  + Totals(legs, fares).rounding
<1> DEFINE M == DOMAIN fares
           base == [m \in M |-> fares[m].base]
           uncapped == [m \in M |-> fares[m].uncapped]
           uplift == [m \in M |-> Larger(0, fares[m].minimum - fares[m].uncapped)]
           final == [m \in M |-> fares[m].final]
           byCap == [m \in M |-> fares[m].soloReduction]
           byLast == [m \in M |-> fares[m].noIncreaseReduction]
           rounding == [m \in M |-> fares[m].rounding]
           t == Totals(legs, fares)
<1>1. /\ t.base = Total(base) /\ t.uncapped = Total(uncapped) /\ t.uplift = Total(uplift)
      /\ t.final = Total(final) /\ t.soloReduction = Total(byCap)
      /\ t.noIncreaseReduction = Total(byLast) /\ t.rounding = Total(rounding)
      /\ t.route = Total([i \in DOMAIN legs |-> legs[i].cost])
  BY DEF Totals
<1>2. /\ base \in [M -> Int] /\ final \in [M -> Int] /\ byCap \in [M -> Int]
      /\ byLast \in [M -> Int] /\ rounding \in [M -> Int]
  OBVIOUS
<1>3. uncapped \in [M -> Int]
  OBVIOUS
<1>4. uplift \in [M -> Int]
  <2>1. ASSUME NEW m \in M PROVE Larger(0, fares[m].minimum - fares[m].uncapped) \in Int
    <3>1. fares[m].minimum \in Int /\ fares[m].uncapped \in Int
      OBVIOUS
    <3> QED BY <3>1 DEF Larger
  <2> QED BY <2>1
<1>5. uncapped = [m \in M |-> base[m] + costs[m]]
  OBVIOUS
<1>6. ASSUME NEW m \in M
      PROVE  final[m] + byCap[m] + byLast[m] = uncapped[m] + uplift[m] + rounding[m]
  <2>1. /\ fares[m].minimum \in Int /\ fares[m].uncapped \in Int /\ fares[m].rounding \in Int
    OBVIOUS
  <2>2. Larger(fares[m].minimum, fares[m].uncapped) + fares[m].rounding
          = fares[m].uncapped + Larger(0, fares[m].minimum - fares[m].uncapped) + fares[m].rounding
    BY <2>1 DEF Larger
  <2> QED BY <2>2
<1>7. IsFiniteSet(M) /\ costs \in [M -> Int]
  OBVIOUS
<1> HIDE DEF M, base, uncapped, uplift, final, byCap, byLast, rounding
<1>8. Total([m \in M |-> base[m] + costs[m]]) = Total(base) + Total(costs)
  BY <1>2, <1>7, TotalAdds
<1>9. Total(final) + Total(byCap) + Total(byLast) = Total(uncapped) + Total(uplift) + Total(rounding)
  <2>1. Together(final, byCap, byLast, M) = Together(uncapped, uplift, rounding, M)
    BY <1>6 DEF Together
  <2>2. Total(Together(final, byCap, byLast, M)) = Total(final) + Total(byCap) + Total(byLast)
    BY <1>2, <1>7, TotalTogether
  <2>3. Total(Together(uncapped, uplift, rounding, M))
          = Total(uncapped) + Total(uplift) + Total(rounding)
    BY <1>2, <1>3, <1>4, <1>7, TotalTogether
  <2> QED BY <2>1, <2>2, <2>3
<1> HIDE DEF t
<1>10. t.uncapped = t.base + t.route
  BY <1>1, <1>5, <1>8
<1>11. t.final + t.soloReduction + t.noIncreaseReduction = t.uncapped + t.uplift + t.rounding
  BY <1>1, <1>9
<1> QED BY <1>10, <1>11 DEF t

LEMMA CalculationIsAccepted ==
  ASSUME SteadyPolicies, NEW p, NEW v \in DOMAIN Policies, NEW version,
         NEW stops \in Seq(Stops), CanBePriced(stops, MembersOf(stops), Capacity),
         \A m \in MembersOf(stops) : solo[m] \in Nat /\ Whole(solo[m]),
         \A m : PreviousCap(p, version, m) \in Nat \cup {NoCap},
         \A m : PreviousCap(p, version, m) # NoCap => Whole(PreviousCap(p, version, m))
  PROVE  LET row == Calculation(p, stops, version, v)
         IN  ChecksAccept(row) /\ \A m \in DOMAIN row.fares : Whole(row.fares[m].final)
<1> DEFINE row == Calculation(p, stops, version, v)
           policy == Policies[v]
           legs == PriceLegs(policy, stops)
           shares == SharesByLeg(stops, legs)
           M == MembersOf(stops)
           fares == Fares(p, version, v, M, shares)
           t == Totals(legs, fares)
<1>1. /\ row.legs = legs /\ row.shares = shares /\ row.fares = fares /\ row.totals = t
  BY DEF Calculation, Shared, Row
<1>2. ReadablePolicy(policy) /\ policy.normal >= 100 /\ policy.rush >= 100
  BY PoliciesAssumption DEF SteadyPolicies
<1>3. IsFiniteSet(M)
  BY MembersAreFinite
<1> HIDE DEF row, policy
<1>4. /\ \A i \in DOMAIN legs : LegRowAccepted(legs[i], shares[i])
      /\ Total([i \in DOMAIN legs |-> legs[i].meters]) > 0
      /\ Total([m \in M |-> LegCostOf(shares, m)]) = Total([i \in DOMAIN legs |-> legs[i].cost])
  BY <1>2, LegsAreAccepted
<1>5. \A m : LegCostOf(shares, m) \in Int
  BY <1>2, SharesOfThePlan
<1> HIDE DEF legs, shares
<1>6. ASSUME NEW m \in M
      PROVE  LET f == fares[m]
             IN  /\ FareRowAccepted(f) /\ WholeUnits(f.final, policy.unit)
                 /\ f.base \in Int /\ f.uncapped = f.base + LegCostOf(shares, m) /\ f.uncapped \in Int
                 /\ f.minimum \in Int /\ f.final \in Int /\ f.soloReduction \in Int
                 /\ f.noIncreaseReduction \in Int /\ f.rounding \in Int
  <2> DEFINE cap == PreviousCap(p, version, m)
             cost == LegCostOf(shares, m)
             accepted == solo[m]
  <2>1. fares[m] = PassengerFare(policy, cost, accepted, cap)
    BY DEF Fares, policy
  <2>2. /\ cost \in Int /\ accepted \in Nat /\ cap \in Nat \cup {NoCap}
    BY <1>5
  <2>3. WholeUnits(accepted, policy.unit) /\ (cap # NoCap => WholeUnits(cap, policy.unit))
    BY DEF Whole, policy
  <2> HIDE DEF cap, cost, accepted, fares
  <2>4. LET f == PassengerFare(policy, cost, accepted, cap)
        IN  /\ FareRowAccepted(f) /\ WholeUnits(f.final, policy.unit)
            /\ f.base \in Int /\ f.uncapped = f.base + cost /\ f.uncapped \in Int
            /\ f.minimum \in Int /\ f.final \in Int /\ f.soloReduction \in Int
            /\ f.noIncreaseReduction \in Int /\ f.rounding \in Int
    BY <1>2, <2>2, <2>3, FareIsAccepted
  <2> QED BY <2>1, <2>4 DEF cost
<1>7. DOMAIN fares = M
  BY DEF Fares
<1> HIDE DEF fares, M, t
<1> DEFINE costs == [m \in M |-> LegCostOf(shares, m)]
<1>8. costs \in [M -> Int] /\ Total(costs) = Total([i \in DOMAIN legs |-> legs[i].cost])
  BY <1>4, <1>5
<1>9. \A m \in M : fares[m].uncapped = fares[m].base + costs[m]
  BY <1>6
<1>10. \A m \in M :
        /\ fares[m].base \in Int /\ fares[m].minimum \in Int /\ fares[m].final \in Int
        /\ fares[m].soloReduction \in Int /\ fares[m].noIncreaseReduction \in Int
        /\ fares[m].rounding \in Int
        /\ fares[m].final + fares[m].soloReduction + fares[m].noIncreaseReduction
             = Larger(fares[m].minimum, fares[m].uncapped) + fares[m].rounding
  BY <1>6 DEF FareRowAccepted
<1> HIDE DEF costs
<1>11. /\ Totals(legs, fares).uncapped = Totals(legs, fares).base + Totals(legs, fares).route
       /\ Totals(legs, fares).final + Totals(legs, fares).soloReduction
            + Totals(legs, fares).noIncreaseReduction
            = Totals(legs, fares).uncapped + Totals(legs, fares).uplift
                + Totals(legs, fares).rounding
  BY <1>3, <1>7, <1>8, <1>9, <1>10, TotalsAreAccepted
<1>16. CalculationAccepted(row)
  BY <1>1, <1>4, <1>11 DEF CalculationAccepted, t
<1>17. ChecksAccept(row)
  BY <1>1, <1>4, <1>6, <1>7, <1>16 DEF ChecksAccept
<1>18. \A m \in DOMAIN row.fares : Whole(row.fares[m].final)
  <2>1. \A w \in DOMAIN Policies : Policies[w].unit = policy.unit
    BY DEF SteadyPolicies, policy
  <2> QED BY <1>1, <1>6, <1>7, <2>1 DEF Whole
<1> QED BY <1>17, <1>18 DEF row


-----------------------------------------------------------------------------
(* The plans a pool gets can be priced. *)
(* Where a stop is once another one is put in at i. *)
After(k, i) == IF k < i THEN k ELSE k + 1

Moved(s, i, e, t, m, b) ==
  LET own == e.member = m /\ e.pickup = b
      old == StopOf(s, m, b)
      new == StopOf(t, m, b)
  IN  /\ old = {} /\ own => new = {i}
      /\ old = {} /\ ~own => new = {}
      /\ \A k : old = {k} /\ ~own => new = {After(k, i)}

LEMMA InsertedStops ==
  ASSUME NEW s \in Seq(Stops), NEW i \in 1..(Len(s) + 1), NEW e \in Stops, NEW m, NEW b
  PROVE  Moved(s, i, e, InsertAt(s, i, e), m, b)
<1> DEFINE t == InsertAt(s, i, e)
           n == Len(s)
<1>1. n \in Nat /\ DOMAIN s = 1..n /\ DOMAIN t = 1..(n + 1)
  <2>1. t \in Seq(Stops) /\ Len(t) = n + 1
    BY Inserted
  <2> HIDE DEF t
  <2> QED BY <2>1, LenProperties
<1>2. \A k \in 1..(n + 1) : t[k] = IF k < i THEN s[k] ELSE IF k = i THEN e ELSE s[k - 1]
  BY InsertedAt
<1> HIDE DEF t, n
<1>3. i \in 1..(n + 1)
  BY DEF n
<1>4. StopOf(t, m, b) = {k \in 1..(n + 1) : t[k].member = m /\ t[k].pickup = b}
  BY <1>1 DEF StopOf
<1>5. StopOf(s, m, b) = {k \in 1..n : s[k].member = m /\ s[k].pickup = b}
  BY <1>1 DEF StopOf
<1>6. ASSUME NEW k \in StopOf(s, m, b) PROVE After(k, i) \in StopOf(t, m, b)
  <2>1. k \in 1..n /\ s[k].member = m /\ s[k].pickup = b
    BY <1>5
  <2>2. CASE k < i
    <3>1. After(k, i) = k /\ k \in 1..(n + 1) /\ t[k] = s[k]
      BY <1>1, <1>2, <2>1, <2>2 DEF After
    <3> QED BY <1>4, <2>1, <3>1
  <2>3. CASE ~(k < i)
    <3>1. k + 1 \in 1..(n + 1) /\ ~(k + 1 < i) /\ k + 1 # i /\ (k + 1) - 1 = k
      BY <1>1, <1>3, <2>1, <2>3
    <3>2. After(k, i) = k + 1 /\ t[k + 1] = s[k]
      BY <1>2, <2>3, <3>1 DEF After
    <3> QED BY <1>4, <2>1, <3>1, <3>2
  <2> QED BY <2>2, <2>3
<1>7. ASSUME NEW k \in StopOf(t, m, b)
      PROVE  \/ \E h \in StopOf(s, m, b) : k = After(h, i)
             \/ k = i /\ e.member = m /\ e.pickup = b
  <2>1. k \in 1..(n + 1) /\ t[k].member = m /\ t[k].pickup = b
    BY <1>4
  <2>2. CASE k < i
    <3>1. k \in 1..n /\ t[k] = s[k] /\ After(k, i) = k
      BY <1>1, <1>2, <1>3, <2>1, <2>2 DEF After
    <3> QED BY <1>5, <2>1, <3>1
  <2>3. CASE k = i
    BY <1>2, <2>1, <2>3
  <2>4. CASE k > i
    <3>1. k - 1 \in 1..n /\ ~(k < i) /\ k # i /\ ~(k - 1 < i) /\ (k - 1) + 1 = k
      BY <1>1, <1>3, <2>1, <2>4
    <3>2. t[k] = s[k - 1] /\ After(k - 1, i) = k
      BY <1>2, <2>1, <3>1 DEF After
    <3> QED BY <1>5, <2>1, <3>1, <3>2
  <2>5. k < i \/ k = i \/ k > i
    BY <1>1, <1>3, <2>1
  <2> QED BY <2>2, <2>3, <2>4, <2>5
<1>8. e.member = m /\ e.pickup = b => i \in StopOf(t, m, b)
  BY <1>2, <1>3, <1>4
<1> DEFINE own == e.member = m /\ e.pickup = b
<1>9. StopOf(s, m, b) = {} /\ own => StopOf(t, m, b) = {i}
  BY <1>7, <1>8
<1>10. StopOf(s, m, b) = {} /\ ~own => StopOf(t, m, b) = {}
  BY <1>7
<1>11. ASSUME NEW k, StopOf(s, m, b) = {k}, ~own PROVE StopOf(t, m, b) = {After(k, i)}
  BY <1>6, <1>7, <1>11
<1> QED BY <1>9, <1>10, <1>11 DEF Moved, t

(* The order of two stops does not change. *)
LEMMA OrderStays ==
  ASSUME NEW h \in Int, NEW k \in Int, NEW i \in Int, h < k
  PROVE  After(h, i) < After(k, i) /\ After(h, i) \in Int /\ After(k, i) \in Int
  BY DEF After

(* A plan with two stops of a newcomer put in can be priced, if nobody is  *)
(* aboard who has no seat (acceptAddPassengerOffer asks that much).        *)
LEMMA JoinedCanBePriced ==
  ASSUME NEW s \in Seq(Stops), CanBePriced(s, MembersOf(s), Capacity),
         NEW r \in Rides, r \notin MembersOf(s),
         NEW i \in 1..(Len(s) + 1), NEW j \in 1..(Len(s) + 2), i < j,
         NEW two, two = InsertAt(InsertAt(s, i, Stop(r, TRUE)), j, Stop(r, FALSE)),
         \A k \in DOMAIN two : Cardinality(Aboard(two)[k]) <= Capacity
  PROVE  CanBePriced(two, MembersOf(two), Capacity)
<1> DEFINE in == Stop(r, TRUE)
           out == Stop(r, FALSE)
           one == InsertAt(s, i, in)
<1>1. /\ in \in Stops /\ out \in Stops /\ in.member = r /\ out.member = r
      /\ in.pickup = TRUE /\ out.pickup = FALSE
  BY NewStops DEF Stop
<1>2. Len(s) \in Nat /\ DOMAIN s = 1..Len(s)
  OBVIOUS
<1>3. two = InsertAt(one, j, out)
  OBVIOUS
<1> HIDE DEF in, out
<1>4. one \in Seq(Stops) /\ Len(one) = Len(s) + 1 /\ MembersOf(one) = MembersOf(s) \cup {r}
  <2>1. one \in Seq(Stops) /\ Len(one) = Len(s) + 1
        /\ MembersOf(one) = MembersOf(s) \cup {in.member}
    BY <1>1, Inserted
  <2> QED BY <1>1, <2>1
<1>5. \A m, b : Moved(s, i, in, one, m, b)
  BY <1>1, InsertedStops
<1> HIDE DEF one
<1>6. j \in 1..(Len(one) + 1)
  BY <1>2, <1>4
<1>7. two \in Seq(Stops) /\ Len(two) = Len(s) + 2 /\ MembersOf(two) = MembersOf(s) \cup {r}
  <2> DEFINE t == InsertAt(one, j, out)
  <2>1. t \in Seq(Stops) /\ Len(t) = Len(one) + 1 /\ MembersOf(t) = MembersOf(one) \cup {out.member}
    BY <1>1, <1>4, <1>6, Inserted
  <2> HIDE DEF t
  <2>2. Len(t) = Len(s) + 2 /\ MembersOf(t) = MembersOf(s) \cup {r}
    BY <1>1, <1>2, <1>4, <2>1
  <2>3. two = t
    BY <1>3 DEF t
  <2> QED BY <2>1, <2>2, <2>3
<1>8. \A m, b : Moved(one, j, out, two, m, b)
  BY <1>1, <1>3, <1>4, <1>6, InsertedStops
<1>9. DOMAIN two = 1..(Len(s) + 2) /\ two # << >>
  <2>1. DOMAIN two = 1..Len(two)
    BY <1>7, LenProperties
  <2>2. Len(two) = Len(s) + 2
    BY <1>7
  <2>4. \A n \in Nat : n + 2 # 0
    OBVIOUS
  <2>3. Len(<< >>) = 0
    OBVIOUS
  <2> QED BY <1>2, <2>1, <2>2, <2>3, <2>4, Zenon
<1>10. ASSUME NEW m \in MembersOf(two)
       PROVE  \E a, z \in DOMAIN two :
                StopOf(two, m, TRUE) = {a} /\ StopOf(two, m, FALSE) = {z} /\ a < z
  <2>1. StopOf(two, m, TRUE) \subseteq DOMAIN two /\ StopOf(two, m, FALSE) \subseteq DOMAIN two
    BY DEF StopOf
  <2>2. CASE m = r
    <3>1. StopOf(s, r, TRUE) = {} /\ StopOf(s, r, FALSE) = {}
      BY DEF StopOf, MembersOf
    <3>2. /\ in.member = r /\ in.pickup = TRUE /\ ~(in.pickup = FALSE)
          /\ out.member = r /\ out.pickup = FALSE /\ ~(out.pickup = TRUE)
      BY <1>1
    <3>5. StopOf(one, r, TRUE) = {i} /\ StopOf(one, r, FALSE) = {}
      BY <1>5, <3>1, <3>2 DEF Moved
    <3>6. StopOf(two, r, TRUE) = {After(i, j)}
      <4>1. Moved(one, j, out, two, r, TRUE)
        BY <1>8
      <4> QED BY <3>2, <3>5, <4>1 DEF Moved
    <3>7. StopOf(two, r, FALSE) = {j}
      <4>1. Moved(one, j, out, two, r, FALSE)
        BY <1>8
      <4> QED BY <3>2, <3>5, <4>1 DEF Moved
    <3>4. After(i, j) < j
      BY DEF After
    <3> QED BY <2>1, <2>2, <3>4, <3>6, <3>7
  <2>3. CASE m # r
    <3>1. m \in MembersOf(s)
      BY <1>7, <2>3
    <3>2. PICK h, k \in DOMAIN s :
            StopOf(s, m, TRUE) = {h} /\ StopOf(s, m, FALSE) = {k} /\ h < k
      BY <3>1 DEF CanBePriced
    <3>7. in.member # m /\ out.member # m
      BY <1>1, <2>3
    <3>3. StopOf(one, m, TRUE) = {After(h, i)} /\ StopOf(one, m, FALSE) = {After(k, i)}
      BY <1>5, <3>2, <3>7 DEF Moved
    <3>4. After(h, i) < After(k, i) /\ After(h, i) \in Int /\ After(k, i) \in Int
      <4>1. h \in Int /\ k \in Int /\ i \in Int
        BY <1>2
      <4> QED BY <3>2, <4>1, OrderStays
    <3> DEFINE a == After(h, i)
               z == After(k, i)
    <3> HIDE DEF a, z
    <3>5. StopOf(two, m, TRUE) = {After(a, j)} /\ StopOf(two, m, FALSE) = {After(z, j)}
      <4>1. StopOf(one, m, TRUE) = {a} /\ StopOf(one, m, FALSE) = {z}
        BY <3>3 DEF a, z
      <4> QED BY <1>8, <3>7, <4>1 DEF Moved
    <3>6. After(a, j) < After(z, j)
      <4>1. a \in Int /\ z \in Int /\ a < z /\ j \in Int
        BY <3>4 DEF a, z
      <4> QED BY <4>1, OrderStays
    <3> QED BY <2>1, <3>5, <3>6
  <2> QED BY <2>2, <2>3
<1>11. \A k \in DOMAIN two : two[k].member \in MembersOf(two)
  BY DEF MembersOf
<1> QED BY <1>9, <1>10, <1>11 DEF CanBePriced

(* The first plan of a pool has one passenger, and a car has a seat. *)
LEMMA UnpricedCanBePriced ==
  ASSUME NEW r \in Rides
  PROVE  CanBePriced(Unpriced(r).stops, {r}, Capacity)
<1> DEFINE s == <<Stop(r, TRUE), Stop(r, FALSE)>>
<1>1. /\ s \in Seq(Stops) /\ DOMAIN s = {1, 2} /\ Len(s) = 2 /\ s # << >>
      /\ s[1].member = r /\ s[1].pickup = TRUE /\ s[2].member = r /\ s[2].pickup = FALSE
  <2>1. s \in Seq(Stops)
    BY NewStops
  <2>2. /\ Stop(r, TRUE).member = r /\ Stop(r, TRUE).pickup = TRUE
        /\ Stop(r, FALSE).member = r /\ Stop(r, FALSE).pickup = FALSE
    BY DEF Stop
  <2> DEFINE a == Stop(r, TRUE)
             b == Stop(r, FALSE)
  <2>3. s = <<a, b>>
    OBVIOUS
  <2> HIDE DEF a, b, s
  <2>4. s[1] = a /\ s[2] = b /\ Len(s) = 2
    BY <2>3
  <2>5. DOMAIN s = 1..2 /\ 1..2 = {1, 2}
    BY <2>1, <2>4, LenProperties
  <2>6. s # << >>
    <3>1. Len(<< >>) = 0
      OBVIOUS
    <3> QED BY <2>4, <3>1
  <2> QED BY <2>1, <2>2, <2>4, <2>5, <2>6 DEF a, b
<1>2. Unpriced(r).stops = s
  BY DEF Unpriced
<1> HIDE DEF s
<1>3. StopOf(s, r, TRUE) = {1} /\ StopOf(s, r, FALSE) = {2}
  BY <1>1 DEF StopOf
<1>4. \A k \in 0..2 : Aboard(s)[k] = NowAboard(s, Aboard(s), k)
  BY <1>1, AboardUnfolds
<1>5. Aboard(s)[0] = {}
  BY <1>4 DEF NowAboard
<1>6. Aboard(s)[1] = {r}
  BY <1>1, <1>4, <1>5 DEF NowAboard
<1>7. Aboard(s)[2] = {}
  BY <1>1, <1>4, <1>6 DEF NowAboard
<1>8. Cardinality({r}) = 1 /\ Cardinality({}) = 0
  BY FS_Singleton, FS_EmptySet
<1>9. \A k \in DOMAIN s : Cardinality(Aboard(s)[k]) <= Capacity
  <2>1. Capacity \in Nat /\ 0 <= Capacity /\ 1 <= Capacity
    BY PoolFaresAssumption
  <2> QED BY <1>1, <1>6, <1>7, <1>8, <2>1
<1>10. \A k \in DOMAIN s : s[k].member \in {r}
  BY <1>1
<1>11. 1 \in DOMAIN s /\ 2 \in DOMAIN s /\ 1 < 2
  BY <1>1
<1> QED BY <1>1, <1>2, <1>3, <1>9, <1>10, <1>11 DEF CanBePriced


-----------------------------------------------------------------------------
(* Nothing the code computes is refused. *)
(* A quote is a number of whole units, with no discount for the traffic. *)
LEMMA QuoteIsAccepted ==
  ASSUME NEW p, ReadablePolicy(p), p.normal >= 100, p.rush >= 100,
         NEW edges, ReadableLegs(edges), NEW rush
  PROVE  LET priced == SoloFare(p, edges, rush)
         IN  priced.adjustment \in Nat /\ WholeUnits(priced.final, p.unit) /\ priced.final \in Nat
<1> DEFINE subtotal == p.base + DistanceCost(p, edges) + TimeCost(p, edges)
           adjustment == TrafficAdjustment(p, rush, subtotal)
           unrounded == Larger(p.minimum, subtotal + adjustment)
           priced == SoloFare(p, edges, rush)
<1>1. p.base \in Nat /\ p.minimum \in Nat /\ p.unit \in Nat \ {0}
  BY DEF ReadablePolicy
<1>2. subtotal \in Nat
  <2>1. DistanceCost(p, edges) \in Nat /\ TimeCost(p, edges) \in Nat
    BY RouteAmounts
  <2> QED BY <1>1, <2>1
<1> HIDE DEF subtotal
<1>3. adjustment \in Nat
  BY <1>2, TrafficAdds
<1> HIDE DEF adjustment
<1>4. unrounded \in Nat
  BY <1>1, <1>2, <1>3 DEF Larger
<1> HIDE DEF unrounded
<1>5. priced.final = RoundToUnit(unrounded, p.unit) /\ priced.adjustment = adjustment
  BY DEF SoloFare, subtotal, adjustment, unrounded
<1>6. WholeUnits(RoundToUnit(unrounded, p.unit), p.unit)
  BY <1>1, <1>4, RoundingIsClose
<1>7. priced.final \in Nat
  BY SoloFareType
<1> HIDE DEF priced
<1> QED BY <1>3, <1>5, <1>6, <1>7 DEF priced

(* What the tables and onboardByLeg ask of a pool: a plan that can be      *)
(* priced, and fares that are whole units.                                 *)
Priceable(plan, s) ==
  /\ plan.status # "NONE" => CanBePriced(plan.stops, MembersOf(plan.stops), Capacity)
  /\ \A i \in 1..Len(s) : \A m \in DOMAIN s[i].fares : Whole(s[i].fares[m].final)

FaresAreWhole ==
  /\ \A r \in Rides : quote[r] # NoQuote => Whole(quote[r].fare)
  /\ \A r \in Rides : solo[r] # NoFare => Whole(solo[r])
  /\ \A p \in Pools : Priceable(pool[p], rows[p])
  /\ \A next \in sweep : next.pool \in Pools

NothingIsRefused == SteadyPolicies => FaresAreWhole /\ ChecksNeverRefuse

(* A pricing no CHECK refuses. *)
Accepted(pricing, others) ==
  /\ pricing.how \notin {"checks", "plan"}
  /\ pricing.how = "priced" =>
       \E row : /\ pricing.rows = Append(others, row) /\ IsRow(row)
                /\ \A m \in DOMAIN row.fares : Whole(row.fares[m].final)

(* The pricing of a plan that can be priced meets no CHECK it breaks. *)
LEMMA PricingIsAccepted ==
  ASSUME SteadyPolicies, NEW p, NEW plan, IsPlan(plan), NEW version \in Nat,
         CanBePriced(plan.stops, MembersOf(plan.stops), Capacity),
         \A m \in MembersOf(plan.stops) : solo[m] \in Nat /\ Whole(solo[m]),
         \A m : PreviousCap(p, version, m) \in Nat \cup {NoCap},
         \A m : PreviousCap(p, version, m) # NoCap => Whole(PreviousCap(p, version, m))
  PROVE  Accepted(Pricing(p, plan, version), Superseded(p, version))
<1> DEFINE effective == EffectiveAt(Policies, now)
           v == CHOOSE v \in effective : TRUE
           row == Calculation(p, plan.stops, version, v)
           others == Superseded(p, version)
           pricing == Pricing(p, plan, version)
<1>1. \/ pricing \in {Refused(p, "version"), Refused(p, "status"),
                      Refused(p, "existing"), Refused(p, "policy")}
      \/ Cardinality(effective) = 1 /\ pricing = Stored(p, others, row)
  BY DEF Pricing
<1>2. CASE pricing \in {Refused(p, "version"), Refused(p, "status"),
                        Refused(p, "existing"), Refused(p, "policy")}
  BY <1>2 DEF Refused, Accepted
<1>3. CASE Cardinality(effective) = 1 /\ pricing = Stored(p, others, row)
  <2>1. v \in DOMAIN Policies
    <3>1. effective # {}
      BY <1>3, FS_EmptySet
    <3>2. v \in effective
      BY <3>1
    <3> QED BY <3>2 DEF EffectiveAt
  <2> HIDE DEF v, effective
  <2>2. plan.stops \in Seq(Stops)
    BY DEF IsPlan
  <2>3. ChecksAccept(row) /\ \A m \in DOMAIN row.fares : Whole(row.fares[m].final)
    BY <2>1, <2>2, CalculationIsAccepted
  <2>4. IsRow(row)
    BY DEF Calculation, Shared, Row, IsRow
  <2> HIDE DEF row, others, pricing
  <2>5. pricing = Refused(p, "collides")
          \/ pricing = [how |-> "priced", rows |-> Append(others, row)]
    BY <1>3, <2>3 DEF Stored, Written
  <2>6. pricing.how \notin {"checks", "plan"}
        /\ (pricing.how = "priced" => pricing.rows = Append(others, row))
    BY <2>5 DEF Refused
  <2> QED BY <2>3, <2>4, <2>6 DEF Accepted, pricing, others
<1> HIDE DEF pricing
<1> QED BY <1>1, <1>2, <1>3 DEF pricing

(* The caps of the next answer are fares of the last one. *)
LEMMA CapsAreWhole ==
  ASSUME NEW p, NEW plan, AreRows(rows[p]), Capped(rows[p], solo), Priceable(plan, rows[p]),
         NEW version, Previous(p, version) \in 0..Len(rows[p])
  PROVE  /\ \A m : PreviousCap(p, version, m) \in Nat \cup {NoCap}
         /\ \A m : PreviousCap(p, version, m) # NoCap => Whole(PreviousCap(p, version, m))
<1>1. \A m : PreviousCap(p, version, m) \in Nat \cup {NoCap}
  BY CapsAreFares
<1> DEFINE i == Previous(p, version)
<1>2. i # 0 => i \in 1..Len(rows[p])
  BY AreRowsType
<1>3. ASSUME NEW m, PreviousCap(p, version, m) # NoCap
      PROVE  Whole(PreviousCap(p, version, m))
  <2>1. i # 0 /\ m \in DOMAIN rows[p][i].fares
        /\ PreviousCap(p, version, m) = rows[p][i].fares[m].final
    BY <1>3 DEF PreviousCap
  <2> HIDE DEF i
  <2> QED BY <1>2, <2>1 DEF Priceable
<1> QED BY <1>1, <1>3

(* Another answer whose fares are whole units. *)
LEMMA StaysPriceable ==
  ASSUME NEW plan, CanBePriced(plan.stops, MembersOf(plan.stops), Capacity),
         NEW s, NEW old, Priceable(old, s),
         NEW others, AreRows(others), Len(others) = Len(s),
         \A i \in 1..Len(s) : others[i].fares = s[i].fares,
         NEW row, IsRow(row), \A m \in DOMAIN row.fares : Whole(row.fares[m].final)
  PROVE  Priceable(plan, Append(others, row))
<1> DEFINE t == Append(others, row)
           n == Len(s)
<1>1. /\ n \in Nat /\ Len(t) = n + 1 /\ \A i \in 1..n : t[i] = others[i]
      /\ t[n + 1] = row
  BY Appended, AreRowsType
<1>2. \A i \in 1..n : others[i].fares = s[i].fares
  OBVIOUS
<1>3. \A i \in 1..n : \A m \in DOMAIN s[i].fares : Whole(s[i].fares[m].final)
  BY DEF Priceable
<1> HIDE DEF t, n
<1>4. \A i \in 1..(n + 1) : i \in 1..n \/ i = n + 1
  BY <1>1
<1>5. \A i \in 1..(n + 1) : \A m \in DOMAIN t[i].fares : Whole(t[i].fares[m].final)
  BY <1>1, <1>2, <1>3, <1>4
<1> QED BY <1>1, <1>5 DEF Priceable, t

(* Rides in a pool were accepted at a whole fare. *)
LEMMA MembersPayWhole ==
  ASSUME Inductive, FaresAreWhole, NEW p \in Pools, NEW m \in MembersOf(pool[p].stops)
  PROVE  solo[m] \in Nat /\ Whole(solo[m])
<1>1. Good(pool[p], rows[p], solo)
  BY DEF Inductive, PoolsAreGood
<1>2. m \in Rides
  BY <1>1, MembersAreFinite DEF Good, IsPlan
<1>3. solo[m] \in Nat
  BY <1>1 DEF Good
<1> QED BY <1>2, <1>3 DEF FaresAreWhole, NoFare


-----------------------------------------------------------------------------
(* Every action keeps it. *)
LEMMA InitIsWhole == Init => NothingIsRefused
<1> SUFFICES ASSUME Init, SteadyPolicies PROVE FaresAreWhole /\ ChecksNeverRefuse
  BY DEF NothingIsRefused
<1>1. /\ quote = [r \in Rides |-> NoQuote] /\ rows = [p \in Pools |-> << >>]
      /\ solo = [r \in Rides |-> OldFare[r]] /\ sweep = {} /\ report = "none"
  BY DEF Init
<1>2. \A r \in Rides : solo[r] # NoFare => Whole(solo[r])
  BY <1>1 DEF SteadyPolicies, Whole
<1>3. ASSUME NEW p \in Pools PROVE Priceable(pool[p], rows[p])
  <2>1. rows[p] = << >> /\ \A i \in 1..Len(<< >>) : FALSE
    BY <1>1
  <2>2. (\E r \in Rides : pool[p] = Unpriced(r)) \/ pool[p] = NoPool
    BY DEF Init
  <2>3. ASSUME NEW r \in Rides
        PROVE  CanBePriced(Unpriced(r).stops, MembersOf(Unpriced(r).stops), Capacity)
    BY UnpricedCanBePriced, UnpricedIsPlan
  <2> QED BY <2>1, <2>2, <2>3 DEF Priceable, NoPool
<1> QED BY <1>1, <1>2, <1>3 DEF FaresAreWhole, ChecksNeverRefuse

LEMMA QuoteIsWhole ==
  ASSUME SteadyPolicies, Inductive, FaresAreWhole, NEW r \in Rides, NEW departure, Quote(r, departure)
  PROVE  FaresAreWhole' /\ ChecksNeverRefuse'
<1> DEFINE effective == EffectiveAt(Policies, departure)
           rush == departure \in Rush
           v == CHOOSE v \in effective : TRUE
           p == Policies[v]
           priced == SoloFare(p, Route[rush][<<From[r], To[r]>>], rush)
<1>1. UNCHANGED <<solo, pool, rows, sweep>>
  BY DEF Quote
<1>2. CASE Cardinality(effective) # 1
  <2>1. report' = "policy" /\ quote' = quote
    BY <1>2 DEF Quote
  <2> QED BY <1>1, <2>1 DEF FaresAreWhole, ChecksNeverRefuse
<1>3. CASE Cardinality(effective) = 1
  <2>1. /\ report' = IF priced.adjustment < 0 THEN "checks" ELSE "none"
        /\ report' = "none" =>
             quote' = [quote EXCEPT ![r] = [fare |-> priced.final, expires |-> now + p.ttl]]
    BY <1>3 DEF Quote
  <2>2. effective # {}
    BY <1>3, FS_EmptySet
  <2>3. v \in DOMAIN Policies
    <3>1. v \in effective
      BY <2>2
    <3> QED BY <3>1 DEF EffectiveAt
  <2> HIDE DEF v
  <2>4. ReadablePolicy(p) /\ p.normal >= 100 /\ p.rush >= 100
    BY <2>3, PoliciesAssumption DEF SteadyPolicies
  <2>5. ReadableLegs(Route[rush][<<From[r], To[r]>>])
    <3>1. rush \in BOOLEAN /\ From[r] # To[r]
      BY PoolFaresAssumption
    <3> HIDE DEF rush
    <3> QED BY <3>1, RouteAssumption
  <2>6. priced.adjustment \in Nat /\ WholeUnits(priced.final, p.unit)
    <3> DEFINE edges == Route[rush][<<From[r], To[r]>>]
    <3>1. ReadableLegs(edges)
      BY <2>5
    <3> HIDE DEF edges, p, rush
    <3>2. LET f == SoloFare(p, edges, rush)
          IN  f.adjustment \in Nat /\ WholeUnits(f.final, p.unit)
      BY <2>4, <3>1, QuoteIsAccepted
    <3> QED BY <3>2 DEF edges
  <2>7. Whole(priced.final)
    <3>1. \A w \in DOMAIN Policies : Policies[w].unit = p.unit
      BY <2>3 DEF SteadyPolicies
    <3> HIDE DEF priced, p
    <3> QED BY <2>6, <3>1 DEF Whole
  <2> HIDE DEF priced
  <2>8. ~(priced.adjustment < 0)
    BY <2>6
  <2>9. report' = "none"
    BY <2>1, <2>8
  <2>10. PICK q : q = [fare |-> priced.final, expires |-> now + p.ttl]
    OBVIOUS
  <2>11. quote' = [quote EXCEPT ![r] = q] /\ q.fare = priced.final
    BY <2>1, <2>9, <2>10
  <2>12. \A o \in Rides : quote'[o] = IF o = r THEN q ELSE quote[o]
    BY <2>11 DEF Inductive, Domains
  <2>13. \A o \in Rides : quote'[o] # NoQuote => Whole(quote'[o].fare)
    BY <2>7, <2>11, <2>12 DEF FaresAreWhole
  <2> QED BY <1>1, <2>9, <2>13 DEF FaresAreWhole, ChecksNeverRefuse
<1> QED BY <1>2, <1>3

LEMMA AcceptedIsWhole ==
  ASSUME Inductive, FaresAreWhole, NEW r \in Rides, AcceptQuote(r)
  PROVE  FaresAreWhole' /\ ChecksNeverRefuse'
<1>1. /\ solo' = [solo EXCEPT ![r] = quote[r].fare] /\ quote' = [quote EXCEPT ![r] = NoQuote]
      /\ UNCHANGED <<pool, rows, sweep>> /\ quote[r] # NoQuote /\ report' = "none"
  BY DEF AcceptQuote
<1>2. \A o \in Rides : /\ solo'[o] = IF o = r THEN quote[r].fare ELSE solo[o]
                       /\ quote'[o] = IF o = r THEN NoQuote ELSE quote[o]
  BY <1>1 DEF Inductive, Domains
<1> QED BY <1>1, <1>2 DEF FaresAreWhole, ChecksNeverRefuse

(* One pool and its rows change. *)
LEMMA OnePoolIsPriceable ==
  ASSUME Inductive, FaresAreWhole, NEW p \in Pools, NEW plan, NEW s,
         pool' = [pool EXCEPT ![p] = plan], rows' = [rows EXCEPT ![p] = s],
         UNCHANGED <<quote, solo>>, sweep' \subseteq sweep, Priceable(plan, s)
  PROVE  FaresAreWhole'
<1>1. \A o \in Pools : /\ pool'[o] = IF o = p THEN plan ELSE pool[o]
                       /\ rows'[o] = IF o = p THEN s ELSE rows[o]
  BY DEF Inductive, Domains
<1>2. \A o \in Pools : Priceable(pool'[o], rows'[o])
  BY <1>1 DEF FaresAreWhole
<1> QED BY <1>2 DEF FaresAreWhole

(* No plan change is lost to its fares. *)
LEMMA ChangeIsAccepted ==
  ASSUME SteadyPolicies, Inductive, FaresAreWhole, NEW p \in Pools,
         pool[p].status # "DEPARTED",
         NEW plan, IsPlan(plan), plan.version = pool[p].version + 1,
         CanBePriced(plan.stops, MembersOf(plan.stops), Capacity),
         \A m \in MembersOf(plan.stops) : solo[m] \in Nat /\ Whole(solo[m]),
         ChangePlan(p, plan)
  PROVE  FaresAreWhole' /\ ChecksNeverRefuse'
<1> DEFINE version == pool[p].version + 1
           s == rows[p]
           n == Len(s)
           others == Superseded(p, version)
           pricing == Pricing(p, plan, version)
<1>1. Good(pool[p], s, solo)
  BY DEF Inductive, PoolsAreGood
<1>2. /\ AreRows(s) /\ Follow(s, pool[p]) /\ IsPlan(pool[p]) /\ Capped(s, solo)
      /\ n \in Nat /\ pool[p].version \in Nat /\ version \in Nat
  BY <1>1, AreRowsType DEF Good, IsPlan
<1>3. Previous(p, version) \in 0..n
  <2>1. Previous(p, version) = n
    BY <1>2, OlderRows
  <2> QED BY <1>2, <2>1
<1>4. Priceable(pool[p], s)
  BY DEF FaresAreWhole
<1>5. /\ \A m : PreviousCap(p, version, m) \in Nat \cup {NoCap}
      /\ \A m : PreviousCap(p, version, m) # NoCap => Whole(PreviousCap(p, version, m))
  BY <1>2, <1>3, <1>4, CapsAreWhole
<1> HIDE DEF version, n, s
<1>6. Accepted(pricing, others)
  BY <1>2, <1>5, PricingIsAccepted
<1>7. /\ report' = pricing.how /\ UNCHANGED <<quote, solo, sweep>>
      /\ IF pricing.how = "priced"
         THEN pool' = [pool EXCEPT ![p] = plan] /\ rows' = [rows EXCEPT ![p] = pricing.rows]
         ELSE UNCHANGED <<pool, rows>>
  BY DEF ChangePlan, version
<1>8. AreRows(others) /\ Len(others) = n /\ \A i \in 1..n : others[i].fares = s[i].fares
  BY <1>2, SupersededForNewPlan DEF Alike, version, n, s
<1> HIDE DEF pricing, others
<1>9. CASE pricing.how = "priced"
  <2>1. PICK row : /\ pricing.rows = Append(others, row) /\ IsRow(row)
                   /\ \A m \in DOMAIN row.fares : Whole(row.fares[m].final)
    BY <1>6, <1>9 DEF Accepted
  <2>2. Priceable(plan, Append(others, row))
    BY <1>4, <1>8, <2>1, StaysPriceable DEF n
  <2>3. FaresAreWhole'
    BY <1>7, <1>9, <2>1, <2>2, OnePoolIsPriceable
  <2> QED BY <1>6, <1>7, <2>3 DEF Accepted, ChecksNeverRefuse
<1>10. CASE pricing.how # "priced"
  BY <1>6, <1>7, <1>10 DEF Accepted, FaresAreWhole, ChecksNeverRefuse
<1> QED BY <1>9, <1>10


(* The length of a sequence is that of its domain. *)
LEMMA LenOfDomain ==
  ASSUME NEW t, NEW n \in Nat, DOMAIN t = 1..n
  PROVE  Len(t) = n
  OBVIOUS

LEMMA FreePaysWhole ==
  ASSUME Inductive, FaresAreWhole, NEW r \in Rides, Free(r)
  PROVE  solo[r] \in Nat /\ Whole(solo[r])
<1>1. solo[r] # NoFare
  BY DEF Free
<1> QED BY <1>1, FreeRider DEF FaresAreWhole

LEMMA OpenedIsAccepted ==
  ASSUME SteadyPolicies, Inductive, FaresAreWhole, NEW p \in Pools, NEW r \in Rides, OpenPool(p, r)
  PROVE  FaresAreWhole' /\ ChecksNeverRefuse'
<1> DEFINE plan == Unpriced(r)
<1>1. pool[p] = NoPool /\ Free(r) /\ ChangePlan(p, plan)
  BY DEF OpenPool
<1>2. IsPlan(plan) /\ plan.version = 1 /\ MembersOf(plan.stops) = {r}
  BY UnpricedIsPlan
<1>3. CanBePriced(plan.stops, MembersOf(plan.stops), Capacity)
  BY <1>2, UnpricedCanBePriced
<1>4. pool[p].version = 0 /\ pool[p].status # "DEPARTED"
  BY <1>1, NoPoolIsPlan DEF NoPool
<1>5. \A m \in MembersOf(plan.stops) : solo[m] \in Nat /\ Whole(solo[m])
  BY <1>1, <1>2, FreePaysWhole
<1>6. plan.version = pool[p].version + 1
  BY <1>2, <1>4
<1> HIDE DEF plan
<1> QED BY <1>1, <1>2, <1>3, <1>4, <1>5, <1>6, ChangeIsAccepted

LEMMA JoinIsAccepted ==
  ASSUME SteadyPolicies, Inductive, FaresAreWhole, NEW p \in Pools, NEW r \in Rides,
         NEW i \in 1..(Len(pool[p].stops) + 2), NEW j \in 1..(Len(pool[p].stops) + 2),
         Join(p, r, i, j)
  PROVE  FaresAreWhole' /\ ChecksNeverRefuse'
<1> DEFINE stops == pool[p].stops
           one == InsertAt(stops, i, Stop(r, TRUE))
           two == InsertAt(one, j, Stop(r, FALSE))
           plan == [status |-> pool[p].status, version |-> pool[p].version + 1, stops |-> two]
<1>1. /\ pool[p].status = "FORMING" /\ Free(r) /\ i < j /\ i <= Len(stops) + 1
      /\ j <= Len(stops) + 2 /\ ChangePlan(p, plan)
      /\ \A k \in DOMAIN two : Cardinality(Aboard(two)[k]) <= Capacity
  BY DEF Join
<1>2. IsPlan(pool[p])
  BY DEF Inductive, PoolsAreGood, Good
<1>3. stops \in Seq(Stops) /\ Len(stops) \in Nat /\ pool[p].version \in Nat
  BY <1>2 DEF IsPlan
<1>4. CanBePriced(stops, MembersOf(stops), Capacity)
  BY <1>1 DEF FaresAreWhole, Priceable
<1>5. r \notin MembersOf(stops)
  BY <1>1, FreeRider
<1>6. \A m \in MembersOf(stops) : solo[m] \in Nat /\ Whole(solo[m])
  BY MembersPayWhole
<1>7. i \in 1..(Len(stops) + 1) /\ j \in 1..(Len(stops) + 2)
  BY <1>1, <1>3
<1>8. /\ Stop(r, TRUE) \in Stops /\ Stop(r, FALSE) \in Stops
      /\ Stop(r, TRUE).member = r /\ Stop(r, FALSE).member = r
  BY NewStops
<1>9. two = InsertAt(InsertAt(stops, i, Stop(r, TRUE)), j, Stop(r, FALSE))
  OBVIOUS
<1> HIDE DEF stops
<1>10. one \in Seq(Stops) /\ Len(one) = Len(stops) + 1 /\ MembersOf(one) = MembersOf(stops) \cup {r}
  BY <1>3, <1>7, <1>8, Inserted
<1> HIDE DEF one
<1>11. two \in Seq(Stops) /\ MembersOf(two) = MembersOf(stops) \cup {r}
  <2>1. j \in 1..(Len(one) + 1)
    BY <1>3, <1>7, <1>10
  <2>2. two \in Seq(Stops) /\ MembersOf(two) = MembersOf(one) \cup {Stop(r, FALSE).member}
    BY <1>8, <1>10, <2>1, Inserted
  <2> QED BY <1>8, <1>10, <2>2
<1> HIDE DEF two
<1>12. CanBePriced(two, MembersOf(two), Capacity)
  BY <1>1, <1>3, <1>4, <1>5, <1>7, <1>9, JoinedCanBePriced
<1>13. /\ IsPlan(plan) /\ plan.version = pool[p].version + 1 /\ plan.stops = two
  BY <1>1, <1>3, <1>11 DEF IsPlan
<1>14. \A m \in MembersOf(two) : solo[m] \in Nat /\ Whole(solo[m])
  <2>1. solo[r] \in Nat /\ Whole(solo[r])
    BY <1>1, FreePaysWhole
  <2> QED BY <1>6, <1>11, <2>1
<1>15. pool[p].status # "DEPARTED"
  BY <1>1
<1> HIDE DEF plan
<1>16. CanBePriced(plan.stops, MembersOf(plan.stops), Capacity)
  BY <1>12, <1>13
<1>17. \A m \in MembersOf(plan.stops) : solo[m] \in Nat /\ Whole(solo[m])
  BY <1>13, <1>14
<1> QED BY <1>1, <1>13, <1>15, <1>16, <1>17, ChangeIsAccepted

LEMMA DepartedIsWhole ==
  ASSUME Inductive, FaresAreWhole, NEW p \in Pools, Depart(p)
  PROVE  FaresAreWhole' /\ ChecksNeverRefuse'
<1> DEFINE s == rows[p]
           current == {i \in DOMAIN s : s[i].status = "CURRENT"}
           settled == {i \in DOMAIN s : s[i].status = "FINALIZED"}
           t == [i \in DOMAIN s |->
                   IF i \in current THEN [s[i] EXCEPT !.status = "FINALIZED"] ELSE s[i]]
<1>1. UNCHANGED <<quote, solo, sweep>> /\ pool[p].status = "FORMING"
      /\ report' \in {"settled", "unsettled"}
  BY DEF Depart
<1>2. Good(pool[p], s, solo) /\ Priceable(pool[p], s)
  BY DEF Inductive, PoolsAreGood, FaresAreWhole
<1>3. Len(s) \in Nat /\ DOMAIN s = 1..Len(s) /\ \A i \in 1..Len(s) : IsRow(s[i])
  BY <1>2, AreRowsType DEF Good
<1>4. CASE current \cup settled = {}
  <2>1. UNCHANGED <<pool, rows>>
    BY <1>4 DEF Depart
  <2> QED BY <1>1, <2>1 DEF FaresAreWhole, ChecksNeverRefuse
<1>5. CASE current \cup settled # {}
  <2>1. rows' = [rows EXCEPT ![p] = t]
    BY <1>5 DEF Depart
  <2>2. pool' = [pool EXCEPT ![p].status = "DEPARTED"]
    BY <1>5 DEF Depart
  <2>3. PICK d : d = [pool[p] EXCEPT !.status = "DEPARTED"]
    OBVIOUS
  <2>4. pool' = [pool EXCEPT ![p] = d]
    BY <2>2, <2>3, Zenon
  <2>5. d.status = "DEPARTED" /\ d.stops = pool[p].stops
    <3>1. pool[p] = [status |-> pool[p].status, version |-> pool[p].version,
                     stops |-> pool[p].stops]
      BY <1>2 DEF Good, IsPlan
    <3> QED BY <2>3, <3>1
  <2>6. ASSUME NEW i \in 1..Len(s) PROVE t[i].fares = s[i].fares
    <3>1. t[i] = s[i] \/ t[i] = [s[i] EXCEPT !.status = "FINALIZED"]
      BY <1>3
    <3> DEFINE c == s[i]
               final == [c EXCEPT !.status = "FINALIZED"]
    <3>2. IsRow(c)
      BY <1>3
    <3> HIDE DEF c
    <3>3. final.fares = c.fares
      BY <3>2, StatusOnly
    <3>4. t[i] = c \/ t[i] = final
      BY <3>1 DEF c
    <3> HIDE DEF t, final
    <3>5. t[i].fares = c.fares
      BY <3>3, <3>4
    <3> QED BY <3>5 DEF c
  <2>7. Len(t) = Len(s)
    <3>1. DOMAIN t = 1..Len(s)
      BY <1>3
    <3> HIDE DEF t, s
    <3> QED BY <1>3, <3>1, LenOfDomain
  <2> HIDE DEF t, s
  <2>8. Priceable(d, t)
    BY <1>1, <1>2, <2>5, <2>6, <2>7 DEF Priceable
  <2>9. FaresAreWhole'
    BY <1>1, <2>1, <2>4, <2>8, OnePoolIsPriceable
  <2> QED BY <1>1, <2>9 DEF ChecksNeverRefuse
<1> QED BY <1>4, <1>5

LEMMA RepairIsAccepted ==
  ASSUME SteadyPolicies, Inductive, FaresAreWhole, RepairNext
  PROVE  FaresAreWhole' /\ ChecksNeverRefuse'
<1>0. PICK next \in sweep :
        /\ rows' = [rows EXCEPT ![next.pool] =
                      Pricing(next.pool, pool[next.pool], next.version).rows]
        /\ report' = Pricing(next.pool, pool[next.pool], next.version).how
        /\ sweep' = sweep \ {next} /\ UNCHANGED <<quote, solo, pool>>
  BY DEF RepairNext
<1> DEFINE p == next.pool
           version == next.version
           plan == pool[p]
           s == rows[p]
           n == Len(s)
           pricing == Pricing(p, plan, version)
<1>1. /\ rows' = [rows EXCEPT ![p] = pricing.rows] /\ report' = pricing.how
      /\ sweep' \subseteq sweep /\ UNCHANGED <<quote, solo, pool>>
  BY <1>0
<1>2. p \in Pools
  BY DEF FaresAreWhole
<1>3. Good(plan, s, solo) /\ Priceable(plan, s)
  BY <1>2 DEF Inductive, PoolsAreGood, FaresAreWhole
<1>4. pool' = [pool EXCEPT ![p] = plan] /\ rows = [rows EXCEPT ![p] = s]
  BY <1>1, <1>2 DEF Inductive, Domains
<1>5. \A m \in MembersOf(plan.stops) : solo[m] \in Nat /\ Whole(solo[m])
  BY <1>2, MembersPayWhole
<1> HIDE DEF p, version
<1>6. CASE plan.version # version \/ plan.status # "FORMING"
  <2>1. pricing = Refused(p, "version") \/ pricing = Refused(p, "status")
    BY <1>6 DEF Pricing
  <2>2. pricing.how \in {"version", "status"} /\ pricing.rows = s
    BY <2>1 DEF Refused
  <2> HIDE DEF pricing, plan, s
  <2>3. rows' = [rows EXCEPT ![p] = s]
    BY <1>1, <2>2
  <2>4. FaresAreWhole'
    BY <1>1, <1>2, <1>3, <1>4, <2>3, OnePoolIsPriceable
  <2> QED BY <1>1, <2>2, <2>4 DEF ChecksNeverRefuse
<1>7. CASE plan.version = version /\ plan.status = "FORMING"
  <2>1. /\ AreRows(s) /\ Follow(s, plan) /\ IsPlan(plan) /\ Capped(s, solo)
        /\ n \in Nat /\ version \in Nat
    BY <1>3, <1>7, AreRowsType DEF Good, IsPlan
  <2>2. CanBePriced(plan.stops, MembersOf(plan.stops), Capacity)
    BY <1>3, <1>7 DEF Priceable
  <2>3. Previous(p, version) \in 0..n
    <3>1. (n = 0 => Previous(p, version) = 0) /\ (n # 0 => Previous(p, version) = n - 1)
      BY <1>7, <2>1, OlderRows
    <3> QED BY <2>1, <3>1
  <2>4. Superseded(p, version) = s
    BY <1>7, <2>1, SupersededForSamePlan
  <2>5. /\ \A m : PreviousCap(p, version, m) \in Nat \cup {NoCap}
        /\ \A m : PreviousCap(p, version, m) # NoCap => Whole(PreviousCap(p, version, m))
    BY <1>3, <2>1, <2>3, CapsAreWhole
  <2> HIDE DEF plan
  <2>6. Accepted(pricing, Superseded(p, version))
    BY <1>5, <2>1, <2>2, <2>5, PricingIsAccepted
  <2>7. pricing.how # "priced" => pricing.rows = s
    BY NotPriced
  <2> HIDE DEF pricing, s, n
  <2>8. Priceable(plan, pricing.rows)
    <3>1. CASE pricing.how = "priced"
      <4>1. PICK row : /\ pricing.rows = Append(s, row) /\ IsRow(row)
                       /\ \A m \in DOMAIN row.fares : Whole(row.fares[m].final)
        BY <2>4, <2>6, <3>1 DEF Accepted
      <4>2. Priceable(plan, Append(s, row))
        BY <1>3, <2>1, <2>2, <4>1, StaysPriceable
      <4> QED BY <4>1, <4>2
    <3>2. CASE pricing.how # "priced"
      BY <1>3, <2>7, <3>2
    <3> QED BY <3>1, <3>2
  <2>9. FaresAreWhole'
    BY <1>1, <1>2, <1>4, <2>8, OnePoolIsPriceable
  <2> QED BY <1>1, <2>6, <2>9 DEF Accepted, ChecksNeverRefuse
<1> QED BY <1>6, <1>7

LEMMA NextIsAccepted == Inductive /\ NothingIsRefused /\ [Next]_vars => NothingIsRefused'
<1> SUFFICES ASSUME Inductive, NothingIsRefused, [Next]_vars, SteadyPolicies
             PROVE  FaresAreWhole' /\ ChecksNeverRefuse'
  BY DEF NothingIsRefused, SteadyPolicies
<1>1. FaresAreWhole /\ ChecksNeverRefuse
  BY DEF NothingIsRefused
<1>2. ASSUME NEW r \in Rides, NEW d \in 0..LastInstant, Quote(r, d)
      PROVE  FaresAreWhole' /\ ChecksNeverRefuse'
  BY <1>1, <1>2, QuoteIsWhole
<1>3. ASSUME NEW r \in Rides, AcceptQuote(r) PROVE FaresAreWhole' /\ ChecksNeverRefuse'
  BY <1>1, <1>3, AcceptedIsWhole
<1>4. ASSUME NEW p \in Pools, NEW r \in Rides, OpenPool(p, r)
      PROVE  FaresAreWhole' /\ ChecksNeverRefuse'
  BY <1>1, <1>4, OpenedIsAccepted
<1>5. ASSUME NEW p \in Pools, NEW r \in Rides,
             NEW i \in 1..(Len(pool[p].stops) + 2), NEW j \in 1..(Len(pool[p].stops) + 2),
             Join(p, r, i, j)
      PROVE  FaresAreWhole' /\ ChecksNeverRefuse'
  BY <1>1, <1>5, JoinIsAccepted
<1>6. ASSUME NEW p \in Pools, Depart(p) PROVE FaresAreWhole' /\ ChecksNeverRefuse'
  BY <1>1, <1>6, DepartedIsWhole
<1>7. ASSUME RepairNext PROVE FaresAreWhole' /\ ChecksNeverRefuse'
  BY <1>1, <1>7, RepairIsAccepted
<1>8. ASSUME StartRepair PROVE FaresAreWhole' /\ ChecksNeverRefuse'
  <2> DEFINE forming == {p \in Pools : pool[p].status = "FORMING"}
             examined == {p \in forming : Rank(forming, p) < SweepLimit}
             stale == {p \in examined : ~UpToDate(p)}
  <2>1. UNCHANGED <<quote, solo, pool, rows>> /\ report' = "none"
    BY <1>8 DEF StartRepair
  <2>2. sweep' = {[pool |-> p, version |-> pool[p].version] : p \in stale}
    BY <1>8 DEF StartRepair
  <2>3. stale \subseteq Pools
    OBVIOUS
  <2> HIDE DEF stale
  <2>4. \A next \in sweep' : next.pool \in Pools
    BY <2>2, <2>3
  <2> QED BY <1>1, <2>1, <2>4 DEF FaresAreWhole, ChecksNeverRefuse
<1>9. ASSUME Tick \/ Release PROVE FaresAreWhole' /\ ChecksNeverRefuse'
  <2>1. /\ UNCHANGED <<quote, solo, pool, rows>> /\ report' = "none"
        /\ sweep' \subseteq sweep
    BY <1>9 DEF Tick, Release
  <2> QED BY <1>1, <2>1 DEF FaresAreWhole, ChecksNeverRefuse
<1>10. ASSUME UNCHANGED vars PROVE FaresAreWhole' /\ ChecksNeverRefuse'
  BY <1>1, <1>10 DEF vars, FaresAreWhole, ChecksNeverRefuse
<1> QED BY <1>2, <1>3, <1>4, <1>5, <1>6, <1>7, <1>8, <1>9, <1>10 DEF Next

(* Where the policies keep one unit, no multiplier is below one and the    *)
(* fares accepted before were whole units, whatever the routes, the rates, *)
(* the plans and the order of events: no CHECK of the fare tables refuses  *)
(* what the code computed, and no plan it made is one it cannot price      *)
(* (quoteSoloFare, recalculatePoolFares, onboardByLeg).                    *)
THEOREM ChecksNeverRefuseHolds == Spec => [](SteadyPolicies => ChecksNeverRefuse)
<1>1. NothingIsRefused => (SteadyPolicies => ChecksNeverRefuse)
  BY DEF NothingIsRefused
<1> QED BY <1>1, InitIsWhole, NextIsAccepted, InductiveHolds, PTL DEF Spec
=============================================================================
