---------------------------- MODULE InsertionPlans ----------------------------
(***************************************************************************)
(* matching.rules.js: every way of putting a new passenger into the stops  *)
(* of a pool, what it costs everybody, whether the limits allow it, and    *)
(* which of two plans is better; and pool.service.js's rewrite of the      *)
(* stored stops into the order a plan has chosen.                          *)
(*                                                                         *)
(* A stop is [member, pickup, point].  Times are seconds in one unit;      *)
(* distances decide nothing and are left out.                              *)
(***************************************************************************)
EXTENDS Integers, SequencesExt

(* NEW_MEMBER_KEY, which sorts after every member's id. *)
NewMember == 1000
Unroutable == -1

Larger(a, b) == IF a >= b THEN a ELSE b
Smaller(a, b) == IF a <= b THEN a ELSE b
Greatest(S) == CHOOSE x \in S : \A y \in S : y <= x

Stop(m, pickup, point) == [member |-> m, pickup |-> pickup, point |-> point]
MembersOf(stops) == {stops[i].member : i \in DOMAIN stops}
PlaceOf(stops, m, pickup) ==
  CHOOSE i \in DOMAIN stops : stops[i].member = m /\ stops[i].pickup = pickup

(* simulateOccupancy: a plan is valid when everybody gets in once and out  *)
(* once, in that order, and no segment is too full.                        *)
Occupancy(stops) ==
  LET after[i \in 0..Len(stops)] ==
        IF i = 0 THEN 0
        ELSE after[i - 1] + (IF stops[i].pickup THEN 1 ELSE -1)
  IN  after

Fits(stops, capacity) ==
  \A i \in DOMAIN stops :
    LET others == {j \in DOMAIN stops \ {i} : stops[j].member = stops[i].member}
    IN  /\ \E j \in others : /\ others = {j}
                             /\ stops[j].pickup = ~stops[i].pickup
                             /\ IF stops[i].pickup THEN i < j ELSE j < i
        /\ Occupancy(stops)[i] <= capacity

(* insertionPositions, buildProposedStops: the other stops keep their order. *)
Positions(n) == {ij \in (1..(n + 2)) \X (1..(n + 2)) : ij[1] < ij[2]}

Proposed(stops, from, to, ij) ==
  InsertAt(InsertAt(stops, ij[1], Stop(NewMember, TRUE, from)), ij[2],
           Stop(NewMember, FALSE, to))

-----------------------------------------------------------------------------
(* legRouter: nothing to drive between a point and itself. *)
LegTime(travel, a, b) == IF a = b THEN 0 ELSE travel[<<a, b>>]

Legs(travel, stops) ==
  [i \in 1..(Len(stops) - 1) |-> LegTime(travel, stops[i].point, stops[i + 1].point)]

(* How long it takes to get to the end of every leg. *)
Elapsed(legs) ==
  LET upTo[i \in 0..Len(legs)] == IF i = 0 THEN 0 ELSE upTo[i - 1] + legs[i] IN upTo

Sum(legs) == Elapsed(legs)[Len(legs)]

(* plannedArrivals: the first stop after the approach, every later one     *)
(* after the legs before it.                                               *)
Arrivals(approach, legs, at) ==
  LET elapsed == Elapsed(legs)
  IN  [i \in 1..(Len(legs) + 1) |-> at + approach + elapsed[i - 1]]

RideTime(stops, arrivals, m) ==
  arrivals[PlaceOf(stops, m, FALSE)] - arrivals[PlaceOf(stops, m, TRUE)]

(* planMetrics.  The detour of a passenger is measured against the journey *)
(* their own quote promised; one without a known promise has none.  The    *)
(* ratio is in hundredths, rounded up: over a whole limit before the       *)
(* rounding is over it after.                                              *)
Detour(promised, rideTime) == rideTime - promised
Ratio(promised, rideTime) ==
  IF promised > 0 THEN -((-100 * rideTime) \div promised) ELSE 0

Metrics(stops, approach, legs, existing, promises, requested, at) ==
  LET arrivals == Arrivals(approach, legs, at)
      known == (MembersOf(stops) \ {NewMember}) \cap DOMAIN promises
      ride == [m \in known |-> RideTime(stops, arrivals, m)]
  IN  [added |-> Sum(legs) - existing,
       wait |-> Larger(0, arrivals[PlaceOf(stops, NewMember, TRUE)] - requested),
       detour |-> Greatest({0} \cup {Detour(promises[m], ride[m]) : m \in known}),
       ratio |-> Greatest({0} \cup {Ratio(promises[m], ride[m]) : m \in known})]

(* validatePlan *)
Allowed(fits, metrics, limits) ==
  /\ fits
  /\ metrics.wait <= limits.wait
  /\ metrics.added <= limits.added
  /\ metrics.detour <= limits.detour
  /\ metrics.ratio <= limits.ratio

(* scorePlan *)
Score(metrics, weights) ==
  Larger(0, metrics.added) + metrics.wait * weights.wait + metrics.detour * weights.detour

(* comparePlans: seconds of harm, driving, waiting, the older pool, its    *)
(* id, and the stop order as the last tie-break.                           *)
StopBefore(s, t) ==
  \/ ~s.pickup /\ t.pickup
  \/ s.pickup = t.pickup /\ s.point < t.point
  \/ s.pickup = t.pickup /\ s.point = t.point /\ s.member < t.member

OrderBefore(s, t) ==
  \E i \in DOMAIN s \cap DOMAIN t :
    /\ \A k \in 1..(i - 1) : s[k] = t[k]
    /\ StopBefore(s[i], t[i])

RankOf(plan) ==
  <<plan.score, plan.metrics.added, plan.metrics.wait, plan.created, plan.pool>>

MutantBetter(a, b) ==  \* mutant: the least added driving comes first
  a.metrics.added < b.metrics.added

Better(a, b) ==
  \/ \E i \in 1..5 : /\ \A k \in 1..(i - 1) : RankOf(a)[k] = RankOf(b)[k]
                     /\ RankOf(a)[i] < RankOf(b)[i]
  \/ RankOf(a) = RankOf(b) /\ OrderBefore(a.stops, b.stops)

BestOf(plans) == CHOOSE a \in plans : \A b \in plans : ~Better(b, a)

-----------------------------------------------------------------------------
(* addMemberToPool writes the new order into rows whose sequence numbers   *)
(* are unique at every statement, and whose drop-offs must stand after     *)
(* their pickup whenever they are written (enforce_pool_stop_consistency). *)
(* A table is the set of its rows [member, pickup, point, sequence].       *)
SequenceOffset == 1000

Row(stop, sequence) ==
  [member |-> stop.member, pickup |-> stop.pickup, point |-> stop.point,
   sequence |-> sequence]

RowsOf(stops) == {Row(stops[i], i) : i \in DOMAIN stops}

Write(table, row) ==
  {w \in table : ~(w.member = row.member /\ w.pickup = row.pickup)} \cup {row}

WriteAccepted(table, row) ==
  LET after == Write(table, row)
  IN  /\ \A v, w \in after : v.sequence = w.sequence => v = w
      /\ ~row.pickup => \E w \in after : /\ w.member = row.member /\ w.pickup
                                         /\ w.sequence < row.sequence

(* Some of the rows, statement by statement in ascending order of their    *)
(* final place, until one is refused.                                      *)
Refused == {}
MutantWritten(table, rows, chosen) ==  \* mutant: in descending order
  LET n == Len(rows)
      after[i \in 0..n] ==
        IF i = 0 THEN table
        ELSE IF n + 1 - i \notin chosen THEN after[i - 1]
        ELSE IF after[i - 1] # Refused /\ WriteAccepted(after[i - 1], rows[n + 1 - i])
             THEN Write(after[i - 1], rows[n + 1 - i])
        ELSE Refused
  IN  after[n]

Written(table, rows, chosen) ==
  LET after[i \in 0..Len(rows)] ==
        IF i = 0 THEN table
        ELSE IF i \notin chosen THEN after[i - 1]
        ELSE IF after[i - 1] # Refused /\ WriteAccepted(after[i - 1], rows[i])
             THEN Write(after[i - 1], rows[i])
        ELSE Refused
  IN  after[Len(rows)]

NewRows(rows, newcomer) == {i \in DOMAIN rows : rows[i].member = newcomer}
OldRows(rows, newcomer) == DOMAIN rows \ NewRows(rows, newcomer)

(* All out of the way, then the newcomer's two, then the others. *)
Rewrite(table, stops, newcomer) ==
  LET rows == [i \in DOMAIN stops |-> Row(stops[i], i)]
      moved == {[w EXCEPT !.sequence = @ + SequenceOffset] : w \in table}
  IN  Written(Written(moved, rows, NewRows(rows, newcomer)), rows, OldRows(rows, newcomer))

(* The stops a table holds, in their order. *)
OrderedStops(table) ==
  LET Place(w) == Cardinality({v \in table : v.sequence <= w.sequence})
      At(i) == CHOOSE w \in table : Place(w) = i
  IN  [i \in 1..Cardinality(table) |-> Stop(At(i).member, At(i).pickup, At(i).point)]
=============================================================================
