------------------------------ MODULE PoolFares ------------------------------
(***************************************************************************)
(* What passengers are asked to pay: the solo quotes of fare.service.js,   *)
(* the shared-fare calculations of pool-fare.service.js, the departure     *)
(* that settles one (trip.service.js) and the repair command.              *)
(*                                                                         *)
(* A calculation is priced inside the transaction that changes the plan,   *)
(* so an action that cannot be priced leaves nothing behind but its        *)
(* report.  The rows of a pool are a sequence in the order they were       *)
(* written.  The tables' CHECKs and unique indexes are part of the step:   *)
(* a row they refuse rolls the whole transaction back.                     *)
(***************************************************************************)
EXTENDS FareMath

CONSTANTS
  Rides,        \* ride requests; the number is also the id of its pool member
  Pools,        \* pools, numbered by age
  Capacity,     \* seats a pool was created with
  From, To,     \* where a ride starts and ends
  Route,        \* Route[rush][<<a, b>>]: the edges the router takes
  Rush,         \* the instants that fall in the rush hour
  Policies,     \* the versions of the configured policy, as a sequence
  LastInstant,  \* bound on the clock
  LastRule,     \* bound on the releases of the shared-fare rules
  SweepLimit,   \* env.fare.pool.maxPoolsPerSweep
  OldFare,      \* fares accepted before this program's first calculation
  OldPool       \* pools formed before it, of one passenger each

ASSUME PoolFaresAssumption ==
  /\ Rides \subseteq Nat /\ Pools \subseteq Nat
  /\ Capacity \in Nat \ {0} /\ SweepLimit \in Nat \ {0}
  /\ LastInstant \in Nat /\ LastRule \in Nat
  /\ \A r \in Rides : From[r] # To[r]
  /\ \A r \in Rides : OldFare[r] \in Nat \/ (OldFare[r] = -1 /\ OldPool[r] \notin Pools)
  /\ \A r, o \in Rides : OldPool[r] \in Pools /\ OldPool[r] = OldPool[o] => r = o

(* fare_policies' own CHECKs *)
ASSUME PoliciesAssumption ==
  \A v \in DOMAIN Policies : ReadablePolicy(Policies[v])

(* what the router hands on, between any two points it is asked about *)
ASSUME RouteAssumption ==
  LET points == {From[r] : r \in Rides} \cup {To[r] : r \in Rides}
  IN  \A rush \in BOOLEAN : \A a, b \in points : a # b => ReadableLegs(Route[rush][<<a, b>>])

VARIABLES
  now,      \* the clock
  rule,     \* SHARED_FARE_RULE_VERSION of the running release
  quote,    \* the open quote of each ride, NoQuote without one
  solo,     \* the fare a ride was accepted at, NoFare before it
  pool,     \* [status, version, stops] of each pool
  rows,     \* pool_fare_calculations of each pool with their allocations
  sweep,    \* the pools the running repair has still to price, as it read them
  report    \* how the last pricing ended, when that was the last step

vars == <<now, rule, quote, solo, pool, rows, sweep, report>>

NoFare == -1
NoQuote == [fare |-> NoFare]
NoPool == [status |-> "NONE", version |-> 0, stops |-> << >>]

MembersOf(stops) == {stops[i].member : i \in DOMAIN stops}
Stop(r, pickup) == [member |-> r, pickup |-> pickup]

(* A forming pool may be older than the shared fares: it has no row yet.   *)
Unpriced(r) == [status |-> "FORMING", version |-> 1,
                stops |-> <<Stop(r, TRUE), Stop(r, FALSE)>>]

Init ==
  /\ now = 0 /\ rule = 1
  /\ quote = [r \in Rides |-> NoQuote]
  /\ rows = [p \in Pools |-> << >>]
  /\ sweep = {} /\ report = "none"
  /\ solo = [r \in Rides |-> OldFare[r]]
  /\ pool = [p \in Pools |->
       IF \E r \in Rides : OldPool[r] = p
       THEN Unpriced(CHOOSE r \in Rides : OldPool[r] = p) ELSE NoPool]

-----------------------------------------------------------------------------
(* createSoloFareQuote: routed for the departure instant, priced by the    *)
(* policy effective at that instant, refused without exactly one and by    *)
(* fare_quotes when the traffic makes it cheaper.                          *)
Quote(r, departure) ==
  LET effective == EffectiveAt(Policies, departure)
      rush == departure \in Rush
      p == Policies[CHOOSE v \in effective : TRUE]
      priced == SoloFare(p, Route[rush][<<From[r], To[r]>>], rush)
      refusal == CASE Cardinality(effective) # 1 -> "policy"
                   [] OTHER -> IF priced.adjustment < 0 THEN "checks" ELSE "none"
  IN  /\ solo[r] = NoFare
      /\ departure >= now
      /\ report' = refusal
      /\ quote' = IF refusal # "none" THEN quote
                  ELSE [quote EXCEPT ![r] = [fare |-> priced.final, expires |-> now + p.ttl]]
      /\ UNCHANGED <<now, rule, solo, pool, rows, sweep>>

(* isQuoteExpired: the boundary instant is expired. *)
Expired(q) == q.expires <= now

(* The ride is requested at the quoted fare, which it keeps for good; the  *)
(* quote is spent (RideCreation).                                          *)
AcceptQuote(r) ==
  /\ quote[r] # NoQuote /\ solo[r] = NoFare
  /\ ~Expired(quote[r])
  /\ solo' = [solo EXCEPT ![r] = quote[r].fare]
  /\ quote' = [quote EXCEPT ![r] = NoQuote]
  /\ report' = "none"
  /\ UNCHANGED <<now, rule, pool, rows, sweep>>

-----------------------------------------------------------------------------
(* The row recalculatePoolFares looks for before writing one ...           *)
Existing(p, version) ==
  \E i \in DOMAIN rows[p] : rows[p][i].version = version /\ rows[p][i].rule = rule

(* ... and the previous answer, which caps this one: the newest row of an  *)
(* older plan (0 when there is none).                                      *)
Previous(p, version) ==
  LET older == {i \in DOMAIN rows[p] : rows[p][i].version < version}
      newest == {i \in older : \A o \in older : rows[p][o].version <= rows[p][i].version}
  IN  IF older = {} THEN 0 ELSE CHOOSE i \in newest : \A o \in newest : o <= i

PointOf(stop) == IF stop.pickup THEN From[stop.member] ELSE To[stop.member]

LegRoute(a, b, rush) == IF a = b THEN << >> ELSE Route[rush][<<a, b>>]

(* priceLegs *)
PriceLegs(p, stops) ==
  LET rush == now \in Rush
      onboard == OnboardByLeg(stops)
  IN  [i \in DOMAIN onboard |->
        PricedLeg(p, LegRoute(PointOf(stops[i]), PointOf(stops[i + 1]), rush),
                  rush, onboard[i])]

(* Everybody's share of every leg, split once per leg. *)
SharesByLeg(stops, legs) ==
  LET onboard == OnboardByLeg(stops)
  IN  [i \in DOMAIN legs |->
        IF onboard[i] = {} THEN << >> ELSE LegShares(legs[i].cost, onboard[i])]

MutantPreviousCap(p, version, m) ==  \* mutant: the last fare is no cap
  NoCap

PreviousCap(p, version, m) ==
  LET i == Previous(p, version)
  IN  IF i # 0 /\ m \in DOMAIN rows[p][i].fares THEN rows[p][i].fares[m].final ELSE NoCap

LegCostOf(shares, m) ==
  Total([i \in {k \in DOMAIN shares : m \in DOMAIN shares[k]} |-> shares[i][m]])

Fares(p, version, v, members, shares) ==
  [m \in members |->
    PassengerFare(Policies[v], LegCostOf(shares, m), solo[m], PreviousCap(p, version, m))]

Row(version, v, legs, shares, fares) ==
  [version |-> version, rule |-> rule, policy |-> v, status |-> "CURRENT",
   legs |-> legs, shares |-> shares, fares |-> fares, totals |-> Totals(legs, fares)]

Shared(p, version, v, members, legs, shares) ==
  Row(version, v, legs, shares, Fares(p, version, v, members, shares))

Calculation(p, stops, version, v) ==
  LET legs == PriceLegs(Policies[v], stops)
  IN  Shared(p, version, v, MembersOf(stops), legs, SharesByLeg(stops, legs))

(* A new plan's row supersedes the previous answer if that is CURRENT. *)
Superseded(p, version) ==
  LET i == Previous(p, version)
  IN  IF i # 0 /\ rows[p][i].status = "CURRENT"
      THEN [rows[p] EXCEPT ![i].status = "SUPERSEDED"]
      ELSE rows[p]
-----------------------------------------------------------------------------
(* The CHECKs of the fare tables.  A leg: *)
LegRowAccepted(leg, shares) ==
  /\ leg.distance >= 0 /\ leg.time >= 0 /\ leg.adjustment >= 0
  /\ leg.cost = leg.distance + leg.time + leg.adjustment
  /\ shares = << >> => leg.cost = 0
  /\ shares # << >> => leg.cost = Total(shares)

(* A passenger: the caps hold, are whole units, and nothing else than they *)
(* and the unit moves a fare away from what its legs came to.              *)
WholeUnits(amount, unit) == amount % unit = 0

FareRowAccepted(f) ==
  /\ f.uncapped = f.base + f.legCost
  /\ f.final + f.soloReduction + f.noIncreaseReduction
       = Larger(f.minimum, f.uncapped) + f.rounding
  /\ f.final <= f.solo
  /\ f.previous # NoCap => f.final <= f.previous
  /\ WholeUnits(f.final, f.unit)
  /\ 2 * f.rounding <= f.unit /\ -2 * f.rounding <= f.unit
  /\ WholeUnits(f.solo, f.unit)
  /\ f.previous # NoCap => WholeUnits(f.previous, f.unit)

CalculationAccepted(c) ==
  /\ c.totals.uncapped = c.totals.base + c.totals.route
  /\ c.totals.final + c.totals.soloReduction + c.totals.noIncreaseReduction
       = c.totals.uncapped + c.totals.uplift + c.totals.rounding
  /\ Total([i \in DOMAIN c.legs |-> c.legs[i].meters]) > 0

ChecksAccept(c) ==
  /\ CalculationAccepted(c)
  /\ \A i \in DOMAIN c.legs : LegRowAccepted(c.legs[i], c.shares[i])
  /\ \A m \in DOMAIN c.fares : FareRowAccepted(c.fares[m])

MutantCollides(others, c) ==  \* mutant: no index on the current answer
  \E i \in DOMAIN others : others[i].version = c.version /\ others[i].rule = c.rule

(* one_current_pool_fare_calculation_per_pool and ..._version_rule_unique *)
Collides(others, c) ==
  \E i \in DOMAIN others :
     \/ others[i].status = "CURRENT"
     \/ others[i].version = c.version /\ others[i].rule = c.rule

-----------------------------------------------------------------------------
(* The calculation with its legs, allocations and shares.  (The events on  *)
(* the pool's and the passengers' timelines repeat what the row says.)     *)
Written(others, row) == Append(others, row)

Refused(p, how) == [how |-> how, rows |-> rows[p]]

(* The calculation meets the tables. *)
Stored(p, others, row) ==
  IF Collides(others, row) THEN Refused(p, "collides")
  ELSE IF ~ChecksAccept(row) THEN Refused(p, "checks")
  ELSE [how |-> "priced", rows |-> Written(others, row)]

MutantPricing(p, plan, version) ==  \* mutant: a pool under way is priced
  LET effective == EffectiveAt(Policies, now)
  IN  IF plan.version # version THEN Refused(p, "version")
      ELSE IF Existing(p, version) THEN Refused(p, "existing")
      ELSE IF ~CanBePriced(plan.stops, MembersOf(plan.stops), Capacity) THEN Refused(p, "plan")
      ELSE IF Cardinality(effective) # 1 THEN Refused(p, "policy")
      ELSE Stored(p, Superseded(p, version),
                  Calculation(p, plan.stops, version, CHOOSE v \in effective : TRUE))

(* recalculatePoolFares for the plan "plan" of pool p, in the transaction  *)
(* that made it: how it ends, and the row it writes when it writes one.    *)
Pricing(p, plan, version) ==
  LET effective == EffectiveAt(Policies, now)
  IN  IF plan.version # version THEN Refused(p, "version")
      ELSE IF plan.status # "FORMING" THEN Refused(p, "status")
      ELSE IF Existing(p, version) THEN Refused(p, "existing")
      ELSE IF ~CanBePriced(plan.stops, MembersOf(plan.stops), Capacity) THEN Refused(p, "plan")
      ELSE IF Cardinality(effective) # 1 THEN Refused(p, "policy")
      ELSE Stored(p, Superseded(p, version),
                  Calculation(p, plan.stops, version, CHOOSE v \in effective : TRUE))

(* A plan change and its fares commit together or not at all. *)
ChangePlan(p, plan) ==
  LET pricing == Pricing(p, plan, plan.version)
  IN  /\ report' = pricing.how
      /\ IF pricing.how = "priced"
         THEN /\ pool' = [pool EXCEPT ![p] = plan]
              /\ rows' = [rows EXCEPT ![p] = pricing.rows]
         ELSE UNCHANGED <<pool, rows>>
      /\ UNCHANGED <<now, rule, quote, solo, sweep>>

Free(r) == solo[r] # NoFare /\ \A p \in Pools : r \notin MembersOf(pool[p].stops)

(* acceptInitialRideOffer: a pool of one passenger. *)
OpenPool(p, r) ==
  /\ pool[p] = NoPool
  /\ \A o \in Pools : o < p => pool[o] # NoPool
  /\ Free(r)
  /\ ChangePlan(p, Unpriced(r))

(* acceptAddPassengerOffer: the two new stops go where the offer put them. *)
Join(p, r, i, j) ==
  LET stops == pool[p].stops
      plan == [status |-> pool[p].status, version |-> pool[p].version + 1,
               stops |-> InsertAt(InsertAt(stops, i, Stop(r, TRUE)), j, Stop(r, FALSE))]
  IN  /\ pool[p].status = "FORMING"
      /\ Free(r)
      /\ i < j /\ i <= Len(stops) + 1 /\ j <= Len(stops) + 2
      /\ \A k \in DOMAIN plan.stops : Cardinality(Aboard(plan.stops)[k]) <= Capacity
      /\ ChangePlan(p, plan)

(* departPool with finalizePoolFareCalculation: no trip without a settled  *)
(* fare.  Nothing else ever settles one, and a settled one stays.          *)
Depart(p) ==
  LET current == {i \in DOMAIN rows[p] : rows[p][i].status = "CURRENT"}
      settled == {i \in DOMAIN rows[p] : rows[p][i].status = "FINALIZED"}
  IN  /\ pool[p].status = "FORMING"
      /\ IF current \cup settled = {}
         THEN /\ report' = "unsettled"
              /\ UNCHANGED <<pool, rows>>
         ELSE /\ report' = "settled"
              /\ pool' = [pool EXCEPT ![p].status = "DEPARTED"]
              /\ rows' = [rows EXCEPT ![p] =
                   [i \in DOMAIN @ |->
                     IF i \in current THEN [@[i] EXCEPT !.status = "FINALIZED"] ELSE @[i]]]
      /\ UNCHANGED <<now, rule, quote, solo, sweep>>

-----------------------------------------------------------------------------
(* The repair command reads the oldest forming pools once, keeps those     *)
(* without an up-to-date answer, and prices them one transaction at a time *)
(* and the oldest first, against the version it read.                      *)
UpToDate(p) ==
  \E i \in DOMAIN rows[p] :
     rows[p][i].version = pool[p].version /\ rows[p][i].rule = rule
       /\ rows[p][i].status = "CURRENT"

StartRepair ==
  LET forming == {p \in Pools : pool[p].status = "FORMING"}
      examined == {p \in forming : Rank(forming, p) < SweepLimit}
      stale == {p \in examined : ~UpToDate(p)}
  IN  /\ sweep = {} /\ stale # {}
      /\ sweep' = {[pool |-> p, version |-> pool[p].version] : p \in stale}
      /\ report' = "none"
      /\ UNCHANGED <<now, rule, quote, solo, pool, rows>>

(* A pool that cannot be priced is skipped; the pass goes on. *)
RepairNext ==
  \E next \in sweep :
    LET p == next.pool
        pricing == Pricing(p, pool[p], next.version)
    IN  /\ \A other \in sweep : p <= other.pool
        /\ sweep' = sweep \ {next}
        /\ report' = pricing.how
        /\ rows' = [rows EXCEPT ![p] = pricing.rows]
        /\ UNCHANGED <<now, rule, quote, solo, pool>>

Tick ==
  /\ now < LastInstant
  /\ now' = now + 1
  /\ report' = "none"
  /\ UNCHANGED <<rule, quote, solo, pool, rows, sweep>>

(* A release with new shared-fare rules restarts the program, the repair   *)
(* command included.                                                       *)
Release ==
  /\ rule < LastRule
  /\ rule' = rule + 1
  /\ sweep' = {}
  /\ report' = "none"
  /\ UNCHANGED <<now, quote, solo, pool, rows>>

Next ==
  \/ \E r \in Rides, d \in 0..LastInstant : Quote(r, d)
  \/ \E r \in Rides : AcceptQuote(r)
  \/ \E p \in Pools, r \in Rides : OpenPool(p, r)
  \/ \E p \in Pools, r \in Rides :
       \E i, j \in 1..(Len(pool[p].stops) + 2) : Join(p, r, i, j)
  \/ \E p \in Pools : Depart(p)
  \/ StartRepair
  \/ RepairNext
  \/ Tick
  \/ Release

Spec == Init /\ [][Next]_vars

-----------------------------------------------------------------------------
RowOf(c, m) == m \in DOMAIN c.fares

(* loadCurrentFareForRequest: what a passenger is shown, the current       *)
(* answer or else the settled one.                                         *)
ShownFare(r) ==
  LET mine == {p \in Pools : r \in MembersOf(pool[p].stops)}
      p == CHOOSE o \in mine : TRUE
      In(status) == {i \in DOMAIN rows[p] : rows[p][i].status = status}
      shown == IF In("CURRENT") # {} THEN In("CURRENT") ELSE In("FINALIZED")
      newest == CHOOSE i \in shown : \A o \in shown : rows[p][o].version <= rows[p][i].version
  IN  IF mine = {} THEN NoFare
      ELSE IF shown = {} THEN NoFare
      ELSE IF ~RowOf(rows[p][newest], r) THEN NoFare
      ELSE rows[p][newest].fares[r].final

(* A pool has one answer at most, the newest row; a forming pool that was  *)
(* ever priced is priced for the plan it has now, with everybody in it,    *)
(* and a departed one is settled for the plan it left with.  (The price is *)
(* written by the transaction that changes the plan, offer.service.js      *)
(* 719-732 and 1050-1061, and frozen by the one that departs.)             *)
OneAnswer ==
  \A p \in Pools :
    LET n == Len(rows[p])
    IN  /\ \A i \in 1..(n - 1) : rows[p][i].status = "SUPERSEDED"
        /\ \A i \in 1..(n - 1) : rows[p][i].version < rows[p][i + 1].version
        /\ n > 0 => /\ rows[p][n].version = pool[p].version
                    /\ DOMAIN rows[p][n].fares = MembersOf(pool[p].stops)
                    /\ \A m \in MembersOf(pool[p].stops) :
                         ShownFare(m) = rows[p][n].fares[m].final
                    /\ rows[p][n].status =
                         IF pool[p].status = "FORMING" THEN "CURRENT" ELSE "FINALIZED"
        /\ n = 0 => pool[p].status \in {"NONE", "FORMING"} /\ pool[p].version <= 1

(* Whoever joins, whatever the traffic, whichever policy: no passenger's   *)
(* fare goes up while the pool grows, and none exceeds the solo fare they  *)
(* accepted (pool-fare.service.js 62-65, the two caps).  And rounding to   *)
(* the unit never undercuts the minimum fare: whoever pays less than it    *)
(* pays a cap in full (readPolicy, fare.calculator.js 290-301).            *)
FaresStayInBounds ==
  \A p \in Pools : \A j \in DOMAIN rows[p] : \A m \in DOMAIN rows[p][j].fares :
    LET f == rows[p][j].fares[m]
    IN  /\ f.final <= solo[m]
        /\ \A i \in 1..(j - 1) : RowOf(rows[p][i], m) => f.final <= rows[p][i].fares[m].final
        /\ f.final < Policies[rows[p][j].policy].minimum =>
             f.final = f.solo \/ f.final = f.previous

(* A passenger pays for the legs between their pickup and their drop-off   *)
(* and no other, and the shares of a leg differ by one unit at most        *)
(* (onboardByLeg, allocateLegShares), in the newest row of a forming pool. *)
PaysForOwnLegs ==
  \A p \in {o \in Pools : rows[o] # << >>} :
    LET c == Last(rows[p])
        stops == pool[p].stops
    IN  \A i \in DOMAIN c.legs :
          /\ DOMAIN c.shares[i] =
               {m \in MembersOf(stops) :
                  /\ \E k \in 1..i : stops[k] = Stop(m, TRUE)
                  /\ \A k \in 1..i : stops[k] # Stop(m, FALSE)}
          /\ \A m, o \in DOMAIN c.shares[i] : c.shares[i][m] - c.shares[i][o] <= 1

(* As long as the policies keep one unit and no multiplier makes a ride    *)
(* cheaper, nothing the code computes is refused by the tables and no      *)
(* reachable plan is rejected as unpriceable: no acceptance is lost to its *)
(* own fare.                                                               *)
ChecksNeverRefuse == report \notin {"checks", "plan"}

(* A settled fare is settled for good: no repair, release or retry touches *)
(* the rows of a pool under way (finalizePoolFareCalculation).             *)
SettledForGood ==
  [][\A p \in Pools : pool[p].status = "DEPARTED" => rows'[p] = rows[p]]_vars

(* recalculate-pool-fares.js 7-8 and 14-18: a pool whose calculation is    *)
(* out of date because a release changed the rules is repaired by the      *)
(* pass that finds it.                                                     *)
RepairRepairs ==
  [][\A p \in Pools :
       (/\ [pool |-> p, version |-> pool[p].version] \in sweep \ sweep'
        /\ rule' = rule
        /\ pool[p].status = "FORMING")
       => UpToDate(p)']_vars

=============================================================================
