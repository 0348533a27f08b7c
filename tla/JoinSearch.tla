----------------------------- MODULE JoinSearch -----------------------------
(***************************************************************************)
(* Pool-first matching over time: matching.service.js's search, which      *)
(* reads pools, stops and members one after the other while the router     *)
(* works, the join offer it ends in, and the driver's late answer          *)
(* (offer.service.js, pool.service.js).                                    *)
(*                                                                         *)
(* Every transaction is one action; a search is four.  A driver answers    *)
(* for one pool and stays where the pool was planned from, so a pool, its  *)
(* driver and the point they wait at are one.                              *)
(***************************************************************************)
EXTENDS InsertionPlans

CONSTANTS
  Rides,          \* ride requests; the number is also the id of the pool member
  Pools,          \* pools; the number is the id
  Workers,        \* assignments running at once, for any ride
  From, To,       \* where a ride starts and ends
  DriverAt,       \* where the driver of a pool waits
  Travel,         \* Travel[rush][<<a, b>>]: seconds from a to b, or Unroutable
  Rush,           \* the instants that fall in the rush hour
  Near,           \* Near[a]: the points within the search radius of a
  Capacity,       \* seats of every vehicle
  Limits,         \* env.matching: the limits on wait, added, detour and ratio
  Weights,        \* env.matching: the weights of the score
  Window,         \* env.matching.windowSeconds
  MaxCandidates,  \* env.matching.maxCandidatePools
  OfferTtl,       \* env.dispatch.offerTtlSeconds
  LastRequest,    \* bound on the instant of a request
  LastInstant     \* bound on the clock

Points == {From[r] : r \in Rides} \cup {To[r] : r \in Rides} \cup {DriverAt[p] : p \in Pools}

(* The sequence offset is larger than any plan (pool.service.js 250-251). *)
ASSUME JoinSearchAssumption ==
  /\ Rides \subseteq 1..(NewMember - 1)
  /\ Pools \subseteq Nat /\ IsFiniteSet(Pools)
  /\ Capacity \in Nat \ {0} /\ 2 * Capacity <= SequenceOffset
  /\ MaxCandidates \in Nat \ {0}
  /\ OfferTtl \in Nat /\ LastInstant \in Nat /\ LastRequest \in Nat /\ Window \in Nat
  /\ \A r \in Rides : From[r] # To[r]
  /\ Points \subseteq Nat
  /\ Limits.wait \in Int /\ Limits.added \in Int /\ Limits.detour \in Int /\ Limits.ratio \in Int
  /\ Weights.wait \in Nat /\ Weights.detour \in Nat

(* Every road takes its time (routing_edges' CHECKs), if there is one. *)
ASSUME TravelAssumption ==
  \A rush \in BOOLEAN : \A a, b \in Points :
    a # b => Travel[rush][<<a, b>>] \in (Nat \ {0}) \cup {Unroutable}

VARIABLES
  now,      \* the clock
  ride,     \* [status, requested, promised] of each ride
  pool,     \* [status, version, created, stops, joined, arrivals] of each pool
  search,   \* what each running assignment has read so far
  offer,    \* the pending join offer of each pool, NoOffer without one
  spent,    \* <<ride, pool>> offered once and refused or lapsed
  report    \* how the last acceptance ended

vars == <<now, ride, pool, search, offer, spent, report>>

NoRide == [status |-> "NONE", requested |-> 0, promised |-> 0]
NoPool == [status |-> "NONE", version |-> 0, created |-> 0, stops |-> << >>,
           joined |-> << >>, arrivals |-> << >>]
Idle == [stage |-> "idle"]
NoOffer == [stage |-> "none"]

Init ==
  /\ now = 0
  /\ ride = [r \in Rides |-> NoRide]
  /\ pool = [p \in Pools |-> NoPool]
  /\ search = [w \in Workers |-> Idle]
  /\ offer = [p \in Pools |-> NoOffer]
  /\ spent = {}
  /\ report = "none"

TravelAt(at) == LET rush == at \in Rush IN Travel[rush]
StopsOf(p) == pool[p].stops
Joined(p) == {pool[p].joined[i] : i \in DOMAIN pool[p].joined}
PlannedTime(p) == Last(pool[p].arrivals) - Head(pool[p].arrivals)
InPool(r) == \E p \in Pools : r \in Joined(p)
Offered(r) == \E p \in Pools : offer[p] # NoOffer /\ offer[p].ride = r

-----------------------------------------------------------------------------
(* A ride is requested at its quote, whose duration is the promise a       *)
(* detour is measured against.                                             *)
Request(r) ==
  /\ ride[r] = NoRide /\ now <= LastRequest
  /\ TravelAt(now)[<<From[r], To[r]>>] # Unroutable
  /\ ride' = [ride EXCEPT ![r] = [status |-> "WAITING", requested |-> now,
                                  promised |-> TravelAt(now)[<<From[r], To[r]>>]]]
  /\ report' = "none"
  /\ UNCHANGED <<now, pool, search, offer, spent>>

(* The passenger cancels: their pending offer is withdrawn with the ride. *)
Cancel(r) ==
  /\ ride[r].status = "WAITING"
  /\ ride' = [ride EXCEPT ![r].status = "CANCELLED"]
  /\ offer' = [p \in Pools |->
                IF offer[p] # NoOffer /\ offer[p].ride = r THEN NoOffer ELSE offer[p]]
  /\ report' = "none"
  /\ UNCHANGED <<now, pool, search, spent>>

(* createPoolForAcceptedOffer: a driver nearby takes a ride alone. *)
OpenPool(p, r) ==
  LET stops == <<Stop(r, TRUE, From[r]), Stop(r, FALSE, To[r])>>
      approach == LegTime(TravelAt(now), DriverAt[p], From[r])
  IN  /\ pool[p] = NoPool
      /\ ride[r].status = "WAITING" /\ ~Offered(r)
      /\ DriverAt[p] \in Near[From[r]] /\ approach # Unroutable
      /\ pool' = [pool EXCEPT ![p] =
           [status |-> "FORMING", version |-> 1, created |-> now, stops |-> stops,
            joined |-> <<r>>, arrivals |-> Arrivals(approach, <<ride[r].promised>>, now)]]
      /\ ride' = [ride EXCEPT ![r].status = "MATCHED"]
      /\ report' = "none"
      /\ UNCHANGED <<now, search, offer, spent>>

(* The pool leaves, and its pending join offer is withdrawn. *)
Depart(p) ==
  /\ pool[p].status = "FORMING"
  /\ pool' = [pool EXCEPT ![p].status = "DEPARTED"]
  /\ offer' = [offer EXCEPT ![p] = NoOffer]
  /\ report' = "none"
  /\ UNCHANGED <<now, ride, search, spent>>

-----------------------------------------------------------------------------
(* findCandidatePools *)
PassesNear(p, point) == \E i \in DOMAIN StopsOf(p) : StopsOf(p)[i].point \in Near[point]

Candidates(r) ==
  {p \in Pools :
     /\ pool[p].status = "FORMING"
     /\ PassesNear(p, From[r]) /\ PassesNear(p, To[r])
     /\ Len(pool[p].joined) < Capacity
     /\ r \notin Joined(p)
     /\ offer[p] = NoOffer
     /\ <<r, p>> \notin spent}

(* assignWaitingRequest, up to the shortlist.  Which candidates are the    *)
(* nearest is left open; their versions are read with them, and every      *)
(* later step works with the instant the assignment started at.            *)
Shortlist(w, r) ==
  /\ search[w] = Idle
  /\ ride[r].status = "WAITING" /\ ~InPool(r) /\ ~Offered(r)
  /\ now - ride[r].requested <= Window
  /\ \E S \in SUBSET Candidates(r) :
       /\ S # {}
       /\ Cardinality(S) = Smaller(MaxCandidates, Cardinality(Candidates(r)))
       /\ search' = [search EXCEPT ![w] =
            [stage |-> "reading", ride |-> r, at |-> now,
             candidate |-> [p \in S |-> [version |-> pool[p].version,
                                         created |-> pool[p].created,
                                         planned |-> PlannedTime(p)]],
             stops |-> << >>, members |-> << >>]]
  /\ report' = "none"
  /\ UNCHANGED <<now, ride, pool, offer, spent>>

-----------------------------------------------------------------------------
(* evaluatePool: one insertion into the stops a search has read, measured  *)
(* at the instant it started, against what the pool would drive without it *)
(* -- or against the stored plan, if that can no longer be driven.         *)
Drivable(approach, legs) ==
  approach # Unroutable /\ \A i \in DOMAIN legs : legs[i] # Unroutable

PlanOf(s, r, p, ij) ==
  LET travel == TravelAt(s.at)
      stops == Proposed(s.stops[p], From[r], To[r], ij)
      approach == LegTime(travel, DriverAt[p], stops[1].point)
      legs == Legs(travel, stops)
      alone == Legs(travel, s.stops[p])
      metrics == Metrics(stops, approach, legs,
                         IF Drivable(0, alone) THEN Sum(alone) ELSE s.candidate[p].planned,
                         [m \in s.members[p] |-> ride[m].promised], ride[r].requested, s.at)
  IN  [pool |-> p, version |-> s.candidate[p].version, created |-> s.candidate[p].created,
       stops |-> stops, approach |-> approach, legs |-> legs,
       metrics |-> metrics, score |-> Score(metrics, Weights)]

FeasiblePlans(s, r, p) ==
  {plan \in {PlanOf(s, r, p, ij) : ij \in Positions(Len(s.stops[p]))} :
     /\ Drivable(plan.approach, plan.legs)
     /\ Allowed(Fits(plan.stops, Capacity), plan.metrics, Limits)}

(* findBestJoinPlan: the best of every pool, and the best of those.  A     *)
(* search that finds nothing goes on to the dispatcher.                    *)
Evaluated(s) ==
  LET inPool == [p \in DOMAIN s.candidate |-> FeasiblePlans(s, s.ride, p)]
      joinable == {p \in DOMAIN inPool : inPool[p] # {}}
  IN  IF joinable = {} THEN Idle
      ELSE [stage |-> "found", ride |-> s.ride, at |-> s.at,
            plan |-> BestOf({BestOf(inPool[p]) : p \in joinable})]

(* The stops and the members are two queries, sent together: either may    *)
(* see a join the other one has missed.  With both, the plans are measured *)
(* without another look at the database.                                   *)
Read(w, after) ==
  /\ search' = [search EXCEPT ![w] =
       IF after.stops # << >> /\ after.members # << >> THEN Evaluated(after) ELSE after]
  /\ report' = "none"
  /\ UNCHANGED <<now, ride, pool, offer, spent>>

ReadStops(w) ==
  /\ search[w].stage = "reading" /\ search[w].stops = << >>
  /\ Read(w, [search[w] EXCEPT !.stops = [p \in DOMAIN search[w].candidate |-> StopsOf(p)]])

ReadMembers(w) ==
  /\ search[w].stage = "reading" /\ search[w].members = << >>
  /\ Read(w, [search[w] EXCEPT !.members = [p \in DOMAIN search[w].candidate |-> Joined(p)]])

MutantStillOffered(r, plan) ==  \* mutant: the version is not compared
  LET p == plan.pool
  IN  /\ ride[r].status = "WAITING"
      /\ ~InPool(r) /\ ~Offered(r)
      /\ pool[p].status = "FORMING"
      /\ offer[p] = NoOffer
      /\ Len(pool[p].joined) < Capacity

(* createJoinOffer: what the search saw is re-read under locks ...         *)
StillOffered(r, plan) ==
  LET p == plan.pool
  IN  /\ ride[r].status = "WAITING"
      /\ ~InPool(r) /\ ~Offered(r)
      /\ pool[p].status = "FORMING"
      /\ pool[p].version = plan.version
      /\ offer[p] = NoOffer
      /\ Len(pool[p].joined) < Capacity

(* ... and a search that was overtaken goes on to the dispatcher.          *)
CreateOffer(w) ==
  LET s == search[w]
      p == s.plan.pool
  IN  /\ s.stage = "found"
      /\ offer' = IF ~StillOffered(s.ride, s.plan) THEN offer
                  ELSE [offer EXCEPT ![p] =
                    [stage |-> "pending", ride |-> s.ride, plan |-> s.plan, at |-> s.at,
                     version |-> pool[p].version, expires |-> s.at + OfferTtl]]
      /\ search' = [search EXCEPT ![w] = Idle]
      /\ report' = "none"
      /\ UNCHANGED <<now, ride, pool, spent>>

(* The process dies while it searches. *)
Die(w) ==
  /\ search[w] # Idle
  /\ search' = [search EXCEPT ![w] = Idle]
  /\ report' = "none"
  /\ UNCHANGED <<now, ride, pool, offer, spent>>

-----------------------------------------------------------------------------
Pending(p) == offer[p] # NoOffer
Overdue(p) == offer[p].expires <= now

(* The driver says no, or the offer lapses: this driver is not asked about *)
(* this ride again.                                                        *)
Reject(p) ==
  /\ Pending(p)
  /\ spent' = spent \cup {<<offer[p].ride, p>>}
  /\ offer' = [offer EXCEPT ![p] = NoOffer]
  /\ report' = "none"
  /\ UNCHANGED <<now, ride, pool, search>>

(* The plan as the driver was shown it, re-anchored to this instant: every *)
(* time moves with the start, so only the newcomer's wait is new.          *)
MutantReanchored(plan, r) == plan.metrics  \* mutant: the wait as it was planned

Reanchored(plan, r) ==
  LET arrivals == Arrivals(plan.approach, plan.legs, now)
      pickup == PlaceOf(plan.stops, NewMember, TRUE)
  IN  [plan.metrics EXCEPT !.wait = Larger(0, arrivals[pickup] - ride[r].requested)]

SameStops(plan, p) ==
  SelectSeq(plan.stops, LAMBDA s : s.member # NewMember) = StopsOf(p)

(* The proposal's stops, now that the newcomer is a member. *)
Named(stops, r) ==
  [i \in DOMAIN stops |-> IF stops[i].member = NewMember
                          THEN [stops[i] EXCEPT !.member = r] ELSE stops[i]]

(* acceptAddPassengerOffer.  A refusal leaves the offer pending.           *)
Accept(p) ==
  LET r == offer[p].ride
      plan == offer[p].plan
      table == Rewrite(RowsOf(StopsOf(p)), Named(plan.stops, r), r)
      End(how) == report' = how /\ UNCHANGED <<now, ride, pool, search, offer, spent>>
      Withdraw(how) == /\ report' = how
                       /\ offer' = [offer EXCEPT ![p] = NoOffer]
                       /\ UNCHANGED <<now, ride, pool, search>>
  IN  /\ Pending(p)
      /\ IF Overdue(p) THEN Withdraw("expired") /\ spent' = spent \cup {<<r, p>>}
         ELSE IF ride[r].status # "WAITING" \/ InPool(r) THEN End("ride")
         ELSE IF pool[p].status # "FORMING" THEN End("pool")
         ELSE IF pool[p].version # offer[p].version THEN Withdraw("stale") /\ UNCHANGED spent
         ELSE IF Len(pool[p].joined) >= Capacity THEN End("full")
         ELSE IF ~SameStops(plan, p) THEN End("stops")
         ELSE IF ~Allowed(Fits(plan.stops, Capacity), Reanchored(plan, r), Limits)
              THEN End("limits")
         ELSE IF table = Refused THEN End("rewrite")
         ELSE /\ pool' = [pool EXCEPT
                   ![p].version = @ + 1,
                   ![p].stops = OrderedStops(table),
                   ![p].joined = Append(@, r),
                   ![p].arrivals = Arrivals(plan.approach, plan.legs, now)]
              /\ ride' = [ride EXCEPT ![r].status = "MATCHED"]
              /\ offer' = [offer EXCEPT ![p] = NoOffer]
              /\ report' = "joined"
              /\ UNCHANGED <<now, search, spent>>

(* The sweep of overdue offers. *)
Lapse(p) ==
  /\ Pending(p) /\ Overdue(p)
  /\ spent' = spent \cup {<<offer[p].ride, p>>}
  /\ offer' = [offer EXCEPT ![p] = NoOffer]
  /\ report' = "none"
  /\ UNCHANGED <<now, ride, pool, search>>

Tick ==
  /\ now < LastInstant
  /\ now' = now + 1
  /\ report' = "none"
  /\ UNCHANGED <<ride, pool, search, offer, spent>>

Next ==
  \/ \E r \in Rides : Request(r) \/ Cancel(r)
  \/ \E p \in Pools, r \in Rides : OpenPool(p, r)
  \/ \E p \in Pools : Depart(p) \/ Reject(p) \/ Accept(p) \/ Lapse(p)
  \/ \E w \in Workers : \/ \E r \in Rides : Shortlist(w, r)
                        \/ ReadStops(w) \/ ReadMembers(w)
                        \/ CreateOffer(w) \/ Die(w)
  \/ Tick

Spec == Init /\ [][Next]_vars

-----------------------------------------------------------------------------
(* Joins, however many and however stale the search: no passenger already  *)
(* in the pool rides longer than their own quote promised by more than the *)
(* limits (validatePlan).                                                  *)
KindToAll ==
  \A p \in {o \in Pools : Len(pool[o].joined) > 1} :
    LET newcomer == Last(pool[p].joined)
        stops == StopsOf(p)
    IN  \A m \in Joined(p) \ {newcomer} :
          LET time == RideTime(stops, pool[p].arrivals, m)
          IN  /\ time - ride[m].promised <= Limits.detour
              /\ 100 * time <= Limits.ratio * ride[m].promised

(* The newcomer's planned wait counts from their request to the instant    *)
(* the driver really accepted at (acceptAddPassengerOffer).                *)
WaitHolds ==
  \A p \in {o \in Pools : Len(pool[o].joined) > 1} :
    LET newcomer == Last(pool[p].joined)
        pickup == PlaceOf(StopsOf(p), newcomer, TRUE)
    IN  pool[p].arrivals[pickup] - ride[newcomer].requested <= Limits.wait

(* What a search that reads a pool now would weigh. *)
Seen(at, p) ==
  [at |-> at,
   candidate |-> [o \in {p} |-> [version |-> pool[o].version, created |-> pool[o].created,
                                 planned |-> PlannedTime(o)]],
   stops |-> [o \in {p} |-> StopsOf(o)],
   members |-> [o \in {p} |-> Joined(o)]]

HarmElsewhere(o, p) == {plan.score : plan \in FeasiblePlans(Seen(o.at, p), o.ride, p)}

(* What a driver is asked about is the pool as it is when they are asked,  *)
(* and no other place for the newcomer in it does less harm                *)
(* (findBestJoinPlan, createJoinOffer).                                    *)
OfferIsTheBest ==
  [][\A p \in Pools :
       offer'[p] # offer[p] /\ offer'[p] # NoOffer
         => /\ offer'[p].plan.score \in HarmElsewhere(offer'[p], p)
            /\ \A harm \in HarmElsewhere(offer'[p], p) : offer'[p].plan.score <= harm]_vars

(* The rewrite of the stops meets neither the unique sequence nor the      *)
(* trigger on drop-offs, statement by statement (pool.service.js 240-254). *)
RewriteIsClean == report # "rewrite"
=============================================================================
