------------------------------ MODULE Dispatch ------------------------------
(***************************************************************************)
(* The matching side of the ride-pooling server: ride requests, drivers,   *)
(* dispatch offers and ride pools, and every transaction that moves them.  *)
(*                                                                         *)
(* A transaction of the server is one action when the row locks it takes   *)
(* make it atomic.  Dispatching a request to a driver is not: the search   *)
(* runs before the transaction, and the transaction reads the driver's row *)
(* without locking it, so dispatch is three steps of a worker (an API call *)
(* or a sweep) between which any other transaction may commit.             *)
(*                                                                         *)
(* Abstracted: service points, routes, vehicles, scores and event tables.  *)
(* The stops of a pool are abstracted to "some passenger is next"; their   *)
(* order is module Trip's.  A pool is named by the request that founded    *)
(* it: a request is a member of one pool at most.                          *)
(***************************************************************************)
EXTENDS Naturals, FiniteSets, RideStatus

CONSTANTS
    Requests,   \* ride requests, each of a passenger of its own
    Drivers,    \* driver profiles
    Workers,    \* concurrent runs of assignWaitingRequest
    Offers,     \* ids of dispatch offers: the bound on offers ever made
    Capacity,   \* seats of a vehicle
    None        \* the null of the database

ASSUME CapacityAssumption == Capacity \in Nat \ {0}
ASSUME NoneAssumption == None \notin Requests \cup Drivers

TerminalOffer == {"ACCEPTED", "REJECTED", "EXPIRED", "CANCELLED"}

VARIABLES
    request,    \* ride_requests.status
    seat,       \* pool_members.ride_pool_id of a request, or None
    rider,      \* pool_members.status of a request
    pool,       \* ride_pools: status, driver, version
    driver,     \* driver_profiles.status
    offer,      \* dispatch_offers
    late,       \* requests and offers whose deadline the clock has passed
    fare,       \* the pool's newest fare calculation: version, status, riders
    work        \* where each assignment run is, and what it has read

vars == <<request, seat, rider, pool, driver, offer, late, fare, work>>

NoPool == [status |-> "NONE", driver |-> None, version |-> 0]
NoOffer == [status |-> "FREE", kind |-> "NONE", req |-> None, drv |-> None,
            pool |-> None, version |-> 0]
NoFare == [status |-> "NONE", version |-> 0, riders |-> {}]
Idle == [step |-> "idle", req |-> None, target |-> None, version |-> 0]

OfferSet ==
    {NoOffer}
    \cup [status : {"PENDING"} \cup TerminalOffer, kind : {"INITIAL_RIDE"}, req : Requests,
          drv : Drivers, pool : Requests \cup {None}, version : {0}]
    \cup [status : {"PENDING"} \cup TerminalOffer, kind : {"ADD_PASSENGER"}, req : Requests,
          drv : Drivers, pool : Requests, version : Nat]
PoolSet == {NoPool} \cup [status : PoolStatus \ {"NONE"}, driver : Drivers, version : Nat]
FareSet == [status : {"NONE", "CURRENT", "FINALIZED"}, version : Nat, riders : SUBSET Requests]
WorkSet ==
    [step : {"idle", "failed"}, req : {None}, target : {None}, version : {0}]
    \cup [step : {"join"}, req : Requests, target : Requests, version : Nat]
    \cup [step : {"search"}, req : Requests, target : {None}, version : {0}]
    \cup [step : {"check", "insert"}, req : Requests, target : Drivers, version : {0}]

(* Requests, drivers and offers are told apart by what they are, so the    *)
(* clock's set needs tags.                                                 *)
Deadlines == [of : {"request"}, id : Requests] \cup [of : {"offer"}, id : Offers]
LateRequest(r) == [of |-> "request", id |-> r] \in late
LateOffer(o) == [of |-> "offer", id |-> o] \in late

TypeOK ==
    /\ request \in [Requests -> RequestStatus]
    /\ seat \in [Requests -> Requests \cup {None}]
    /\ rider \in [Requests -> RiderStatus]
    /\ pool \in [Requests -> PoolSet]
    /\ driver \in [Drivers -> Availability]
    /\ offer \in [Offers -> OfferSet]
    /\ late \subseteq Deadlines
    /\ fare \in [Requests -> FareSet]
    /\ work \in [Workers -> WorkSet]

Init ==
    /\ request = [r \in Requests |-> "NONE"]
    /\ seat = [r \in Requests |-> None]
    /\ rider = [r \in Requests |-> "NONE"]
    /\ pool = [p \in Requests |-> NoPool]
    /\ driver = [d \in Drivers |-> "OFFLINE"]
    /\ offer = [o \in Offers |-> NoOffer]
    /\ late = {}
    /\ fare = [p \in Requests |-> NoFare]
    /\ work = [w \in Workers |-> Idle]

(***************************************************************************)
(* What the transactions read.                                             *)
(***************************************************************************)
Members(p) == {r \in Requests : seat[r] = p}
Pending(o) == offer[o].status = "PENDING"
PendingOf(r) == {o \in Offers : Pending(o) /\ offer[o].req = r}
PendingFor(d) == {o \in Offers : Pending(o) /\ offer[o].drv = d}
PendingJoins(p) == {o \in Offers : /\ Pending(o)
                                   /\ offer[o].kind = "ADD_PASSENGER"
                                   /\ offer[o].pool = p}
PendingInitials(d) == {o \in PendingFor(d) : offer[o].kind = "INITIAL_RIDE"}
HasActivePool(d) == \E p \in Requests : pool[p].driver = d /\ pool[p].status \in ActivePool

(* Free to take a first passenger: what the shortlist, the dispatch        *)
(* transaction and an acceptance all ask of a driver.                      *)
MutantDriverFree(d) == driver[d] # "OFFLINE"  \* mutant: online is enough
DriverFree(d) == driver[d] = "AVAILABLE" /\ ~HasActivePool(d)

(* A request's row lock is free unless a dispatch transaction holds it.    *)
MutantUnlocked(r) == r \in Requests  \* mutant: nobody waits for the row lock
Unlocked(r) == \A w \in Workers : ~(work[w].step = "insert" /\ work[w].req = r)

(* A driver who has refused this request, or let it lapse, is not asked    *)
(* again.                                                                  *)
Spent(r, d, kinds) ==
    \E o \in Offers : /\ offer[o].req = r /\ offer[o].drv = d
                      /\ offer[o].kind \in kinds
                      /\ offer[o].status \in {"REJECTED", "EXPIRED"}

HasRoom(p) == Cardinality(Members(p)) < Capacity

Shortlist(r) ==
    {d \in Drivers : /\ DriverFree(d)
                     /\ PendingInitials(d) = {}
                     /\ ~Spent(r, d, {"INITIAL_RIDE", "ADD_PASSENGER"})}

CandidatePools(r) ==
    {p \in Requests : /\ pool[p].status = "FORMING"
                      /\ driver[pool[p].driver] = "RESERVED"
                      /\ HasRoom(p)
                      /\ PendingJoins(p) = {}
                      /\ ~Spent(r, pool[p].driver, {"ADD_PASSENGER"})}

SearchOpen(r) == request[r] = "WAITING" /\ ~LateRequest(r)

(***************************************************************************)
(* Passengers and the clock.                                               *)
(***************************************************************************)
Create(r) ==
    /\ request[r] = "NONE"
    /\ request' = [request EXCEPT ![r] = "WAITING"]
    /\ UNCHANGED <<seat, rider, pool, driver, offer, late, fare, work>>

(* Cancelling is for a request still WAITING, and ends the offers it has.  *)
Cancel(r) ==
    /\ request[r] = "WAITING" /\ Unlocked(r)
    /\ request' = [request EXCEPT ![r] = "CANCELLED"]
    /\ offer' = [o \in Offers |-> IF o \in PendingOf(r)
                                  THEN [offer[o] EXCEPT !.status = "CANCELLED"]
                                  ELSE offer[o]]
    /\ UNCHANGED <<seat, rider, pool, driver, late, fare, work>>

CloseWindow(r) ==
    /\ request[r] = "WAITING" /\ ~LateRequest(r)
    /\ late' = late \cup {[of |-> "request", id |-> r]}
    /\ UNCHANGED <<request, seat, rider, pool, driver, offer, fare, work>>

MutantExpireRequest(r) ==  \* mutant: the sweep passes over requests that had an offer
    /\ request[r] = "WAITING" /\ LateRequest(r) /\ Unlocked(r)
    /\ \A o \in Offers : offer[o].req # r
    /\ request' = [request EXCEPT ![r] = "EXPIRED"]
    /\ UNCHANGED <<seat, rider, pool, driver, offer, late, fare, work>>

(* The expiry sweep ends the request and leaves its offers alone.          *)
ExpireRequest(r) ==
    /\ request[r] = "WAITING" /\ LateRequest(r) /\ Unlocked(r)
    /\ request' = [request EXCEPT ![r] = "EXPIRED"]
    /\ UNCHANGED <<seat, rider, pool, driver, offer, late, fare, work>>

LapseOffer(o) ==
    /\ Pending(o) /\ ~LateOffer(o)
    /\ late' = late \cup {[of |-> "offer", id |-> o]}
    /\ UNCHANGED <<request, seat, rider, pool, driver, offer, fare, work>>

(***************************************************************************)
(* Driver availability.  Each takes the driver's row lock.                 *)
(***************************************************************************)
GoOnline(d) ==
    /\ driver[d] = "OFFLINE"
    /\ driver' = [driver EXCEPT ![d] = "AVAILABLE"]
    /\ UNCHANGED <<request, seat, rider, pool, offer, late, fare, work>>

GoOffline(d) ==
    /\ driver[d] = "AVAILABLE"
    /\ driver' = [driver EXCEPT ![d] = "OFFLINE"]
    /\ UNCHANGED <<request, seat, rider, pool, offer, late, fare, work>>

(***************************************************************************)
(* Assignment: a pool that is forming first, then a driver.                *)
(***************************************************************************)
ToStep(w, step, r, target, version) ==
    work' = [work EXCEPT ![w] = [step |-> step, req |-> r, target |-> target,
                                 version |-> version]]

(* Unlocked reads; the pool search may find a plan, or none.               *)
BeginAssign(w, r) ==
    /\ work[w].step \in {"idle", "failed"}
    /\ SearchOpen(r) /\ seat[r] = None /\ PendingOf(r) = {}
    /\ \/ \E p \in CandidatePools(r) : ToStep(w, "join", r, p, pool[p].version)
       \/ ToStep(w, "search", r, None, 0)
    /\ UNCHANGED <<request, seat, rider, pool, driver, offer, late, fare>>

FreeOffers == {o \in Offers : offer[o].status = "FREE"}
NewOffer == CHOOSE o \in FreeOffers : TRUE

(* What createJoinOffer re-reads under the request's and the pool's locks. *)
Joinable(r, p, version) ==
    /\ SearchOpen(r) /\ seat[r] = None /\ PendingOf(r) = {}
    /\ pool[p].status = "FORMING" /\ pool[p].version = version
    /\ PendingJoins(p) = {}
    /\ HasRoom(p)
    /\ driver[pool[p].driver] = "RESERVED"

(* The insert also needs the driver's one pending slot; a slot that is     *)
(* taken is a conflict this path catches.  Whatever the reason, a plan not *)
(* offered falls back to the search for a driver.                          *)
OfferJoin(w) ==
    LET r == work[w].req
        p == work[w].target
        d == pool[p].driver
        offered == Joinable(r, p, work[w].version) /\ PendingFor(d) = {}
    IN  /\ work[w].step = "join" /\ Unlocked(r)
        /\ \/ /\ offered /\ FreeOffers # {}
              /\ offer' = [offer EXCEPT ![NewOffer] =
                             [status |-> "PENDING", kind |-> "ADD_PASSENGER",
                              req |-> r, drv |-> d, pool |-> p,
                              version |-> pool[p].version]]
              /\ work' = [work EXCEPT ![w] = Idle]
           \/ /\ ~offered
              /\ ToStep(w, "search", r, None, 0)
              /\ UNCHANGED offer
        /\ UNCHANGED <<request, seat, rider, pool, driver, late, fare>>

(* The search for a driver: unlocked reads and routing, then one candidate *)
(* or nobody.                                                              *)
SearchDriver(w) ==
    LET r == work[w].req
    IN  /\ work[w].step = "search"
        /\ \/ /\ SearchOpen(r)
              /\ \E d \in Shortlist(r) : ToStep(w, "check", r, d, 0)
           \/ work' = [work EXCEPT ![w] = Idle]
        /\ UNCHANGED <<request, seat, rider, pool, driver, offer, late, fare>>

(* The transaction opens: the request is locked, the driver is only read.  *)
Dispatchable(r, d) ==
    /\ SearchOpen(r) /\ PendingOf(r) = {} /\ seat[r] = None
    /\ DriverFree(d) /\ PendingInitials(d) = {}

CheckDriver(w) ==
    LET r == work[w].req
        d == work[w].target
    IN  /\ work[w].step = "check" /\ Unlocked(r)
        /\ IF Dispatchable(r, d)
           THEN ToStep(w, "insert", r, d, 0)
           ELSE work' = [work EXCEPT ![w] = Idle]
        /\ UNCHANGED <<request, seat, rider, pool, driver, offer, late, fare>>

(* The insert and the commit.  The driver's slot may have been taken since *)
(* the check: the unique index refuses the row and nobody catches it.      *)
InsertOffer(w) ==
    LET r == work[w].req
        d == work[w].target
    IN  /\ work[w].step = "insert"
        /\ \/ /\ PendingFor(d) = {} /\ FreeOffers # {}
              /\ offer' = [offer EXCEPT ![NewOffer] =
                             [status |-> "PENDING", kind |-> "INITIAL_RIDE",
                              req |-> r, drv |-> d, pool |-> None, version |-> 0]]
              /\ work' = [work EXCEPT ![w] = Idle]
           \/ /\ PendingFor(d) # {}
              /\ work' = [work EXCEPT ![w] = [Idle EXCEPT !.step = "failed"]]
              /\ UNCHANGED offer
        /\ UNCHANGED <<request, seat, rider, pool, driver, late, fare>>

(* The process dies, or its transaction times out and rolls back.          *)
Crash(w) ==
    /\ work[w].step \notin {"idle", "failed"}
    /\ work' = [work EXCEPT ![w] = Idle]
    /\ UNCHANGED <<request, seat, rider, pool, driver, offer, late, fare>>

(***************************************************************************)
(* Answers.  Each locks the offer's request first.                         *)
(***************************************************************************)
EndOffer(o, status) == offer' = [offer EXCEPT ![o].status = status]

MutantExpireOffer(o) ==  \* mutant: only for a request still being searched for
    /\ Pending(o) /\ LateOffer(o) /\ SearchOpen(offer[o].req)
    /\ EndOffer(o, "EXPIRED")
    /\ UNCHANGED <<request, seat, rider, pool, driver, late, fare, work>>

ExpireOffer(o) ==
    /\ Pending(o) /\ LateOffer(o) /\ Unlocked(offer[o].req)
    /\ EndOffer(o, "EXPIRED")
    /\ UNCHANGED <<request, seat, rider, pool, driver, late, fare, work>>

MutantRejectOffer(o) ==  \* mutant: the offer is not re-read under the lock
    /\ offer[o].status \in {"PENDING", "ACCEPTED"} /\ ~LateOffer(o)
    /\ EndOffer(o, "REJECTED")
    /\ UNCHANGED <<request, seat, rider, pool, driver, late, fare, work>>

RejectOffer(o) ==
    /\ Pending(o) /\ ~LateOffer(o) /\ Unlocked(offer[o].req)
    /\ EndOffer(o, "REJECTED")
    /\ UNCHANGED <<request, seat, rider, pool, driver, late, fare, work>>

(* An answer past the deadline writes EXPIRED and commits it before it     *)
(* reports the conflict.                                                   *)
AnswerLate(o) ==
    /\ Pending(o) /\ LateOffer(o) /\ Unlocked(offer[o].req)
    /\ EndOffer(o, "EXPIRED")
    /\ UNCHANGED <<request, seat, rider, pool, driver, late, fare, work>>

(* The fare of a plan is written by the transaction that writes the plan.  *)
Priced(version, riders) == [status |-> "CURRENT", version |-> version, riders |-> riders]

MutantJoinFare(p, r) == Priced(pool[p].version + 1, Members(p))  \* mutant: without r
JoinFare(p, r) == Priced(pool[p].version + 1, Members(p) \cup {r})

AcceptInitial(o) ==
    LET r == offer[o].req
        d == offer[o].drv
    IN  /\ Pending(o) /\ offer[o].kind = "INITIAL_RIDE" /\ ~LateOffer(o)
        /\ Unlocked(r)
        /\ request[r] = "WAITING" /\ seat[r] = None
        /\ DriverFree(d)
        /\ pool' = [pool EXCEPT ![r] = [status |-> "FORMING", driver |-> d, version |-> 1]]
        /\ seat' = [seat EXCEPT ![r] = r]
        /\ rider' = [rider EXCEPT ![r] = "ASSIGNED"]
        /\ request' = [request EXCEPT ![r] = "MATCHED"]
        /\ driver' = [driver EXCEPT ![d] = "RESERVED"]
        /\ offer' = [offer EXCEPT ![o].status = "ACCEPTED", ![o].pool = r]
        /\ fare' = [fare EXCEPT ![r] = Priced(1, {r})]
        /\ UNCHANGED <<late, work>>

(* A plan that moved since the offer is refused, and the offer with it.    *)
StaleJoin(o) == offer[o].version # pool[offer[o].pool].version

AcceptJoin(o) ==
    LET r == offer[o].req
        p == offer[o].pool
    IN  /\ Pending(o) /\ offer[o].kind = "ADD_PASSENGER" /\ ~LateOffer(o)
        /\ Unlocked(r)
        /\ request[r] = "WAITING" /\ seat[r] = None
        /\ pool[p].driver = offer[o].drv /\ pool[p].status = "FORMING"
        /\ IF StaleJoin(o)
           THEN /\ EndOffer(o, "CANCELLED")
                /\ UNCHANGED <<request, seat, rider, pool, fare>>
           ELSE /\ driver[offer[o].drv] = "RESERVED"
                /\ HasRoom(p)
                /\ seat' = [seat EXCEPT ![r] = p]
                /\ rider' = [rider EXCEPT ![r] = "ASSIGNED"]
                /\ request' = [request EXCEPT ![r] = "MATCHED"]
                /\ pool' = [pool EXCEPT ![p].version = @ + 1]
                /\ fare' = [fare EXCEPT ![p] = JoinFare(p, r)]
                /\ EndOffer(o, "ACCEPTED")
        /\ UNCHANGED <<driver, late, work>>

(***************************************************************************)
(* The trip.  Each locks the pool, its members' requests, then the driver. *)
(***************************************************************************)
SetPool(p, status) == pool' = [pool EXCEPT ![p].status = status]

MutantCancelledByDeparture(p) ==  \* mutant: only offers past their deadline
    {o \in PendingJoins(p) : LateOffer(o)}
CancelledByDeparture(p) == PendingJoins(p)

(* Departing closes the pool to matching: the fare is frozen and the join  *)
(* offers still pending are cancelled in the same transaction.             *)
Depart(p) ==
    LET d == pool[p].driver
    IN  /\ pool[p].status = "FORMING" /\ Members(p) # {}
        /\ driver[d] = "RESERVED" /\ fare[p].status = "CURRENT"
        /\ fare' = [fare EXCEPT ![p].status = "FINALIZED"]
        /\ offer' = [o \in Offers |-> IF o \in CancelledByDeparture(p)
                                      THEN [offer[o] EXCEPT !.status = "CANCELLED"]
                                      ELSE offer[o]]
        /\ SetPool(p, "DRIVER_EN_ROUTE")
        /\ driver' = [driver EXCEPT ![d] = "ON_RIDE"]
        /\ UNCHANGED <<request, seat, rider, late, work>>

ArriveAtFirstPickup(p) ==
    /\ pool[p].status = "DRIVER_EN_ROUTE"
    /\ SetPool(p, "ARRIVED")
    /\ UNCHANGED <<request, seat, rider, driver, offer, late, fare, work>>

MutantPickUp(r) ==  \* mutant: the ride begins only when the trip starts
    /\ seat[r] # None
    /\ rider[r] = "ASSIGNED" /\ request[r] = "MATCHED"
    /\ pool[seat[r]].status \in {"ARRIVED", "IN_PROGRESS"}
    /\ rider' = [rider EXCEPT ![r] = "PICKED_UP"]
    /\ UNCHANGED <<request, seat, pool, driver, offer, late, fare, work>>

(* A passenger collected while the trip runs rides at once; one collected  *)
(* before it starts rides when it starts.                                  *)
PickUp(r) ==
    LET p == seat[r]
    IN  /\ p # None
        /\ rider[r] = "ASSIGNED" /\ request[r] = "MATCHED"
        /\ pool[p].status \in {"ARRIVED", "IN_PROGRESS"}
        /\ rider' = [rider EXCEPT ![r] = "PICKED_UP"]
        /\ request' = IF pool[p].status = "IN_PROGRESS"
                      THEN [request EXCEPT ![r] = "IN_PROGRESS"]
                      ELSE request
        /\ UNCHANGED <<seat, pool, driver, offer, late, fare, work>>

StartTrip(p) ==
    LET onboard == {r \in Members(p) : rider[r] = "PICKED_UP"}
    IN  /\ pool[p].status = "ARRIVED" /\ onboard # {}
        /\ fare[p].status = "FINALIZED" /\ driver[pool[p].driver] = "ON_RIDE"
        /\ SetPool(p, "IN_PROGRESS")
        /\ request' = [r \in Requests |-> IF r \in onboard THEN "IN_PROGRESS"
                                          ELSE request[r]]
        /\ UNCHANGED <<seat, rider, driver, offer, late, fare, work>>

DropOff(r) ==
    /\ seat[r] # None
    /\ rider[r] = "PICKED_UP" /\ request[r] = "IN_PROGRESS"
    /\ pool[seat[r]].status = "IN_PROGRESS"
    /\ rider' = [rider EXCEPT ![r] = "DROPPED_OFF"]
    /\ request' = [request EXCEPT ![r] = "COMPLETED"]
    /\ UNCHANGED <<seat, pool, driver, offer, late, fare, work>>

CompleteTrip(p) ==
    /\ pool[p].status = "IN_PROGRESS" /\ fare[p].status = "FINALIZED"
    /\ \A r \in Members(p) : rider[r] = "DROPPED_OFF" /\ request[r] = "COMPLETED"
    /\ driver[pool[p].driver] = "ON_RIDE"
    /\ SetPool(p, "COMPLETED")
    /\ driver' = [driver EXCEPT ![pool[p].driver] = "AVAILABLE"]
    /\ UNCHANGED <<request, seat, rider, offer, late, fare, work>>

(***************************************************************************)
(* The specification.                                                      *)
(***************************************************************************)
PassengerStep == \E r \in Requests : Create(r) \/ Cancel(r)
SweepStep == \/ \E r \in Requests : ExpireRequest(r)
             \/ \E o \in Offers : ExpireOffer(o)
ClockStep == \/ \E r \in Requests : CloseWindow(r)
             \/ \E o \in Offers : LapseOffer(o)
RunStep(w) == OfferJoin(w) \/ SearchDriver(w) \/ CheckDriver(w) \/ InsertOffer(w) \/ Crash(w)
AssignStep == \E w \in Workers : RunStep(w) \/ \E r \in Requests : BeginAssign(w, r)
AvailabilityStep == \E d \in Drivers : GoOnline(d) \/ GoOffline(d)
AnswerStep == \E o \in Offers : \/ RejectOffer(o) \/ AnswerLate(o)
                               \/ AcceptInitial(o) \/ AcceptJoin(o)
TripStep == \/ \E p \in Requests : \/ Depart(p) \/ ArriveAtFirstPickup(p)
                                   \/ StartTrip(p) \/ CompleteTrip(p)
            \/ \E r \in Requests : PickUp(r) \/ DropOff(r)

Next == \/ PassengerStep \/ SweepStep \/ ClockStep \/ AssignStep
        \/ AvailabilityStep \/ AnswerStep \/ TripStep

Spec == Init /\ [][Next]_vars

(* The clock passes every deadline, the two sweeps run again and again, and *)
(* an assignment run ends: its transactions have a timeout.  Nothing is     *)
(* assumed of passengers or drivers.                                        *)
Fairness ==
    /\ \A r \in Requests : WF_vars(CloseWindow(r)) /\ WF_vars(ExpireRequest(r))
    /\ \A o \in Offers : WF_vars(LapseOffer(o)) /\ WF_vars(ExpireOffer(o))
    /\ \A w \in Workers : WF_vars(RunStep(w))

FairSpec == Spec /\ Fairness

(***************************************************************************)
(* Safety.                                                                 *)
(***************************************************************************)
PoolsOf(d) == {p \in Requests : pool[p].driver = d /\ pool[p].status \in ActivePool}

(* A driver's availability and the pools they drive tell one story, though *)
(* each is written by transactions of its own: RESERVED with a pool still  *)
(* forming, ON_RIDE with one that has departed, no active pool otherwise.  *)
Committed(d) ==
    /\ driver[d] \in {"OFFLINE", "AVAILABLE"} => PoolsOf(d) = {}
    /\ driver[d] \in {"RESERVED", "ON_RIDE"} => \E p \in Requests : PoolsOf(d) = {p}
    /\ \A p \in PoolsOf(d) : (driver[d] = "RESERVED") <=> (pool[p].status = "FORMING")
DriverCommitment == \A d \in Drivers : Committed(d)

(* Three clocks of one ride agree: the request, the seat and the pool.  A  *)
(* passenger rides exactly while aboard a pool in progress, is MATCHED     *)
(* while waiting for it or aboard before it starts, and a COMPLETED ride   *)
(* is a delivered one.                                                     *)
RideAgrees ==
    \A r \in Requests :
        LET p == seat[r]
        IN  /\ (p = None) <=> (rider[r] = "NONE")
            /\ p # None =>
                \/ request[r] = "MATCHED" /\ rider[r] = "ASSIGNED" /\ pool[p].status \in ActivePool
                \/ request[r] = "MATCHED" /\ rider[r] = "PICKED_UP" /\ pool[p].status = "ARRIVED"
                \/ request[r] = "IN_PROGRESS" /\ rider[r] = "PICKED_UP" /\ pool[p].status = "IN_PROGRESS"
                \/ request[r] = "COMPLETED" /\ rider[r] = "DROPPED_OFF"
                     /\ pool[p].status \in {"IN_PROGRESS", "COMPLETED"}
            /\ request[r] \in {"MATCHED", "IN_PROGRESS", "COMPLETED"} => p # None

(* A join offer a driver can still answer describes the plan as it is: its *)
(* pool is forming under that driver, has a seat left, and is at the       *)
(* version the offer was made for.  So the version check of an acceptance  *)
(* has nothing to catch, whoever accepts, rejects or departs first.        *)
JoinOffersAreCurrent ==
    \A p \in Requests : \A o \in PendingJoins(p) :
        /\ pool[p].status = "FORMING" /\ pool[p].driver = offer[o].drv
        /\ offer[o].version = pool[p].version
        /\ HasRoom(p)

(* A passenger has a seat exactly when one driver accepted one offer for   *)
(* them, and the offer names the pool they sit in and who drives it.       *)
AcceptedOf(r) == {o \in Offers : offer[o].req = r /\ offer[o].status = "ACCEPTED"}
AcceptedOfferIsTheSeat ==
    \A r \in Requests :
        /\ (seat[r] # None) <=> (AcceptedOf(r) # {})
        /\ \A o1, o2 \in AcceptedOf(r) : o1 = o2
        /\ \A o \in AcceptedOf(r) : /\ offer[o].pool = seat[r]
                                    /\ offer[o].drv = pool[seat[r]].driver

(* The newest fare calculation of a pool always prices the plan it has:    *)
(* same version, same passengers; it is frozen exactly once departed.      *)
FareCoversPlan ==
    \A p \in Requests :
        pool[p].status # "NONE" =>
            /\ fare[p].version = pool[p].version
            /\ fare[p].riders = Members(p)
            /\ (fare[p].status = "CURRENT") <=> (pool[p].status = "FORMING")

(* Two concurrent acceptances never seat more passengers than the vehicle. *)
NoOverbooking == \A p \in Requests : Cardinality(Members(p)) <= Capacity

(* An unanswered offer is for somebody still searching, or for a request   *)
(* the expiry sweep ended without touching its offer.                      *)
OffersSeekRiders ==
    \A o \in Offers : Pending(o) => /\ request[offer[o].req] \in {"WAITING", "EXPIRED"}
                                    /\ seat[offer[o].req] = None

(* A passenger never waits on two drivers.  No index says so for a join    *)
(* offer next to an initial one: only the request's row lock does.         *)
SingleOffer == \A r \in Requests : \A o1, o2 \in PendingOf(r) : o1 = o2

(***************************************************************************)
(* The inductive invariant: the properties above, and what they rest on.   *)
(***************************************************************************)
(* A dispatch transaction that has passed its checks still holds what it   *)
(* read of the request when it inserts: waiting, unseated, without an      *)
(* offer, and in no other transaction's hands.                             *)
LockedSearch ==
    \A w \in Workers, r \in Requests :
        work[w].step = "insert" /\ work[w].req = r =>
            /\ request[r] = "WAITING" /\ seat[r] = None /\ PendingOf(r) = {}
            /\ \A v \in Workers : work[v].step = "insert" /\ work[v].req = r => v = w

(* one_pending_offer_per_driver: join and initial offers share one slot.   *)
DriverSlot == \A d \in Drivers : \A o1, o2 \in PendingFor(d) : o1 = o2

(* A pool exists only once its founder sits in it.                         *)
FounderSits == \A p \in Requests : pool[p].status # "NONE" => seat[p] = p

OfferInv == OffersSeekRiders /\ SingleOffer /\ DriverSlot /\ LockedSearch
RideInv == RideAgrees /\ FounderSits /\ DriverCommitment
PlanInv == /\ JoinOffersAreCurrent /\ FareCoversPlan /\ AcceptedOfferIsTheSeat
           /\ NoOverbooking /\ \A p \in Requests : IsFiniteSet(Members(p))

(* All of it together: what each transaction may assume and must restore.  *)
Inductive == TypeOK /\ OfferInv /\ RideInv /\ PlanInv

(* An answered offer stays as answered: a retry, a sweep or a departure    *)
(* that comes second never overwrites the first answer.                    *)
OfferFinality ==
    [][\A o \in Offers : offer[o].status \in TerminalOffer => offer'[o] = offer[o]]_vars

(* What the promise sees of a state: a ride's phase is its request's       *)
(* status, its carrier the driver of its pool, a driver's duty their       *)
(* availability.  Offers, pools, fares and workers are hidden.             *)
Phase == [r \in Requests |-> PhaseName(request[r])]
Carrier == [r \in Requests |-> IF seat[r] = None THEN None ELSE pool[seat[r]].driver]
Duty == [d \in Drivers |-> DutyName(driver[d])]

Promise == INSTANCE RidePromise WITH phase <- Phase, carrier <- Carrier, duty <- Duty

(* Every behaviour of the server, races and crashes included, keeps the    *)
(* promise: one driver per passenger, nobody taken on beyond the seats or  *)
(* after setting off, nobody left aboard when a driver is free again.      *)
PromiseKept == Promise!Spec

(***************************************************************************)
(* Liveness, under FairSpec.                                               *)
(***************************************************************************)
(* Every offer ends, also one whose request expired under it: the driver's *)
(* only slot is never held for good.                                       *)
OffersEnd == \A o \in Offers : Pending(o) ~> ~Pending(o)

(* No search lasts for ever, though every assignment run may take the      *)
(* request's lock again.                                                   *)
SearchEnds == \A r \in Requests : (request[r] = "WAITING") ~> (request[r] # "WAITING")

=============================================================================
