--------------------------- MODULE DispatchProofs ---------------------------
(***************************************************************************)
(* What holds of Dispatch for every number of requests, drivers, workers   *)
(* and offers: its types; its safety invariants, by an invariant proved in *)
(* three layers (offers, rides, plans), each assuming the ones before it;  *)
(* and that it implements RidePromise: under the mapping Phase, Carrier,   *)
(* Duty every transaction is a step of the promise or changes nothing the  *)
(* promise sees.                                                           *)
(***************************************************************************)
EXTENDS Dispatch, FiniteSetTheorems, TLAPS

(* Answering an offer that was made leaves an offer; moving a pool leaves  *)
(* a pool.                                                                 *)
LEMMA AnsweredOffer ==
    ASSUME NEW x \in OfferSet, x.status # "FREE", NEW s \in {"PENDING"} \cup TerminalOffer
    PROVE  [x EXCEPT !.status = s] \in OfferSet
BY DEF OfferSet, NoOffer, TerminalOffer

LEMMA SeatedOffer ==
    ASSUME NEW x \in OfferSet, x.kind = "INITIAL_RIDE", NEW r \in Requests
    PROVE  [x EXCEPT !.pool = r] \in OfferSet
BY DEF OfferSet, NoOffer

LEMMA MovedPool ==
    ASSUME NEW x \in PoolSet, x.status # "NONE", NEW s \in PoolStatus \ {"NONE"}
    PROVE  [x EXCEPT !.status = s] \in PoolSet
BY DEF PoolSet, NoPool, PoolStatus

LEMMA GrownPool ==
    ASSUME NEW x \in PoolSet, x.status # "NONE"
    PROVE  [x EXCEPT !.version = x.version + 1] \in PoolSet
BY DEF PoolSet, NoPool, PoolStatus

(* Init and every step keep every variable in its type.                    *)
LEMMA TypeInit == Init => TypeOK
BY DEF Init, TypeOK, RequestStatus, RiderStatus, Availability, PoolSet, OfferSet, FareSet,
       WorkSet, NoPool, NoOffer, NoFare, Idle, Deadlines

LEMMA TypeStep == TypeOK /\ [Next]_vars => TypeOK'
<1> SUFFICES ASSUME TypeOK, [Next]_vars PROVE TypeOK'
    OBVIOUS
<1>1. ASSUME NEW r \in Requests, Create(r) PROVE TypeOK'
  BY <1>1 DEF TypeOK, Create, RequestStatus
<1>2. ASSUME NEW r \in Requests, Cancel(r) PROVE TypeOK'
  <2>1. ASSUME NEW o \in Offers PROVE offer'[o] \in OfferSet
    BY <1>2, AnsweredOffer DEF TypeOK, Cancel, PendingOf, Pending, TerminalOffer
  <2> QED BY <1>2, <2>1 DEF TypeOK, Cancel, RequestStatus
<1>3. ASSUME NEW r \in Requests, CloseWindow(r) PROVE TypeOK'
  BY <1>3 DEF TypeOK, CloseWindow, Deadlines
<1>4. ASSUME NEW r \in Requests, ExpireRequest(r) PROVE TypeOK'
  BY <1>4 DEF TypeOK, ExpireRequest, RequestStatus
<1>5. ASSUME NEW o \in Offers, LapseOffer(o) PROVE TypeOK'
  BY <1>5 DEF TypeOK, LapseOffer, Deadlines
<1>6. ASSUME NEW d \in Drivers, GoOnline(d) \/ GoOffline(d) PROVE TypeOK'
  BY <1>6 DEF TypeOK, GoOnline, GoOffline, Availability
<1>7. ASSUME NEW w \in Workers, NEW r \in Requests, BeginAssign(w, r) PROVE TypeOK'
  <2>1. ASSUME NEW p \in CandidatePools(r) PROVE pool[p].version \in Nat
    BY <2>1 DEF TypeOK, CandidatePools, PoolSet, NoPool
  <2>2. work' \in [Workers -> WorkSet]
    BY <1>7, <2>1 DEF TypeOK, BeginAssign, ToStep, WorkSet, CandidatePools
  <2> QED BY <1>7, <2>2 DEF TypeOK, BeginAssign
<1>8. ASSUME NEW w \in Workers, OfferJoin(w) PROVE TypeOK'
  <2>1. work[w].req \in Requests /\ work[w].target \in Requests
    BY <1>8 DEF TypeOK, OfferJoin, WorkSet
  <2>2. work' \in [Workers -> WorkSet]
    BY <1>8, <2>1 DEF TypeOK, OfferJoin, ToStep, WorkSet, Idle
  <2>3. offer' \in [Offers -> OfferSet]
    <3> DEFINE p == work[w].target
               made == [status |-> "PENDING", kind |-> "ADD_PASSENGER", req |-> work[w].req,
                        drv |-> pool[p].driver, pool |-> p, version |-> pool[p].version]
    <3>1. CASE UNCHANGED offer
      BY <3>1 DEF TypeOK
    <3>2. CASE Joinable(work[w].req, p, work[w].version) /\ offer' = [offer EXCEPT ![NewOffer] = made]
      <4>1. pool[p].driver \in Drivers /\ pool[p].version \in Nat
        BY <2>1, <3>2 DEF TypeOK, Joinable, PoolSet, NoPool
      <4>2. made \in OfferSet
        BY <2>1, <4>1 DEF OfferSet
      <4> HIDE DEF made
      <4> QED BY <3>2, <4>2 DEF TypeOK
    <3> QED BY <1>8, <3>1, <3>2 DEF OfferJoin
  <2> QED BY <1>8, <2>2, <2>3 DEF TypeOK, OfferJoin
<1>9. ASSUME NEW w \in Workers, SearchDriver(w) PROVE TypeOK'
  <2>1. work' \in [Workers -> WorkSet]
    BY <1>9 DEF TypeOK, SearchDriver, ToStep, WorkSet, Shortlist, Idle
  <2> QED BY <1>9, <2>1 DEF TypeOK, SearchDriver
<1>10. ASSUME NEW w \in Workers, CheckDriver(w) PROVE TypeOK'
  <2>1. work' \in [Workers -> WorkSet]
    BY <1>10 DEF TypeOK, CheckDriver, ToStep, WorkSet, Idle
  <2> QED BY <1>10, <2>1 DEF TypeOK, CheckDriver
<1>11. ASSUME NEW w \in Workers, InsertOffer(w) PROVE TypeOK'
  <2>1. work[w].req \in Requests /\ work[w].target \in Drivers
    BY <1>11 DEF TypeOK, InsertOffer, WorkSet
  <2>2. work' \in [Workers -> WorkSet]
    BY <1>11 DEF TypeOK, InsertOffer, WorkSet, Idle
  <2>3. offer' \in [Offers -> OfferSet]
    BY <1>11, <2>1 DEF TypeOK, InsertOffer, OfferSet
  <2> QED BY <1>11, <2>2, <2>3 DEF TypeOK, InsertOffer
<1>12. ASSUME NEW w \in Workers, Crash(w) PROVE TypeOK'
  <2>1. Idle \in WorkSet
    BY DEF Idle, WorkSet
  <2> QED BY <1>12, <2>1 DEF TypeOK, Crash
<1>13. ASSUME NEW o \in Offers, NEW s \in TerminalOffer, Pending(o), EndOffer(o, s)
       PROVE  offer' \in [Offers -> OfferSet]
  <2>1. [offer[o] EXCEPT !.status = s] \in OfferSet
    BY <1>13, AnsweredOffer DEF TypeOK, Pending
  <2> QED BY <1>13, <2>1 DEF TypeOK, EndOffer
<1>14. ASSUME NEW o \in Offers, ExpireOffer(o) \/ RejectOffer(o) \/ AnswerLate(o) PROVE TypeOK'
  BY <1>13, <1>14 DEF TypeOK, ExpireOffer, RejectOffer, AnswerLate, TerminalOffer
<1>15. ASSUME NEW o \in Offers, AcceptInitial(o) PROVE TypeOK'
  <2> DEFINE r == offer[o].req
             d == offer[o].drv
  <2>1. offer[o] \in OfferSet /\ offer[o].status = "PENDING" /\ offer[o].kind = "INITIAL_RIDE"
    BY <1>15 DEF TypeOK, AcceptInitial, Pending
  <2>2. r \in Requests /\ d \in Drivers
    BY <2>1 DEF OfferSet, NoOffer
  <2>3. [[offer[o] EXCEPT !.status = "ACCEPTED"] EXCEPT !.pool = r] \in OfferSet
    <3>1. [offer[o] EXCEPT !.status = "ACCEPTED"] \in OfferSet
      BY <2>1, AnsweredOffer DEF TerminalOffer
    <3>2. [offer[o] EXCEPT !.status = "ACCEPTED"].kind = "INITIAL_RIDE"
      BY <2>1 DEF OfferSet, NoOffer
    <3> QED BY <2>2, <3>1, <3>2, SeatedOffer
  <2>4. offer' \in [Offers -> OfferSet]
    BY <1>15, <2>3 DEF TypeOK, AcceptInitial
  <2>5. pool' \in [Requests -> PoolSet]
    BY <1>15, <2>2 DEF TypeOK, AcceptInitial, PoolSet, PoolStatus
  <2>6. fare' \in [Requests -> FareSet]
    BY <1>15, <2>2 DEF TypeOK, AcceptInitial, FareSet, Priced
  <2> QED BY <1>15, <2>2, <2>4, <2>5, <2>6
          DEF TypeOK, AcceptInitial, RequestStatus, RiderStatus, Availability
<1>16. ASSUME NEW o \in Offers, AcceptJoin(o) PROVE TypeOK'
  <2> DEFINE r == offer[o].req
             p == offer[o].pool
  <2>1. Pending(o) /\ offer[o].kind = "ADD_PASSENGER"
    BY <1>16 DEF AcceptJoin
  <2>2. r \in Requests /\ p \in Requests
    BY <2>1 DEF TypeOK, OfferSet, NoOffer, Pending
  <2>3. offer' \in [Offers -> OfferSet]
    BY <1>13, <1>16, <2>1 DEF AcceptJoin, TerminalOffer
  <2>4. CASE StaleJoin(o)
    BY <1>16, <2>3, <2>4 DEF TypeOK, AcceptJoin
  <2>5. CASE ~StaleJoin(o)
    <3>1. pool[p].status = "FORMING" /\ pool[p] \in PoolSet
      BY <1>16, <2>2 DEF TypeOK, AcceptJoin
    <3>2. pool[p].version + 1 \in Nat
      BY <3>1 DEF PoolSet, NoPool
    <3>3. pool' \in [Requests -> PoolSet]
      BY <1>16, <2>5, <3>1, GrownPool DEF TypeOK, AcceptJoin
    <3>4. JoinFare(p, r) \in FareSet
      BY <2>2, <3>2 DEF JoinFare, Priced, FareSet, Members
    <3>5. fare' \in [Requests -> FareSet]
      BY <1>16, <2>5, <3>4 DEF TypeOK, AcceptJoin
    <3> QED BY <1>16, <2>2, <2>3, <2>5, <3>3, <3>5 DEF TypeOK, AcceptJoin, RequestStatus, RiderStatus
  <2> QED BY <2>4, <2>5
<1>17. ASSUME NEW p \in Requests, NEW s \in PoolStatus \ {"NONE"}, pool[p].status # "NONE", SetPool(p, s)
       PROVE  pool' \in [Requests -> PoolSet]
  <2>1. [pool[p] EXCEPT !.status = s] \in PoolSet
    BY <1>17, MovedPool DEF TypeOK
  <2> QED BY <1>17, <2>1 DEF TypeOK, SetPool
<1>18. ASSUME NEW p \in Requests, Depart(p) PROVE TypeOK'
  <2>1. pool' \in [Requests -> PoolSet]
    BY <1>17, <1>18 DEF Depart, PoolStatus
  <2>2. ASSUME NEW o \in Offers PROVE offer'[o] \in OfferSet
    BY <1>18, AnsweredOffer DEF TypeOK, Depart, CancelledByDeparture, PendingJoins, Pending, TerminalOffer
  <2>3. fare' \in [Requests -> FareSet]
    BY <1>18 DEF TypeOK, Depart, FareSet
  <2> QED BY <1>18, <2>1, <2>2, <2>3 DEF TypeOK, Depart, Availability
<1>19. ASSUME NEW p \in Requests, ArriveAtFirstPickup(p) PROVE TypeOK'
  BY <1>17, <1>19 DEF TypeOK, ArriveAtFirstPickup, PoolStatus
<1>20. ASSUME NEW r \in Requests, PickUp(r) PROVE TypeOK'
  BY <1>20 DEF TypeOK, PickUp, RequestStatus, RiderStatus
<1>21. ASSUME NEW p \in Requests, StartTrip(p) PROVE TypeOK'
  BY <1>17, <1>21 DEF TypeOK, StartTrip, RequestStatus, PoolStatus
<1>22. ASSUME NEW r \in Requests, DropOff(r) PROVE TypeOK'
  BY <1>22 DEF TypeOK, DropOff, RequestStatus, RiderStatus
<1>23. ASSUME NEW p \in Requests, CompleteTrip(p) PROVE TypeOK'
  BY <1>17, <1>23 DEF TypeOK, CompleteTrip, Availability, PoolStatus
<1>24. CASE UNCHANGED vars
  BY <1>24 DEF TypeOK, vars
<1> QED
  BY <1>1, <1>2, <1>3, <1>4, <1>5, <1>6, <1>7, <1>8, <1>9, <1>10, <1>11, <1>12, <1>14, <1>15,
     <1>16, <1>18, <1>19, <1>20, <1>21, <1>22, <1>23, <1>24
  DEF Next, PassengerStep, SweepStep, ClockStep, AssignStep, RunStep, AvailabilityStep,
      AnswerStep, TripStep

(* Every state the server reaches is made of the statuses the schema has,  *)
(* a pool always has a driver, an offer a request and a driver.            *)
THEOREM TypeCorrect == Spec => []TypeOK
BY TypeInit, TypeStep, PTL DEF Spec

-----------------------------------------------------------------------------
(***************************************************************************)
(* How a step may change the offers.                                       *)
(***************************************************************************)
(* No offer is made; those that stay pending stay as they are.             *)
Quiet == \A o \in Offers : Pending(o)' => Pending(o) /\ offer'[o] = offer[o]

LEMMA NewOfferIsFree ==
    ASSUME FreeOffers # {}
    PROVE  NewOffer \in Offers /\ offer[NewOffer].status = "FREE"
BY DEF NewOffer, FreeOffers

(* Only the two transactions that insert make offers.                      *)
LEMMA OffersAreQuiet ==
    ASSUME TypeOK, [Next]_vars
    PROVE  Quiet \/ \E w \in Workers : OfferJoin(w) \/ InsertOffer(w)
<1>1. ASSUME UNCHANGED offer PROVE Quiet
  BY <1>1 DEF Quiet, Pending
<1>2. ASSUME NEW o \in Offers, NEW s \in TerminalOffer, EndOffer(o, s) PROVE Quiet
  BY <1>2 DEF TypeOK, EndOffer, Quiet, Pending, TerminalOffer
<1>3. ASSUME NEW r \in Requests, Cancel(r) PROVE Quiet
  BY <1>3 DEF TypeOK, Cancel, Quiet, Pending
<1>4. ASSUME NEW o \in Offers, AcceptInitial(o) PROVE Quiet
  BY <1>4 DEF TypeOK, AcceptInitial, Quiet, Pending
<1>5. ASSUME NEW p \in Requests, Depart(p) PROVE Quiet
  BY <1>5 DEF TypeOK, Depart, Quiet, Pending
<1>6. ASSUME NEW o \in Offers, ExpireOffer(o) \/ RejectOffer(o) \/ AnswerLate(o) \/ AcceptJoin(o)
      PROVE  Quiet
  BY <1>2, <1>6 DEF ExpireOffer, RejectOffer, AnswerLate, AcceptJoin, TerminalOffer
<1>7. CASE UNCHANGED vars
  BY <1>1, <1>7 DEF vars
<1>8. ASSUME NEW r \in Requests,
             \/ Create(r) \/ CloseWindow(r) \/ ExpireRequest(r) \/ PickUp(r) \/ DropOff(r)
             \/ \E w \in Workers : BeginAssign(w, r)
      PROVE  Quiet
  BY <1>1, <1>8 DEF Create, CloseWindow, ExpireRequest, PickUp, DropOff, BeginAssign
<1>9. ASSUME NEW w \in Workers, SearchDriver(w) \/ CheckDriver(w) \/ Crash(w) PROVE Quiet
  BY <1>1, <1>9 DEF SearchDriver, CheckDriver, Crash
<1>10. ASSUME NEW p \in Requests, ArriveAtFirstPickup(p) \/ StartTrip(p) \/ CompleteTrip(p)
       PROVE  Quiet
  BY <1>1, <1>10 DEF ArriveAtFirstPickup, StartTrip, CompleteTrip
<1>11. ASSUME NEW d \in Drivers, GoOnline(d) \/ GoOffline(d) PROVE Quiet
  BY <1>1, <1>11 DEF GoOnline, GoOffline
<1>12. ASSUME NEW o \in Offers, LapseOffer(o) PROVE Quiet
  BY <1>1, <1>12 DEF LapseOffer
<1> QED
  BY <1>3, <1>4, <1>5, <1>6, <1>7, <1>8, <1>9, <1>10, <1>11, <1>12
  DEF Next, PassengerStep, SweepStep, ClockStep, AssignStep, RunStep, AvailabilityStep,
      AnswerStep, TripStep

(* An offer made is for a passenger without one, to a driver without one.  *)
Made(o, x) ==
    /\ offer[o].status = "FREE" /\ x.status = "PENDING"
    /\ offer' = [offer EXCEPT ![o] = x]
    /\ request[x.req] = "WAITING" /\ seat[x.req] = None
    /\ PendingOf(x.req) = {} /\ PendingFor(x.drv) = {}
    /\ UNCHANGED <<request, seat, rider, pool, driver, fare>>

LEMMA JoinIsMade ==
    ASSUME TypeOK, NEW w \in Workers, OfferJoin(w)
    PROVE  \/ UNCHANGED offer
           \/ /\ Joinable(work[w].req, work[w].target, work[w].version)
              /\ \E o \in Offers, x \in OfferSet :
                    /\ Made(o, x) /\ x.kind = "ADD_PASSENGER"
                    /\ x.req = work[w].req /\ x.pool = work[w].target
                    /\ x.drv = pool[x.pool].driver /\ x.version = pool[x.pool].version
<1> DEFINE r == work[w].req
           p == work[w].target
           x == [status |-> "PENDING", kind |-> "ADD_PASSENGER", req |-> r,
                 drv |-> pool[p].driver, pool |-> p, version |-> pool[p].version]
<1>1. r \in Requests /\ p \in Requests
  BY DEF TypeOK, OfferJoin, WorkSet
<1>2. SUFFICES ASSUME Joinable(r, p, work[w].version), PendingFor(pool[p].driver) = {},
                      FreeOffers # {}, offer' = [offer EXCEPT ![NewOffer] = x]
               PROVE  \E o \in Offers : Made(o, x) /\ x \in OfferSet
  BY <1>1 DEF OfferJoin
<1>3. pool[p].driver \in Drivers /\ pool[p].version \in Nat
  BY <1>1, <1>2 DEF TypeOK, Joinable, PoolSet, NoPool
<1>4. x \in OfferSet
  BY <1>1, <1>3 DEF OfferSet
<1>5. Made(NewOffer, x)
  BY <1>1, <1>2, NewOfferIsFree DEF Made, Joinable, SearchOpen, OfferJoin
<1> QED BY <1>2, <1>4, <1>5, NewOfferIsFree

LEMMA InitialIsMade ==
    ASSUME TypeOK, LockedSearch, NEW w \in Workers, InsertOffer(w)
    PROVE  \/ UNCHANGED offer
           \/ \E o \in Offers, x \in OfferSet :
                 Made(o, x) /\ x.kind = "INITIAL_RIDE" /\ x.req = work[w].req
<1> DEFINE r == work[w].req
           d == work[w].target
           x == [status |-> "PENDING", kind |-> "INITIAL_RIDE",
                 req |-> r, drv |-> d, pool |-> None, version |-> 0]
<1>1. r \in Requests /\ d \in Drivers
  BY DEF TypeOK, InsertOffer, WorkSet
<1>2. SUFFICES ASSUME PendingFor(d) = {}, FreeOffers # {}, offer' = [offer EXCEPT ![NewOffer] = x]
               PROVE  \E o \in Offers : Made(o, x) /\ x \in OfferSet
  BY <1>1 DEF InsertOffer
<1>3. x \in OfferSet
  BY <1>1 DEF OfferSet
<1>4. Made(NewOffer, x)
  BY <1>1, <1>2, NewOfferIsFree DEF Made, LockedSearch, InsertOffer
<1> QED BY <1>2, <1>3, <1>4, NewOfferIsFree

LEMMA OfferSteps ==
    ASSUME TypeOK, LockedSearch, [Next]_vars
    PROVE  Quiet \/ \E o \in Offers, x \in OfferSet : Made(o, x)
<1>1. UNCHANGED offer => Quiet
  BY DEF Quiet, Pending
<1> QED BY <1>1, OffersAreQuiet, JoinIsMade, InitialIsMade

(***************************************************************************)
(* First layer: offers and the lock of a dispatch.                         *)
(***************************************************************************)
LEMMA PendingIsTyped ==
    ASSUME TypeOK, NEW o \in Offers, Pending(o)
    PROVE  /\ offer[o].req \in Requests /\ offer[o].drv \in Drivers
           /\ offer[o].kind = "ADD_PASSENGER" => offer[o].pool \in Requests /\ offer[o].version \in Nat
           /\ offer[o].kind \in {"INITIAL_RIDE", "ADD_PASSENGER"}
BY DEF TypeOK, Pending, OfferSet, NoOffer

LEMMA SingleOfferStep ==
    ASSUME TypeOK, OfferInv, [Next]_vars
    PROVE  SingleOffer' /\ DriverSlot'
<1>1. CASE Quiet
  BY <1>1 DEF Quiet, OfferInv, SingleOffer, DriverSlot, PendingOf, PendingFor
<1>2. ASSUME NEW o \in Offers, NEW x \in OfferSet, Made(o, x) PROVE SingleOffer' /\ DriverSlot'
  BY <1>2 DEF TypeOK, Made, OfferInv, SingleOffer, DriverSlot, PendingOf, PendingFor, Pending
<1> QED BY <1>1, <1>2, OfferSteps DEF OfferInv

LEMMA EndOfferEnds ==
    ASSUME TypeOK, NEW o \in Offers, NEW s \in TerminalOffer, EndOffer(o, s)
    PROVE  offer'[o].status = s /\ \A a \in Offers : a # o => offer'[a] = offer[a]
BY DEF TypeOK, EndOffer, OfferSet, NoOffer

(* The steps that touch rides, and the frame of all others.                *)
RideStill == UNCHANGED <<request, seat, rider, pool, driver, fare>>

LEMMA RideSteps ==
    ASSUME [Next]_vars
    PROVE  \/ RideStill
           \/ \E r \in Requests : Create(r) \/ Cancel(r) \/ ExpireRequest(r) \/ PickUp(r) \/ DropOff(r)
           \/ \E d \in Drivers : GoOnline(d) \/ GoOffline(d)
           \/ \E o \in Offers : AcceptInitial(o) \/ AcceptJoin(o)
           \/ \E p \in Requests : Depart(p) \/ ArriveAtFirstPickup(p) \/ StartTrip(p) \/ CompleteTrip(p)
<1>1. ASSUME NEW w \in Workers, RunStep(w) \/ \E r \in Requests : BeginAssign(w, r) PROVE RideStill
  BY <1>1 DEF RunStep, OfferJoin, SearchDriver, CheckDriver, InsertOffer, Crash, BeginAssign, RideStill
<1>2. ASSUME NEW r \in Requests, CloseWindow(r) PROVE RideStill
  BY <1>2 DEF CloseWindow, RideStill
<1>3. ASSUME NEW o \in Offers, LapseOffer(o) \/ ExpireOffer(o) \/ RejectOffer(o) \/ AnswerLate(o)
      PROVE  RideStill
  BY <1>3 DEF LapseOffer, ExpireOffer, RejectOffer, AnswerLate, RideStill
<1>4. CASE UNCHANGED vars
  BY <1>4 DEF vars, RideStill
<1> QED
  BY <1>1, <1>2, <1>3, <1>4
  DEF Next, PassengerStep, SweepStep, ClockStep, AssignStep, AvailabilityStep, AnswerStep, TripStep

LEMMA OffersSeekRidersStep ==
    ASSUME TypeOK, OfferInv, [Next]_vars
    PROVE  OffersSeekRiders'
<1>1. ASSUME NEW o \in Offers, NEW x \in OfferSet, Made(o, x) PROVE OffersSeekRiders'
  BY <1>1 DEF TypeOK, Made, OfferInv, OffersSeekRiders, Pending
<1>2. CASE Quiet
  <2> SUFFICES ASSUME NEW o \in Offers, Pending(o)'
               PROVE  /\ request'[offer[o].req] \in {"WAITING", "EXPIRED"}
                      /\ seat'[offer[o].req] = None
    BY <1>2 DEF Quiet, OffersSeekRiders
  <2> DEFINE r == offer[o].req
  <2>1. /\ Pending(o) /\ r \in Requests
        /\ request[r] \in {"WAITING", "EXPIRED"} /\ seat[r] = None
    BY <1>2, PendingIsTyped DEF Quiet, OfferInv, OffersSeekRiders
  <2>2. ASSUME NEW a \in Offers, Pending(a), offer[a].req = r, offer'[a].status # "PENDING"
        PROVE  FALSE
    BY <2>1, <2>2 DEF OfferInv, SingleOffer, PendingOf, Pending
  <2>3. CASE RideStill
    BY <2>1, <2>3 DEF RideStill
  <2>4. ASSUME NEW q \in Requests, Create(q) \/ ExpireRequest(q) \/ PickUp(q) \/ DropOff(q)
        PROVE  request'[r] \in {"WAITING", "EXPIRED"} /\ seat'[r] = None
    BY <2>1, <2>4 DEF TypeOK, Create, ExpireRequest, PickUp, DropOff
  <2>5. ASSUME NEW q \in Requests, Cancel(q)
        PROVE  request'[r] \in {"WAITING", "EXPIRED"} /\ seat'[r] = None
    BY <2>1, <2>2, <2>5 DEF TypeOK, Cancel, PendingOf, Pending
  <2>6. ASSUME NEW d \in Drivers, GoOnline(d) \/ GoOffline(d)
        PROVE  request'[r] \in {"WAITING", "EXPIRED"} /\ seat'[r] = None
    BY <2>1, <2>6 DEF GoOnline, GoOffline
  <2>7. ASSUME NEW a \in Offers, AcceptInitial(a)
        PROVE  request'[r] \in {"WAITING", "EXPIRED"} /\ seat'[r] = None
    <3>1. Pending(a) /\ offer'[a].status # "PENDING"
      BY <2>7 DEF TypeOK, AcceptInitial
    <3> QED BY <2>1, <2>2, <2>7, <3>1 DEF TypeOK, AcceptInitial
  <2>8. ASSUME NEW a \in Offers, AcceptJoin(a)
        PROVE  request'[r] \in {"WAITING", "EXPIRED"} /\ seat'[r] = None
    <3>1. Pending(a) /\ (EndOffer(a, "CANCELLED") \/ EndOffer(a, "ACCEPTED"))
      BY <2>8 DEF AcceptJoin
    <3>2. offer'[a].status # "PENDING"
      BY <3>1, EndOfferEnds DEF TerminalOffer
    <3> QED BY <2>1, <2>2, <2>8, <3>1, <3>2 DEF TypeOK, AcceptJoin
  <2>9. ASSUME NEW p \in Requests, Depart(p) \/ ArriveAtFirstPickup(p) \/ CompleteTrip(p)
        PROVE  request'[r] \in {"WAITING", "EXPIRED"} /\ seat'[r] = None
    BY <2>1, <2>9 DEF Depart, ArriveAtFirstPickup, CompleteTrip
  <2>10. ASSUME NEW p \in Requests, StartTrip(p)
         PROVE  request'[r] \in {"WAITING", "EXPIRED"} /\ seat'[r] = None
    BY <2>1, <2>10, NoneAssumption DEF TypeOK, StartTrip, Members
  <2> QED BY <2>3, <2>4, <2>5, <2>6, <2>7, <2>8, <2>9, <2>10, RideSteps
<1> QED BY <1>1, <1>2, OfferSteps DEF OfferInv

(* A worker is at its insert because it was, or because it has just passed *)
(* the checks.                                                             *)
LEMMA WorkerSteps ==
    ASSUME TypeOK, [Next]_vars, NEW v \in Workers, work'[v].step = "insert"
    PROVE  \/ work'[v] = work[v]
           \/ CheckDriver(v) /\ Dispatchable(work[v].req, work[v].target) /\ work'[v].req = work[v].req
<1>1. CASE UNCHANGED work
  BY <1>1
<1>2. ASSUME NEW w \in Workers, RunStep(w) \/ \E r \in Requests : BeginAssign(w, r),
             work'[v] # work[v]
      PROVE  CheckDriver(v) /\ Dispatchable(work[v].req, work[v].target) /\ work'[v].req = work[v].req
  <2>1. CASE \E r \in Requests : BeginAssign(w, r)
    BY <1>2, <2>1 DEF TypeOK, BeginAssign, ToStep
  <2>2. CASE OfferJoin(w)
    BY <1>2, <2>2 DEF TypeOK, OfferJoin, ToStep, Idle
  <2>3. CASE SearchDriver(w)
    BY <1>2, <2>3 DEF TypeOK, SearchDriver, ToStep, Idle
  <2>4. CASE CheckDriver(w)
    BY <1>2, <2>4 DEF TypeOK, CheckDriver, ToStep, Idle
  <2>5. CASE InsertOffer(w)
    BY <1>2, <2>5 DEF TypeOK, InsertOffer, Idle
  <2>6. CASE Crash(w)
    BY <1>2, <2>6 DEF TypeOK, Crash, Idle
  <2> QED BY <1>2, <2>1, <2>2, <2>3, <2>4, <2>5, <2>6 DEF RunStep
<1>3. ASSUME NEW r \in Requests,
             Create(r) \/ Cancel(r) \/ ExpireRequest(r) \/ CloseWindow(r) \/ PickUp(r) \/ DropOff(r)
      PROVE  UNCHANGED work
  BY <1>3 DEF Create, Cancel, ExpireRequest, CloseWindow, PickUp, DropOff
<1>4. ASSUME NEW o \in Offers,
             LapseOffer(o) \/ ExpireOffer(o) \/ RejectOffer(o) \/ AnswerLate(o) \/ AcceptInitial(o)
               \/ AcceptJoin(o)
      PROVE  UNCHANGED work
  BY <1>4 DEF LapseOffer, ExpireOffer, RejectOffer, AnswerLate, AcceptInitial, AcceptJoin
<1>5. ASSUME NEW d \in Drivers, GoOnline(d) \/ GoOffline(d) PROVE UNCHANGED work
  BY <1>5 DEF GoOnline, GoOffline
<1>6. ASSUME NEW p \in Requests, Depart(p) \/ ArriveAtFirstPickup(p) \/ StartTrip(p) \/ CompleteTrip(p)
      PROVE  UNCHANGED work
  BY <1>6 DEF Depart, ArriveAtFirstPickup, StartTrip, CompleteTrip
<1> QED
  BY <1>1, <1>2, <1>3, <1>4, <1>5, <1>6
  DEF Next, PassengerStep, SweepStep, ClockStep, AssignStep, AvailabilityStep, AnswerStep,
      TripStep, vars

(* While a worker holds a request's lock, no step of anyone else moves the *)
(* request, seats it, or makes it an offer.                                *)
LEMMA LockHolds ==
    ASSUME TypeOK, OfferInv, [Next]_vars,
           NEW v \in Workers, work[v].step = "insert", work'[v] = work[v],
           NEW r \in Requests, work[v].req = r
    PROVE  request'[r] = "WAITING" /\ seat'[r] = None /\ PendingOf(r)' = {}
<1>1. /\ r \in Requests /\ request[r] = "WAITING" /\ seat[r] = None /\ PendingOf(r) = {}
      /\ ~Unlocked(r)
  BY DEF TypeOK, WorkSet, OfferInv, LockedSearch, Unlocked
<1>2. request'[r] = "WAITING" /\ seat'[r] = None
  <2>1. CASE RideStill
    BY <1>1, <2>1 DEF RideStill
  <2>2. ASSUME NEW q \in Requests,
               Create(q) \/ Cancel(q) \/ ExpireRequest(q) \/ PickUp(q) \/ DropOff(q)
        PROVE  request'[r] = "WAITING" /\ seat'[r] = None
    BY <1>1, <2>2 DEF TypeOK, Create, Cancel, ExpireRequest, PickUp, DropOff
  <2>3. ASSUME NEW d \in Drivers, GoOnline(d) \/ GoOffline(d)
        PROVE  request'[r] = "WAITING" /\ seat'[r] = None
    BY <1>1, <2>3 DEF GoOnline, GoOffline
  <2>4. ASSUME NEW o \in Offers, AcceptInitial(o)
        PROVE  request'[r] = "WAITING" /\ seat'[r] = None
    BY <1>1, <2>4 DEF TypeOK, AcceptInitial
  <2>5. ASSUME NEW o \in Offers, AcceptJoin(o)
        PROVE  request'[r] = "WAITING" /\ seat'[r] = None
    BY <1>1, <2>5 DEF TypeOK, AcceptJoin
  <2>6. ASSUME NEW p \in Requests, Depart(p) \/ ArriveAtFirstPickup(p) \/ CompleteTrip(p)
        PROVE  request'[r] = "WAITING" /\ seat'[r] = None
    BY <1>1, <2>6 DEF Depart, ArriveAtFirstPickup, CompleteTrip
  <2>7. ASSUME NEW p \in Requests, StartTrip(p)
        PROVE  request'[r] = "WAITING" /\ seat'[r] = None
    BY <1>1, <2>7, NoneAssumption DEF TypeOK, StartTrip, Members
  <2> QED BY <2>1, <2>2, <2>3, <2>4, <2>5, <2>6, <2>7, RideSteps
<1>3. PendingOf(r)' = {}
  <2>1. CASE Quiet
    BY <1>1, <2>1 DEF Quiet, PendingOf
  <2>2. ASSUME NEW w \in Workers, NEW o \in Offers, NEW x \in OfferSet, Made(o, x),
               x.req = work[w].req, OfferJoin(w) \/ InsertOffer(w)
        PROVE  x.req # r
    <3>1. CASE OfferJoin(w)
      BY <1>1, <2>2, <3>1 DEF OfferJoin
    <3>2. CASE InsertOffer(w)
      <4>1. work'[w].step # "insert"
        BY <3>2 DEF TypeOK, InsertOffer, Idle
      <4> QED BY <2>2, <3>2, <4>1 DEF OfferInv, LockedSearch, InsertOffer
    <3> QED BY <2>2, <3>1, <3>2
  <2>3. ASSUME NEW o \in Offers, NEW x \in OfferSet, Made(o, x), x.req # r
        PROVE  PendingOf(r)' = {}
    BY <1>1, <2>3 DEF TypeOK, Made, PendingOf, Pending
  <2>4. ASSUME UNCHANGED offer PROVE PendingOf(r)' = {}
    BY <1>1, <2>4 DEF PendingOf, Pending
  <2> QED BY <2>1, <2>2, <2>3, <2>4, OffersAreQuiet, JoinIsMade, InitialIsMade DEF OfferInv
<1> QED BY <1>2, <1>3

LEMMA LockedSearchStep ==
    ASSUME TypeOK, OfferInv, [Next]_vars
    PROVE  LockedSearch'
<1> SUFFICES ASSUME NEW v \in Workers, work'[v].step = "insert", NEW r \in Requests, work'[v].req = r
             PROVE  /\ request'[r] = "WAITING" /\ seat'[r] = None /\ PendingOf(r)' = {}
                    /\ \A u \in Workers : work'[u].step = "insert" /\ work'[u].req = r => u = v
  BY DEF LockedSearch
<1>1. CASE work'[v] = work[v]
  <2>1. ASSUME NEW u \in Workers, work'[u].step = "insert", work'[u].req = r PROVE u = v
    <3>1. CASE work'[u] = work[u]
      BY <1>1, <2>1, <3>1 DEF OfferInv, LockedSearch
    <3>2. CASE CheckDriver(u) /\ work'[u].req = work[u].req
      BY <1>1, <2>1, <3>2 DEF CheckDriver, Unlocked
    <3> QED BY <2>1, <3>1, <3>2, WorkerSteps
  <2> QED BY <1>1, <2>1, LockHolds
<1>2. CASE CheckDriver(v) /\ Dispatchable(work[v].req, work[v].target) /\ work'[v].req = work[v].req
  <2>1. ASSUME NEW u \in Workers, u # v PROVE work'[u] = work[u]
    BY <1>2, <2>1 DEF TypeOK, CheckDriver, ToStep
  <2>2. ASSUME NEW u \in Workers, work'[u].step = "insert", work'[u].req = r PROVE u = v
    BY <1>2, <2>1, <2>2 DEF CheckDriver, Unlocked
  <2>3. UNCHANGED <<request, seat, offer>> /\ PendingOf(r)' = PendingOf(r)
    BY <1>2 DEF CheckDriver, PendingOf, Pending
  <2> QED BY <1>2, <2>2, <2>3 DEF Dispatchable, SearchOpen
<1> QED BY <1>1, <1>2, WorkerSteps

(* First layer, all of it: each offer seeks a rider who has none other,    *)
(* whatever races with the dispatch that made it.                          *)
LEMMA OfferInvStep ==
    ASSUME TypeOK, OfferInv, [Next]_vars
    PROVE  OfferInv'
BY SingleOfferStep, OffersSeekRidersStep, LockedSearchStep DEF OfferInv

LEMMA OfferInvInit == Init => OfferInv
BY DEF Init, OfferInv, OffersSeekRiders, SingleOffer, DriverSlot, LockedSearch, PendingOf,
       PendingFor, Pending, NoOffer, Idle

(***************************************************************************)
(* Second layer: requests, seats, pools and drivers.                       *)
(***************************************************************************)
(* A pool founded now was nobody's before.                                 *)
LEMMA FreshPool ==
    ASSUME TypeOK, RideAgrees, FounderSits, NEW r \in Requests, seat[r] = None
    PROVE  pool[r].status = "NONE" /\ Members(r) = {} /\ \A d \in Drivers : r \notin PoolsOf(d)
<1>1. pool[r].status = "NONE"
  BY NoneAssumption DEF FounderSits
<1>2. Members(r) = {}
  BY <1>1, NoneAssumption DEF TypeOK, RideAgrees, Members, ActivePool
<1> QED BY <1>1, <1>2 DEF PoolsOf, ActivePool

LEMMA SetPoolMoves ==
    ASSUME TypeOK, NEW p \in Requests, NEW s \in PoolStatus, SetPool(p, s), pool[p].status # "NONE"
    PROVE  /\ pool'[p].status = s
           /\ \A q \in Requests : q # p => pool'[q] = pool[q]
           /\ \A q \in Requests : pool'[q].driver = pool[q].driver /\ pool'[q].version = pool[q].version
BY DEF TypeOK, SetPool, PoolSet, NoPool

LEMMA JoinKeepsPools ==
    ASSUME TypeOK, NEW o \in Offers, AcceptJoin(o)
    PROVE  \A q \in Requests : pool'[q].driver = pool[q].driver /\ pool'[q].status = pool[q].status
<1>1. offer[o].pool \in Requests
  BY PendingIsTyped DEF AcceptJoin
<1>2. pool[offer[o].pool] \in PoolSet /\ pool[offer[o].pool].status = "FORMING"
  BY <1>1 DEF TypeOK, AcceptJoin
<1>3. CASE UNCHANGED pool
  BY <1>3
<1>4. CASE pool' = [pool EXCEPT ![offer[o].pool].version = @ + 1]
  BY <1>1, <1>2, <1>4 DEF TypeOK, PoolSet, NoPool
<1> QED BY <1>3, <1>4 DEF AcceptJoin

LEMMA FounderSitsStep ==
    ASSUME TypeOK, RideInv, [Next]_vars
    PROVE  FounderSits'
<1>1. CASE RideStill
  BY <1>1 DEF RideStill, RideInv, FounderSits
<1>2. ASSUME NEW r \in Requests,
             Create(r) \/ Cancel(r) \/ ExpireRequest(r) \/ PickUp(r) \/ DropOff(r)
      PROVE  FounderSits'
  BY <1>2 DEF Create, Cancel, ExpireRequest, PickUp, DropOff, RideInv, FounderSits
<1>3. ASSUME NEW d \in Drivers, GoOnline(d) \/ GoOffline(d) PROVE FounderSits'
  BY <1>3 DEF GoOnline, GoOffline, RideInv, FounderSits
<1>4. ASSUME NEW o \in Offers, AcceptInitial(o) PROVE FounderSits'
  <2>1. offer[o].req \in Requests /\ seat[offer[o].req] = None
    BY <1>4, PendingIsTyped DEF AcceptInitial
  <2> QED BY <1>4, <2>1, NoneAssumption DEF TypeOK, AcceptInitial, RideInv, FounderSits
<1>5. ASSUME NEW o \in Offers, AcceptJoin(o) PROVE FounderSits'
  <2>1. ASSUME NEW q \in Requests, pool'[q].status # "NONE" PROVE seat'[q] = q
    <3>1. seat[q] = q
      BY <1>5, <2>1, JoinKeepsPools DEF RideInv, FounderSits
    <3> QED BY <1>5, <3>1, PendingIsTyped, NoneAssumption DEF TypeOK, AcceptJoin
  <2> QED BY <2>1 DEF FounderSits
<1>6. ASSUME NEW p \in Requests, NEW s \in PoolStatus, SetPool(p, s), pool[p].status # "NONE",
             UNCHANGED seat
      PROVE  FounderSits'
  BY <1>6, SetPoolMoves DEF RideInv, FounderSits
<1>7. ASSUME NEW p \in Requests, Depart(p) \/ ArriveAtFirstPickup(p) \/ StartTrip(p) \/ CompleteTrip(p)
      PROVE  FounderSits'
  BY <1>6, <1>7 DEF Depart, ArriveAtFirstPickup, StartTrip, CompleteTrip, PoolStatus
<1> QED BY <1>1, <1>2, <1>3, <1>4, <1>5, <1>7, RideSteps

(* A ride's clocks agree after every step: one case per way a request, a   *)
(* seat or a pool can move.                                                *)
LEMMA RideAgreesStep ==
    ASSUME TypeOK, RideInv, [Next]_vars
    PROVE  RideAgrees'
<1> USE NoneAssumption DEF ActivePool
<1>1. CASE RideStill
  BY <1>1 DEF RideStill, RideInv, RideAgrees
<1>2. ASSUME NEW r \in Requests, Create(r) \/ Cancel(r) \/ ExpireRequest(r) PROVE RideAgrees'
  BY <1>2 DEF TypeOK, Create, Cancel, ExpireRequest, RideInv, RideAgrees
<1>3. ASSUME NEW r \in Requests, PickUp(r) PROVE RideAgrees'
  BY <1>3 DEF TypeOK, PickUp, RideInv, RideAgrees
<1>4. ASSUME NEW r \in Requests, DropOff(r) PROVE RideAgrees'
  BY <1>4 DEF TypeOK, DropOff, RideInv, RideAgrees
<1>5. ASSUME NEW d \in Drivers, GoOnline(d) \/ GoOffline(d) PROVE RideAgrees'
  BY <1>5 DEF GoOnline, GoOffline, RideInv, RideAgrees
<1>6. ASSUME NEW o \in Offers, AcceptInitial(o) PROVE RideAgrees'
  <2>1. offer[o].req \in Requests /\ seat[offer[o].req] = None
    BY <1>6, PendingIsTyped DEF AcceptInitial
  <2>2. Members(offer[o].req) = {}
    BY <2>1, FreshPool DEF RideInv
  <2> QED BY <1>6, <2>1, <2>2 DEF TypeOK, AcceptInitial, Members, RideInv, RideAgrees
<1>7. ASSUME NEW o \in Offers, AcceptJoin(o) PROVE RideAgrees'
  <2>1. offer[o].req \in Requests /\ offer[o].pool \in Requests
    BY <1>7, PendingIsTyped DEF AcceptJoin
  <2>2. CASE UNCHANGED <<request, seat, rider, pool>>
    BY <2>2 DEF RideInv, RideAgrees
  <2>3. CASE /\ seat' = [seat EXCEPT ![offer[o].req] = offer[o].pool]
             /\ rider' = [rider EXCEPT ![offer[o].req] = "ASSIGNED"]
             /\ request' = [request EXCEPT ![offer[o].req] = "MATCHED"]
    <3>1. pool[offer[o].pool].status = "FORMING"
      BY <1>7 DEF AcceptJoin
    <3> QED BY <1>7, <2>1, <2>3, <3>1, JoinKeepsPools DEF TypeOK, RideInv, RideAgrees
  <2> QED BY <1>7, <2>2, <2>3 DEF AcceptJoin
<1>8. ASSUME NEW p \in Requests, Depart(p) PROVE RideAgrees'
  <2>1. SetPool(p, "DRIVER_EN_ROUTE") /\ pool[p].status = "FORMING" /\ UNCHANGED <<request, seat, rider>>
    BY <1>8 DEF Depart
  <2> QED BY <2>1, SetPoolMoves DEF TypeOK, PoolStatus, RideInv, RideAgrees
<1>9. ASSUME NEW p \in Requests, ArriveAtFirstPickup(p) PROVE RideAgrees'
  <2>1. /\ SetPool(p, "ARRIVED") /\ pool[p].status = "DRIVER_EN_ROUTE"
        /\ UNCHANGED <<request, seat, rider>>
    BY <1>9 DEF ArriveAtFirstPickup
  <2> QED BY <2>1, SetPoolMoves DEF TypeOK, PoolStatus, RideInv, RideAgrees
<1>10. ASSUME NEW p \in Requests, StartTrip(p) PROVE RideAgrees'
  <2>1. SetPool(p, "IN_PROGRESS") /\ pool[p].status = "ARRIVED" /\ UNCHANGED <<seat, rider>>
    BY <1>10 DEF StartTrip
  <2>2. \A r \in Requests : request'[r] = IF seat[r] = p /\ rider[r] = "PICKED_UP"
                                          THEN "IN_PROGRESS" ELSE request[r]
    BY <1>10 DEF StartTrip, Members
  <2> QED BY <2>1, <2>2, SetPoolMoves DEF TypeOK, PoolStatus, RideInv, RideAgrees
<1>11. ASSUME NEW p \in Requests, CompleteTrip(p) PROVE RideAgrees'
  <2>1. /\ SetPool(p, "COMPLETED") /\ pool[p].status = "IN_PROGRESS"
        /\ UNCHANGED <<request, seat, rider>>
        /\ \A r \in Requests : seat[r] = p => rider[r] = "DROPPED_OFF"
    BY <1>11 DEF CompleteTrip, Members
  <2> QED BY <2>1, SetPoolMoves DEF TypeOK, PoolStatus, RideInv, RideAgrees
<1> QED
  BY <1>1, <1>2, <1>3, <1>4, <1>5, <1>6, <1>7, <1>8, <1>9, <1>10, <1>11, RideSteps

(* A driver with one active pool has that one.                             *)
LEMMA OnePool ==
    ASSUME TypeOK, RideInv, NEW p \in Requests, NEW d \in Drivers, p \in PoolsOf(d)
    PROVE  PoolsOf(d) = {p} /\ driver[d] \in {"RESERVED", "ON_RIDE"}
<1>1. driver[d] \in {"RESERVED", "ON_RIDE"}
  BY DEF TypeOK, Availability, RideInv, DriverCommitment, Committed
<1>2. \E q \in Requests : PoolsOf(d) = {q}
  BY <1>1 DEF RideInv, DriverCommitment, Committed
<1> QED BY <1>1, <1>2

LEMMA ActivePoolHasDriver ==
    ASSUME TypeOK, NEW p \in Requests, pool[p].status # "NONE"
    PROVE  pool[p].driver \in Drivers /\ pool[p].version \in Nat
BY DEF TypeOK, PoolSet, NoPool

(* Moving an active pool moves it in its driver's set only by leaving it.  *)
LEMMA MovedPools ==
    ASSUME TypeOK, NEW p \in Requests, NEW s \in PoolStatus, SetPool(p, s), pool[p].status \in ActivePool,
           NEW d \in Drivers
    PROVE  PoolsOf(d)' = IF s \in ActivePool THEN PoolsOf(d) ELSE PoolsOf(d) \ {p}
<1>1. pool[p].status # "NONE"
  BY DEF ActivePool
<1> QED BY <1>1, SetPoolMoves DEF PoolsOf

LEMMA DriverCommitmentStep ==
    ASSUME TypeOK, RideInv, [Next]_vars
    PROVE  DriverCommitment'
<1>1. ASSUME UNCHANGED <<driver, pool>> PROVE DriverCommitment'
  BY <1>1 DEF RideInv, DriverCommitment, Committed, PoolsOf
<1>2. ASSUME NEW r \in Requests,
             Create(r) \/ Cancel(r) \/ ExpireRequest(r) \/ PickUp(r) \/ DropOff(r)
      PROVE  DriverCommitment'
  BY <1>1, <1>2 DEF Create, Cancel, ExpireRequest, PickUp, DropOff
<1>3. ASSUME NEW d \in Drivers, GoOnline(d) \/ GoOffline(d) PROVE DriverCommitment'
  <2>1. \A e \in Drivers : PoolsOf(e)' = PoolsOf(e)
    BY <1>3 DEF GoOnline, GoOffline, PoolsOf
  <2> QED BY <1>3, <2>1 DEF TypeOK, GoOnline, GoOffline, RideInv, DriverCommitment, Committed
<1>4. ASSUME NEW o \in Offers, AcceptInitial(o) PROVE DriverCommitment'
  <2> DEFINE r == offer[o].req
             d == offer[o].drv
  <2>1. r \in Requests /\ d \in Drivers /\ seat[r] = None /\ driver[d] = "AVAILABLE"
    BY <1>4, PendingIsTyped DEF AcceptInitial, DriverFree
  <2>2. pool[r].status = "NONE" /\ \A e \in Drivers : r \notin PoolsOf(e)
    BY <2>1, FreshPool DEF RideInv
  <2>3. PoolsOf(d) = {}
    BY <2>1 DEF RideInv, DriverCommitment, Committed
  <2>4. /\ pool' = [pool EXCEPT ![r] = [status |-> "FORMING", driver |-> d, version |-> 1]]
        /\ driver' = [driver EXCEPT ![d] = "RESERVED"]
    BY <1>4 DEF AcceptInitial
  <2>5. \A e \in Drivers : PoolsOf(e)' = IF e = d THEN {r} ELSE PoolsOf(e)
    BY <2>1, <2>2, <2>3, <2>4 DEF TypeOK, PoolsOf, ActivePool
  <2>6. pool'[r].status = "FORMING" /\ \A q \in Requests : q # r => pool'[q] = pool[q]
    BY <2>1, <2>4 DEF TypeOK
  <2>7. ASSUME NEW e \in Drivers PROVE Committed(e)'
    <3>1. CASE e = d
      BY <2>1, <2>4, <2>5, <2>6, <3>1 DEF TypeOK, Committed
    <3>2. CASE e # d
      <4>1. driver'[e] = driver[e] /\ PoolsOf(e)' = PoolsOf(e)
        BY <2>1, <2>4, <2>5, <3>2 DEF TypeOK
      <4>2. \A p \in PoolsOf(e) : p \in Requests /\ pool'[p] = pool[p]
        BY <2>2, <2>6 DEF PoolsOf
      <4> QED BY <4>1, <4>2 DEF RideInv, DriverCommitment, Committed
    <3> QED BY <3>1, <3>2
  <2> QED BY <2>7 DEF DriverCommitment
<1>5. ASSUME NEW o \in Offers, AcceptJoin(o) PROVE DriverCommitment'
  <2>1. \A e \in Drivers : PoolsOf(e)' = PoolsOf(e)
    BY <1>5, JoinKeepsPools DEF PoolsOf
  <2>2. UNCHANGED driver
    BY <1>5 DEF AcceptJoin
  <2>3. \A q \in Requests : pool'[q].status = pool[q].status
    BY <1>5, JoinKeepsPools
  <2> QED BY <2>1, <2>2, <2>3 DEF RideInv, DriverCommitment, Committed, PoolsOf
<1>6. ASSUME NEW p \in Requests, ArriveAtFirstPickup(p) \/ StartTrip(p) PROVE DriverCommitment'
  <2>1. PICK s \in PoolStatus : /\ SetPool(p, s) /\ s \in ActivePool /\ s # "FORMING"
                                /\ pool[p].status \in ActivePool /\ pool[p].status # "FORMING"
    BY <1>6 DEF ArriveAtFirstPickup, StartTrip, PoolStatus, ActivePool
  <2>2. UNCHANGED driver
    BY <1>6 DEF ArriveAtFirstPickup, StartTrip
  <2>3. \A e \in Drivers : PoolsOf(e)' = PoolsOf(e)
    BY <2>1, MovedPools
  <2>4. \A q \in Requests : (pool'[q].status = "FORMING") <=> (pool[q].status = "FORMING")
    BY <2>1, SetPoolMoves DEF ActivePool
  <2> QED BY <2>2, <2>3, <2>4 DEF RideInv, DriverCommitment, Committed, PoolsOf
<1>7. ASSUME NEW p \in Requests, Depart(p) PROVE DriverCommitment'
  <2>0. pool[p].status # "NONE"
    BY <1>7 DEF Depart
  <2> PICK d \in Drivers : d = pool[p].driver
    BY <2>0, ActivePoolHasDriver
  <2>1. /\ SetPool(p, "DRIVER_EN_ROUTE") /\ pool[p].status = "FORMING"
        /\ driver' = [driver EXCEPT ![d] = "ON_RIDE"]
    BY <1>7 DEF Depart
  <2>2. p \in PoolsOf(d)
    BY <2>1 DEF PoolsOf, ActivePool
  <2>3. \A e \in Drivers : PoolsOf(e)' = PoolsOf(e)
    BY <2>1, MovedPools DEF ActivePool, PoolStatus
  <2>4. PoolsOf(d) = {p} /\ \A e \in Drivers : e # d => p \notin PoolsOf(e)
    BY <2>2, OnePool DEF PoolsOf
  <2>5. pool'[p].status = "DRIVER_EN_ROUTE" /\ \A q \in Requests : q # p => pool'[q] = pool[q]
    BY <2>1, SetPoolMoves DEF PoolStatus
  <2>6. driver'[d] = "ON_RIDE" /\ \A e \in Drivers : e # d => driver'[e] = driver[e]
    BY <2>1, <2>2 DEF TypeOK
  <2> QED BY <2>2, <2>3, <2>4, <2>5, <2>6 DEF RideInv, DriverCommitment, Committed, PoolsOf
<1>8. ASSUME NEW p \in Requests, CompleteTrip(p) PROVE DriverCommitment'
  <2>0. pool[p].status # "NONE"
    BY <1>8 DEF CompleteTrip
  <2> PICK d \in Drivers : d = pool[p].driver
    BY <2>0, ActivePoolHasDriver
  <2>1. /\ SetPool(p, "COMPLETED") /\ pool[p].status = "IN_PROGRESS"
        /\ driver' = [driver EXCEPT ![d] = "AVAILABLE"]
    BY <1>8 DEF CompleteTrip
  <2>2. p \in PoolsOf(d)
    BY <2>1 DEF PoolsOf, ActivePool
  <2>3. \A e \in Drivers : PoolsOf(e)' = PoolsOf(e) \ {p}
    BY <2>1, MovedPools DEF ActivePool, PoolStatus
  <2>4. PoolsOf(d) = {p} /\ \A e \in Drivers : e # d => p \notin PoolsOf(e)
    BY <2>2, OnePool DEF PoolsOf
  <2>5. \A q \in Requests : q # p => pool'[q] = pool[q]
    BY <2>1, SetPoolMoves DEF PoolStatus
  <2>6. driver'[d] = "AVAILABLE" /\ \A e \in Drivers : e # d => driver'[e] = driver[e]
    BY <2>1, <2>2 DEF TypeOK
  <2>7. PoolsOf(d)' = {} /\ \A e \in Drivers : e # d => PoolsOf(e)' = PoolsOf(e)
    BY <2>2, <2>3, <2>4
  <2> QED BY <2>2, <2>4, <2>5, <2>6, <2>7 DEF RideInv, DriverCommitment, Committed, PoolsOf
<1> QED
  BY <1>1, <1>2, <1>3, <1>4, <1>5, <1>6, <1>7, <1>8, RideSteps DEF RideStill

LEMMA RideInvStep ==
    ASSUME TypeOK, RideInv, [Next]_vars
    PROVE  RideInv'
BY RideAgreesStep, FounderSitsStep, DriverCommitmentStep DEF RideInv

LEMMA RideInvInit == Init => RideInv
BY NoneAssumption
   DEF Init, RideInv, RideAgrees, FounderSits, DriverCommitment, Committed, PoolsOf, NoPool, ActivePool

(***************************************************************************)
(* Third layer: what offers, fares and seats say of a pool's plan.         *)
(***************************************************************************)
(* A first passenger fills a pool that was empty.                          *)
Founds(o, r) ==
    /\ Pending(o) /\ offer[o].kind = "INITIAL_RIDE" /\ r = offer[o].req
    /\ seat[r] = None /\ Members(r) = {} /\ pool[r].status = "NONE"
    /\ seat' = [seat EXCEPT ![r] = r]
    /\ pool' = [pool EXCEPT ![r] = [status |-> "FORMING", driver |-> offer[o].drv, version |-> 1]]
    /\ fare' = [fare EXCEPT ![r] = Priced(1, {r})]
    /\ offer' = [offer EXCEPT ![o].status = "ACCEPTED", ![o].pool = r]

LEMMA InitialFounds ==
    ASSUME TypeOK, RideInv, NEW o \in Offers, AcceptInitial(o)
    PROVE  \E r \in Requests : Founds(o, r)
<1>1. PICK r \in Requests : r = offer[o].req
  BY PendingIsTyped DEF AcceptInitial
<1>2. pool[r].status = "NONE" /\ Members(r) = {}
  BY <1>1, FreshPool DEF AcceptInitial, RideInv
<1> QED BY <1>1, <1>2 DEF AcceptInitial, Founds

(* A joining passenger is added to one pool, at its next version.          *)
Joins(o, r, p) ==
    /\ Pending(o) /\ offer[o].kind = "ADD_PASSENGER" /\ r = offer[o].req /\ p = offer[o].pool
    /\ seat[r] = None /\ HasRoom(p)
    /\ pool[p].status = "FORMING" /\ pool[p].driver = offer[o].drv
    /\ seat' = [seat EXCEPT ![r] = p]
    /\ pool' = [pool EXCEPT ![p].version = @ + 1]
    /\ fare' = [fare EXCEPT ![p] = JoinFare(p, r)]
    /\ EndOffer(o, "ACCEPTED")

(* A stale acceptance changes nothing but its offer.                       *)
Lapses(o) ==
    /\ Pending(o) /\ EndOffer(o, "CANCELLED")
    /\ UNCHANGED <<request, seat, rider, pool, fare>>

LEMMA JoinJoins ==
    ASSUME TypeOK, NEW o \in Offers, AcceptJoin(o)
    PROVE  Lapses(o) \/ \E r, p \in Requests : Joins(o, r, p)
<1>1. offer[o].req \in Requests /\ offer[o].pool \in Requests
  BY PendingIsTyped DEF AcceptJoin
<1>2. CASE StaleJoin(o)
  BY <1>2 DEF AcceptJoin, Lapses
<1>3. CASE ~StaleJoin(o)
  <2>1. Joins(o, offer[o].req, offer[o].pool)
    BY <1>3 DEF AcceptJoin, Joins
  <2> QED BY <1>1, <2>1
<1> QED BY <1>2, <1>3

LEMMA MembersStay == ASSUME UNCHANGED seat PROVE \A p \in Requests : Members(p)' = Members(p)
BY DEF Members

(* The steps that move pools without seating anybody.                      *)
PoolMove(p, s) ==
    /\ SetPool(p, s) /\ pool[p].status \in ActivePool /\ s \in PoolStatus
    /\ s \notin {"NONE", "FORMING"}
    /\ UNCHANGED seat

LEMMA PlanSteps ==
    ASSUME TypeOK, RideInv, [Next]_vars
    PROVE  \/ UNCHANGED <<seat, pool, fare>>
           \/ \E o \in Offers, r \in Requests : Founds(o, r)
           \/ \E o \in Offers, r, p \in Requests : Joins(o, r, p)
           \/ \E p \in Requests : Depart(p) /\ PoolMove(p, "DRIVER_EN_ROUTE")
           \/ \E p \in Requests, s \in PoolStatus :
                  PoolMove(p, s) /\ pool[p].status # "FORMING" /\ UNCHANGED fare
<1>1. ASSUME NEW r \in Requests,
             Create(r) \/ Cancel(r) \/ ExpireRequest(r) \/ PickUp(r) \/ DropOff(r)
      PROVE  UNCHANGED <<seat, pool, fare>>
  BY <1>1 DEF Create, Cancel, ExpireRequest, PickUp, DropOff
<1>2. ASSUME NEW d \in Drivers, GoOnline(d) \/ GoOffline(d) PROVE UNCHANGED <<seat, pool, fare>>
  BY <1>2 DEF GoOnline, GoOffline
<1>3. ASSUME NEW p \in Requests, Depart(p) PROVE PoolMove(p, "DRIVER_EN_ROUTE")
  BY <1>3 DEF Depart, PoolMove, ActivePool, PoolStatus
<1>4. ASSUME NEW p \in Requests, ArriveAtFirstPickup(p) \/ StartTrip(p) \/ CompleteTrip(p)
      PROVE  \E s \in PoolStatus : PoolMove(p, s) /\ pool[p].status # "FORMING" /\ UNCHANGED fare
  BY <1>4 DEF ArriveAtFirstPickup, StartTrip, CompleteTrip, PoolMove, ActivePool, PoolStatus
<1>5. ASSUME NEW o \in Offers, Lapses(o) PROVE UNCHANGED <<seat, pool, fare>>
  BY <1>5 DEF Lapses
<1> QED BY <1>1, <1>2, <1>3, <1>4, <1>5, InitialFounds, JoinJoins, RideSteps DEF RideStill

LEMMA PoolMoves ==
    ASSUME TypeOK, NEW p \in Requests, NEW s \in PoolStatus, PoolMove(p, s)
    PROVE  /\ pool'[p].status = s
           /\ \A q \in Requests : q # p => pool'[q] = pool[q]
           /\ \A q \in Requests : /\ pool'[q].driver = pool[q].driver
                                  /\ pool'[q].version = pool[q].version
                                  /\ Members(q)' = Members(q)
<1>1. pool[p].status # "NONE"
  BY DEF PoolMove, ActivePool
<1> QED BY <1>1, SetPoolMoves, MembersStay DEF PoolMove

LEMMA PartyStep ==
    ASSUME TypeOK, RideInv, PlanInv, [Next]_vars
    PROVE  NoOverbooking' /\ \A p \in Requests : IsFiniteSet(Members(p)')
<1> SUFFICES ASSUME NEW p \in Requests
             PROVE  Cardinality(Members(p)') <= Capacity /\ IsFiniteSet(Members(p)')
  BY DEF NoOverbooking
<1>1. Cardinality(Members(p)) <= Capacity /\ IsFiniteSet(Members(p))
  BY DEF PlanInv, NoOverbooking
<1>2. CASE Members(p)' = Members(p)
  BY <1>1, <1>2
<1>3. ASSUME NEW o \in Offers, NEW r \in Requests, Founds(o, r)
      PROVE  Cardinality(Members(p)') <= Capacity /\ IsFiniteSet(Members(p)')
  <2>1. Cardinality({r}) = 1 /\ IsFiniteSet({r})
    BY FS_Singleton
  <2>2. Members(p)' = IF p = r THEN {r} ELSE Members(p)
    BY <1>3, NoneAssumption DEF TypeOK, Founds, Members
  <2> QED BY <1>1, <2>1, <2>2, CapacityAssumption
<1>4. ASSUME NEW o \in Offers, NEW r \in Requests, NEW k \in Requests, Joins(o, r, k)
      PROVE  Cardinality(Members(p)') <= Capacity /\ IsFiniteSet(Members(p)')
  <2>1. CASE k # p
    <3>1. Members(p)' = Members(p)
      BY <1>4, <2>1, NoneAssumption DEF TypeOK, Joins, Members
    <3> QED BY <1>1, <3>1
  <2>2. CASE k = p
    <3>1. Members(p)' = Members(p) \cup {r} /\ r \notin Members(p)
      BY <1>4, <2>2, NoneAssumption DEF TypeOK, Joins, Members
    <3>2. Cardinality(Members(p)) < Capacity
      BY <1>4, <2>2 DEF Joins, HasRoom
    <3>3. /\ Cardinality(Members(p) \cup {r}) = Cardinality(Members(p)) + 1
          /\ IsFiniteSet(Members(p) \cup {r}) /\ Cardinality(Members(p)) \in Nat
      BY <1>1, <3>1, FS_AddElement, FS_CardinalityType
    <3> QED BY <3>1, <3>2, <3>3, CapacityAssumption
  <2> QED BY <2>1, <2>2
<1> QED BY <1>2, <1>3, <1>4, PlanSteps, PoolMoves, MembersStay DEF PoolMove

LEMMA JoinOffersAreCurrentStep ==
    ASSUME TypeOK, OfferInv, RideInv, PlanInv, [Next]_vars
    PROVE  JoinOffersAreCurrent'
<1> SUFFICES ASSUME NEW p \in Requests, NEW o \in Offers, Pending(o)',
                    offer'[o].kind = "ADD_PASSENGER", offer'[o].pool = p
             PROVE  /\ pool'[p].status = "FORMING" /\ pool'[p].driver = offer'[o].drv
                    /\ offer'[o].version = pool'[p].version
                    /\ Cardinality(Members(p)') < Capacity
  BY DEF JoinOffersAreCurrent, PendingJoins, HasRoom
<1>1. ASSUME o \in PendingJoins(p)
      PROVE  /\ pool[p].status = "FORMING" /\ pool[p].driver = offer[o].drv
             /\ offer[o].version = pool[p].version
             /\ Cardinality(Members(p)) < Capacity
  BY <1>1 DEF PlanInv, JoinOffersAreCurrent, HasRoom
<1>2. ASSUME pool'[p] = pool[p], Members(p)' = Members(p), o \in PendingJoins(p), offer'[o] = offer[o]
      PROVE  /\ pool'[p].status = "FORMING" /\ pool'[p].driver = offer'[o].drv
             /\ offer'[o].version = pool'[p].version
             /\ Cardinality(Members(p)') < Capacity
  BY <1>1, <1>2
<1>3. CASE Quiet
  <2>1. o \in PendingJoins(p) /\ offer'[o] = offer[o]
    BY <1>3 DEF Quiet, PendingJoins
  <2>2. pool[p].status = "FORMING" /\ pool[p].driver = offer[o].drv
    BY <1>1, <2>1
  <2>3. CASE UNCHANGED <<seat, pool, fare>>
    BY <1>2, <2>1, <2>3, MembersStay
  <2>4. ASSUME NEW a \in Offers, NEW r \in Requests, Founds(a, r)
        PROVE  pool'[p] = pool[p] /\ Members(p)' = Members(p)
    <3>1. r # p
      BY <2>2, <2>4 DEF Founds
    <3> QED BY <2>4, <3>1, NoneAssumption DEF TypeOK, Founds, Members
  <2>5. ASSUME NEW a \in Offers, NEW r \in Requests, NEW k \in Requests, Joins(a, r, k)
        PROVE  pool'[p] = pool[p] /\ Members(p)' = Members(p)
    <3>1. offer'[a].status = "ACCEPTED"
      BY <2>5, EndOfferEnds DEF Joins, TerminalOffer
    <3>2. a # o
      BY <2>1, <3>1 DEF PendingJoins, Pending
    <3>3. k # p
      <4>1. offer[a].drv # offer[o].drv
        BY <2>1, <2>5, <3>2, PendingIsTyped
        DEF Joins, PendingJoins, OfferInv, DriverSlot, PendingFor
      <4> QED BY <2>2, <2>5, <4>1 DEF Joins
    <3> QED BY <2>5, <3>3, NoneAssumption DEF TypeOK, Joins, Members
  <2>6. ASSUME NEW k \in Requests, Depart(k), PoolMove(k, "DRIVER_EN_ROUTE")
        PROVE  pool'[p] = pool[p] /\ Members(p)' = Members(p)
    <3>1. k # p
      <4>1. SUFFICES ASSUME k = p PROVE FALSE
        OBVIOUS
      <4>2. offer'[o] = [offer[o] EXCEPT !.status = "CANCELLED"]
        BY <2>1, <2>6, <4>1 DEF Depart, CancelledByDeparture, PendingJoins
      <4> QED BY <2>1, <4>2 DEF PendingJoins, Pending, TypeOK, OfferSet, NoOffer
    <3> QED BY <2>6, <3>1, PoolMoves DEF PoolStatus
  <2>7. ASSUME NEW k \in Requests, NEW s \in PoolStatus, PoolMove(k, s), pool[k].status # "FORMING"
        PROVE  pool'[p] = pool[p] /\ Members(p)' = Members(p)
    BY <2>2, <2>7, PoolMoves
  <2> QED BY <1>2, <2>1, <2>3, <2>4, <2>5, <2>6, <2>7, PlanSteps
<1>4. ASSUME NEW w \in Workers, OfferJoin(w) \/ InsertOffer(w), ~ UNCHANGED offer
      PROVE  /\ pool'[p].status = "FORMING" /\ pool'[p].driver = offer'[o].drv
             /\ offer'[o].version = pool'[p].version
             /\ Cardinality(Members(p)') < Capacity
  <2>1. PICK a \in Offers, x \in OfferSet :
             /\ Made(a, x)
             /\ x.kind = "ADD_PASSENGER" =>
                   /\ Joinable(work[w].req, x.pool, work[w].version)
                   /\ x.drv = pool[x.pool].driver /\ x.version = pool[x.pool].version
    BY <1>4, JoinIsMade, InitialIsMade DEF OfferInv
  <2>2. UNCHANGED <<pool, seat>> /\ Members(p)' = Members(p)
    BY <2>1, MembersStay DEF Made
  <2>3. CASE a = o
    BY <2>1, <2>2, <2>3 DEF TypeOK, Made, Joinable, HasRoom
  <2>4. CASE a # o
    <3>1. o \in PendingJoins(p) /\ offer'[o] = offer[o]
      BY <2>1, <2>4 DEF TypeOK, Made, PendingJoins, Pending
    <3> QED BY <1>2, <2>2, <3>1
  <2> QED BY <2>3, <2>4
<1>5. CASE UNCHANGED offer
  BY <1>3, <1>5 DEF Quiet, Pending
<1> QED BY <1>3, <1>4, <1>5, OffersAreQuiet

LEMMA FareCoversPlanStep ==
    ASSUME TypeOK, RideInv, PlanInv, [Next]_vars
    PROVE  FareCoversPlan'
<1> SUFFICES ASSUME NEW p \in Requests, pool'[p].status # "NONE"
             PROVE  /\ fare'[p].version = pool'[p].version
                    /\ fare'[p].riders = Members(p)'
                    /\ (fare'[p].status = "CURRENT") <=> (pool'[p].status = "FORMING")
  BY DEF FareCoversPlan
<1>1. ASSUME pool[p].status # "NONE"
      PROVE  /\ fare[p].version = pool[p].version
             /\ fare[p].riders = Members(p)
             /\ (fare[p].status = "CURRENT") <=> (pool[p].status = "FORMING")
  BY <1>1 DEF PlanInv, FareCoversPlan
<1>2. ASSUME pool'[p] = pool[p], fare'[p] = fare[p], Members(p)' = Members(p)
      PROVE  /\ fare'[p].version = pool'[p].version
             /\ fare'[p].riders = Members(p)'
             /\ (fare'[p].status = "CURRENT") <=> (pool'[p].status = "FORMING")
  BY <1>1, <1>2
<1>3. CASE UNCHANGED <<seat, pool, fare>>
  BY <1>2, <1>3, MembersStay
<1>4. ASSUME NEW o \in Offers, NEW r \in Requests, Founds(o, r)
      PROVE  /\ fare'[p].version = pool'[p].version
             /\ fare'[p].riders = Members(p)'
             /\ (fare'[p].status = "CURRENT") <=> (pool'[p].status = "FORMING")
  <2>1. CASE p = r
    <3>1. Members(p)' = {r}
      BY <1>4, <2>1, NoneAssumption DEF TypeOK, Founds, Members
    <3> QED BY <1>4, <2>1, <3>1 DEF TypeOK, Founds, Priced
  <2>2. CASE p # r
    BY <1>2, <1>4, <2>2, NoneAssumption DEF TypeOK, Founds, Members
  <2> QED BY <2>1, <2>2
<1>5. ASSUME NEW o \in Offers, NEW r \in Requests, NEW k \in Requests, Joins(o, r, k)
      PROVE  /\ fare'[p].version = pool'[p].version
             /\ fare'[p].riders = Members(p)'
             /\ (fare'[p].status = "CURRENT") <=> (pool'[p].status = "FORMING")
  <2>1. CASE p = k
    <3>1. Members(p)' = Members(p) \cup {r}
      BY <1>5, <2>1, NoneAssumption DEF TypeOK, Joins, Members
    <3>2. pool'[p].version = pool[p].version + 1 /\ pool'[p].status = "FORMING"
      BY <1>5, <2>1 DEF TypeOK, PoolSet, NoPool, Joins
    <3>3. fare'[p] = Priced(pool[p].version + 1, Members(p) \cup {r})
      BY <1>5, <2>1 DEF TypeOK, Joins, JoinFare
    <3> QED BY <3>1, <3>2, <3>3 DEF Priced
  <2>2. CASE p # k
    BY <1>2, <1>5, <2>2, NoneAssumption DEF TypeOK, Joins, Members
  <2> QED BY <2>1, <2>2
<1>6. ASSUME NEW k \in Requests, Depart(k), PoolMove(k, "DRIVER_EN_ROUTE")
      PROVE  /\ fare'[p].version = pool'[p].version
             /\ fare'[p].riders = Members(p)'
             /\ (fare'[p].status = "CURRENT") <=> (pool'[p].status = "FORMING")
  <2>1. /\ pool'[k].status = "DRIVER_EN_ROUTE" /\ \A q \in Requests : q # k => pool'[q] = pool[q]
        /\ pool'[p].version = pool[p].version /\ Members(p)' = Members(p)
    BY <1>6, PoolMoves DEF PoolStatus
  <2>2. fare' = [fare EXCEPT ![k].status = "FINALIZED"] /\ pool[k].status = "FORMING"
    BY <1>6 DEF Depart
  <2>3. CASE p = k
    BY <1>1, <2>1, <2>2, <2>3 DEF TypeOK, FareSet
  <2>4. CASE p # k
    BY <1>2, <2>1, <2>2, <2>4 DEF TypeOK
  <2> QED BY <2>3, <2>4
<1>7. ASSUME NEW k \in Requests, NEW s \in PoolStatus, PoolMove(k, s), pool[k].status # "FORMING",
             UNCHANGED fare
      PROVE  /\ fare'[p].version = pool'[p].version
             /\ fare'[p].riders = Members(p)'
             /\ (fare'[p].status = "CURRENT") <=> (pool'[p].status = "FORMING")
  <2>1. /\ pool'[k].status = s /\ \A q \in Requests : q # k => pool'[q] = pool[q]
        /\ pool'[p].version = pool[p].version /\ Members(p)' = Members(p)
        /\ s # "FORMING" /\ pool[k].status # "NONE"
    BY <1>7, PoolMoves DEF PoolMove, ActivePool
  <2> QED BY <1>1, <1>2, <1>7, <2>1
<1> QED BY <1>3, <1>4, <1>5, <1>6, <1>7, PlanSteps

(* What one step can do to one offer: nothing, make it, end it unaccepted, *)
(* or accept it with the seat it is for.                                   *)
LEMMA AnswerSteps ==
    ASSUME TypeOK, RideInv, [Next]_vars, NEW o \in Offers
    PROVE  \/ offer'[o] = offer[o]
           \/ offer[o].status = "FREE" /\ offer'[o].status = "PENDING"
           \/ Pending(o) /\ offer'[o].status \in TerminalOffer \ {"ACCEPTED"}
           \/ \E r \in Requests : Founds(o, r)
           \/ \E r, p \in Requests : Joins(o, r, p)
<1> DEFINE Plain == \/ offer'[o] = offer[o]
                    \/ offer[o].status = "FREE" /\ offer'[o].status = "PENDING"
                    \/ Pending(o) /\ offer'[o].status \in TerminalOffer \ {"ACCEPTED"}
<1>1. CASE UNCHANGED offer
  BY <1>1
<1>2. ASSUME NEW a \in Offers, NEW s \in TerminalOffer \ {"ACCEPTED"}, Pending(a), EndOffer(a, s) PROVE Plain
  BY <1>2, EndOfferEnds
<1>3. ASSUME NEW r \in Requests, Cancel(r) PROVE Plain
  BY <1>3 DEF TypeOK, Cancel, PendingOf, Pending, TerminalOffer, OfferSet, NoOffer
<1>4. ASSUME NEW p \in Requests, Depart(p) PROVE Plain
  BY <1>4 DEF TypeOK, Depart, CancelledByDeparture, PendingJoins, Pending, TerminalOffer, OfferSet, NoOffer
<1>5. ASSUME NEW w \in Workers, OfferJoin(w) PROVE Plain
  BY <1>5, NewOfferIsFree DEF TypeOK, OfferJoin
<1>6. ASSUME NEW w \in Workers, InsertOffer(w) PROVE Plain
  BY <1>6, NewOfferIsFree DEF TypeOK, InsertOffer
<1>7. ASSUME NEW a \in Offers, AcceptInitial(a) PROVE offer'[o] = offer[o] \/ \E r \in Requests : Founds(o, r)
  <2>1. CASE a = o
    BY <1>7, <2>1, InitialFounds
  <2>2. CASE a # o
    BY <1>7, <2>2 DEF TypeOK, AcceptInitial
  <2> QED BY <2>1, <2>2
<1>8. ASSUME NEW a \in Offers, AcceptJoin(a) PROVE Plain \/ \E r, p \in Requests : Joins(o, r, p)
  <2>1. CASE Lapses(a)
    BY <1>2, <2>1 DEF Lapses, TerminalOffer
  <2>2. CASE a = o
    BY <1>8, <2>1, <2>2, JoinJoins
  <2>3. ASSUME a # o, NEW r \in Requests, NEW p \in Requests, Joins(a, r, p) PROVE Plain
    BY <2>3, EndOfferEnds DEF Joins, TerminalOffer
  <2> QED BY <1>8, <2>1, <2>2, <2>3, JoinJoins
<1>9. ASSUME NEW a \in Offers, ExpireOffer(a) \/ RejectOffer(a) \/ AnswerLate(a) PROVE Plain
  BY <1>2, <1>9 DEF ExpireOffer, RejectOffer, AnswerLate, TerminalOffer
<1>10. ASSUME NEW r \in Requests,
              Create(r) \/ CloseWindow(r) \/ ExpireRequest(r) \/ PickUp(r) \/ DropOff(r)
       PROVE  UNCHANGED offer
  BY <1>10 DEF Create, CloseWindow, ExpireRequest, PickUp, DropOff
<1>11. ASSUME NEW w \in Workers,
              SearchDriver(w) \/ CheckDriver(w) \/ Crash(w) \/ \E r \in Requests : BeginAssign(w, r)
       PROVE  UNCHANGED offer
  BY <1>11 DEF SearchDriver, CheckDriver, Crash, BeginAssign
<1>12. ASSUME NEW p \in Requests, ArriveAtFirstPickup(p) \/ StartTrip(p) \/ CompleteTrip(p)
       PROVE  UNCHANGED offer
  BY <1>12 DEF ArriveAtFirstPickup, StartTrip, CompleteTrip
<1>13. ASSUME NEW d \in Drivers, GoOnline(d) \/ GoOffline(d) PROVE UNCHANGED offer
  BY <1>13 DEF GoOnline, GoOffline
<1>14. ASSUME NEW a \in Offers, LapseOffer(a) PROVE UNCHANGED offer
  BY <1>14 DEF LapseOffer
<1>15. CASE UNCHANGED vars
  BY <1>15 DEF vars
<1> QED
  BY <1>1, <1>3, <1>4, <1>5, <1>6, <1>7, <1>8, <1>9, <1>10, <1>11, <1>12, <1>13, <1>14, <1>15
  DEF Next, PassengerStep, SweepStep, ClockStep, AssignStep, RunStep, AvailabilityStep,
      AnswerStep, TripStep

LEMMA AcceptedOfferIsTheSeatStep ==
    ASSUME TypeOK, RideInv, PlanInv, [Next]_vars
    PROVE  AcceptedOfferIsTheSeat'
<1> SUFFICES ASSUME NEW r \in Requests
             PROVE  /\ (seat'[r] # None) <=> (AcceptedOf(r)' # {})
                    /\ \A o1, o2 \in AcceptedOf(r)' : o1 = o2
                    /\ \A o \in AcceptedOf(r)' : /\ offer'[o].pool = seat'[r]
                                                 /\ offer'[o].drv = pool'[seat'[r]].driver
  BY DEF AcceptedOfferIsTheSeat, AcceptedOf
<1>1. /\ (seat[r] # None) <=> (AcceptedOf(r) # {})
      /\ \A o1, o2 \in AcceptedOf(r) : o1 = o2
      /\ \A o \in AcceptedOf(r) : offer[o].pool = seat[r] /\ offer[o].drv = pool[seat[r]].driver
  BY DEF PlanInv, AcceptedOfferIsTheSeat
<1>2. ASSUME seat[r] # None PROVE seat[r] \in Requests /\ pool[seat[r]].status # "NONE"
  BY <1>2 DEF TypeOK, RideInv, RideAgrees, ActivePool
<1>3. ASSUME NEW o \in AcceptedOf(r) PROVE offer'[o] = offer[o] /\ o \in Offers
  BY <1>3, AnswerSteps DEF AcceptedOf, Pending, Founds, Joins
<1>4. ASSUME AcceptedOf(r)' = AcceptedOf(r), seat'[r] = seat[r],
             seat[r] # None => pool'[seat[r]].driver = pool[seat[r]].driver
      PROVE  /\ (seat'[r] # None) <=> (AcceptedOf(r)' # {})
             /\ \A o1, o2 \in AcceptedOf(r)' : o1 = o2
             /\ \A o \in AcceptedOf(r)' : /\ offer'[o].pool = seat'[r]
                                          /\ offer'[o].drv = pool'[seat'[r]].driver
  BY <1>1, <1>3, <1>4
<1>5. CASE UNCHANGED seat
  <2>1. AcceptedOf(r)' = AcceptedOf(r)
    <3>1. ASSUME NEW o \in Offers, offer'[o].status = "ACCEPTED" PROVE offer'[o] = offer[o]
      <4>1. ASSUME NEW q \in Requests PROVE ~Founds(o, q)
        BY <1>5, <4>1, NoneAssumption DEF TypeOK, Founds
      <4>2. ASSUME NEW q \in Requests, NEW p \in Requests PROVE ~Joins(o, q, p)
        BY <1>5, <4>2, NoneAssumption DEF TypeOK, Joins
      <4> QED BY <3>1, <4>1, <4>2, AnswerSteps
    <3> QED BY <1>3, <3>1 DEF AcceptedOf
  <2>2. \A p \in Requests : pool[p].status # "NONE" => pool'[p].driver = pool[p].driver
    <3>1. ASSUME NEW o \in Offers, NEW q \in Requests PROVE ~Founds(o, q)
      BY <1>5, <3>1, NoneAssumption DEF TypeOK, Founds
    <3>2. ASSUME NEW o \in Offers, NEW q \in Requests, NEW p \in Requests PROVE ~Joins(o, q, p)
      BY <1>5, <3>2, NoneAssumption DEF TypeOK, Joins
    <3> QED BY <3>1, <3>2, PlanSteps, PoolMoves DEF PoolStatus
  <2> QED BY <1>2, <1>4, <1>5, <2>1, <2>2
<1>6. ASSUME NEW a \in Offers, NEW q \in Requests, NEW p \in Requests,
             offer[a].status = "PENDING", offer[a].req = q, seat[q] = None,
             seat' = [seat EXCEPT ![q] = p],
             offer'[a].status = "ACCEPTED", offer'[a].req = q, offer'[a].pool = p,
             offer'[a].drv = pool'[p].driver,
             \A o \in Offers : o # a => offer'[o] = offer[o],
             \A k \in Requests : pool[k].status # "NONE" => pool'[k].driver = pool[k].driver
      PROVE  /\ (seat'[r] # None) <=> (AcceptedOf(r)' # {})
             /\ \A o1, o2 \in AcceptedOf(r)' : o1 = o2
             /\ \A o \in AcceptedOf(r)' : /\ offer'[o].pool = seat'[r]
                                          /\ offer'[o].drv = pool'[seat'[r]].driver
  <2>1. CASE q = r
    <3>1. AcceptedOf(r) = {}
      BY <1>1, <1>6, <2>1
    <3>2. AcceptedOf(r)' = {a}
      BY <1>6, <2>1, <3>1 DEF AcceptedOf
    <3>3. seat'[r] = p /\ p # None
      BY <1>6, <2>1, NoneAssumption DEF TypeOK
    <3> QED BY <1>6, <3>2, <3>3
  <2>2. CASE q # r
    <3>1. AcceptedOf(r)' = AcceptedOf(r)
      BY <1>6, <2>2 DEF AcceptedOf
    <3>2. seat'[r] = seat[r]
      BY <1>6, <2>2 DEF TypeOK
    <3> QED BY <1>2, <1>4, <1>6, <3>1, <3>2
  <2> QED BY <2>1, <2>2
<1>7. ASSUME NEW a \in Offers, NEW q \in Requests, Founds(a, q)
      PROVE  /\ (seat'[r] # None) <=> (AcceptedOf(r)' # {})
             /\ \A o1, o2 \in AcceptedOf(r)' : o1 = o2
             /\ \A o \in AcceptedOf(r)' : /\ offer'[o].pool = seat'[r]
                                          /\ offer'[o].drv = pool'[seat'[r]].driver
  <2>1. /\ offer'[a].status = "ACCEPTED" /\ offer'[a].req = q /\ offer'[a].pool = q
        /\ offer'[a].drv = offer[a].drv /\ \A o \in Offers : o # a => offer'[o] = offer[o]
    BY <1>7 DEF TypeOK, Founds, Pending, OfferSet, NoOffer
  <2>2. /\ pool'[q].driver = offer[a].drv
        /\ \A k \in Requests : pool[k].status # "NONE" => pool'[k].driver = pool[k].driver
    BY <1>7 DEF TypeOK, Founds
  <2> QED BY <1>6, <1>7, <2>1, <2>2 DEF Founds, Pending
<1>8. ASSUME NEW a \in Offers, NEW q \in Requests, NEW p \in Requests, Joins(a, q, p)
      PROVE  /\ (seat'[r] # None) <=> (AcceptedOf(r)' # {})
             /\ \A o1, o2 \in AcceptedOf(r)' : o1 = o2
             /\ \A o \in AcceptedOf(r)' : /\ offer'[o].pool = seat'[r]
                                          /\ offer'[o].drv = pool'[seat'[r]].driver
  <2>1. /\ offer'[a].status = "ACCEPTED" /\ offer'[a].req = q /\ offer'[a].pool = p
        /\ offer'[a].drv = offer[a].drv /\ \A o \in Offers : o # a => offer'[o] = offer[o]
    BY <1>8 DEF TypeOK, Joins, EndOffer, Pending, OfferSet, NoOffer
  <2>2. \A k \in Requests : pool'[k].driver = pool[k].driver
    BY <1>8 DEF TypeOK, Joins, PoolSet, NoPool
  <2> QED BY <1>6, <1>8, <2>1, <2>2 DEF Joins, Pending
<1>9. ASSUME NEW k \in Requests, NEW s \in PoolStatus, PoolMove(k, s) PROVE UNCHANGED seat
  BY <1>9 DEF PoolMove
<1> QED BY <1>5, <1>7, <1>8, <1>9, PlanSteps DEF PoolStatus

LEMMA PlanInvStep ==
    ASSUME TypeOK, OfferInv, RideInv, PlanInv, [Next]_vars
    PROVE  PlanInv'
BY PartyStep, JoinOffersAreCurrentStep, FareCoversPlanStep, AcceptedOfferIsTheSeatStep DEF PlanInv

LEMMA PlanInvInit == Init => PlanInv
<1> SUFFICES ASSUME Init PROVE PlanInv
  OBVIOUS
<1>1. \A p \in Requests : Members(p) = {}
  BY NoneAssumption DEF Init, Members
<1>2. NoOverbooking /\ \A p \in Requests : IsFiniteSet(Members(p))
  BY <1>1, FS_EmptySet, CapacityAssumption DEF NoOverbooking
<1>3. JoinOffersAreCurrent /\ FareCoversPlan /\ AcceptedOfferIsTheSeat
  BY DEF Init, JoinOffersAreCurrent, PendingJoins, Pending, FareCoversPlan, AcceptedOfferIsTheSeat,
         AcceptedOf, NoOffer, NoPool
<1> QED BY <1>2, <1>3 DEF PlanInv

(***************************************************************************)
(* The theorems.                                                           *)
(***************************************************************************)
(* What the offers, rides and plans of the server agree on holds in every
   reachable state: every safety theorem about Dispatch follows from it. *)
THEOREM InductiveHolds == Spec => []Inductive
<1>1. Init => Inductive
  BY TypeInit, OfferInvInit, RideInvInit, PlanInvInit DEF Inductive
<1>2. Inductive /\ [Next]_vars => Inductive'
  BY TypeStep, OfferInvStep, RideInvStep, PlanInvStep DEF Inductive
<1> QED BY <1>1, <1>2, PTL DEF Spec

-----------------------------------------------------------------------------
(***************************************************************************)
(* The safety theorems.                                                    *)
(***************************************************************************)
(* A driver's availability and the pools they drive tell one story.        *)
THEOREM DriverCommitmentHolds == Spec => []DriverCommitment
<1>1. Inductive => DriverCommitment
  BY DEF Inductive, RideInv
<1> QED BY <1>1, InductiveHolds, PTL

(* Request, seat and pool agree on where a passenger is.                   *)
THEOREM RideAgreesHolds == Spec => []RideAgrees
<1>1. Inductive => RideAgrees
  BY DEF Inductive, RideInv
<1> QED BY <1>1, InductiveHolds, PTL

(* A passenger never waits on two drivers.                                 *)
THEOREM SingleOfferHolds == Spec => []SingleOffer
<1>1. Inductive => SingleOffer
  BY DEF Inductive, OfferInv
<1> QED BY <1>1, InductiveHolds, PTL

(* An unanswered offer is for an unseated passenger.                       *)
THEOREM OffersSeekRidersHolds == Spec => []OffersSeekRiders
<1>1. Inductive => OffersSeekRiders
  BY DEF Inductive, OfferInv
<1> QED BY <1>1, InductiveHolds, PTL

(* A join offer that can be answered describes the pool's present plan.    *)
THEOREM JoinOffersAreCurrentHolds == Spec => []JoinOffersAreCurrent
<1>1. Inductive => JoinOffersAreCurrent
  BY DEF Inductive, PlanInv
<1> QED BY <1>1, InductiveHolds, PTL

(* The newest calculation prices the pool's present plan and passengers.   *)
THEOREM FareCoversPlanHolds == Spec => []FareCoversPlan
<1>1. Inductive => FareCoversPlan
  BY DEF Inductive, PlanInv
<1> QED BY <1>1, InductiveHolds, PTL

(* One accepted offer per seat, naming the pool and its driver.            *)
THEOREM AcceptedOfferIsTheSeatHolds == Spec => []AcceptedOfferIsTheSeat
<1>1. Inductive => AcceptedOfferIsTheSeat
  BY DEF Inductive, PlanInv
<1> QED BY <1>1, InductiveHolds, PTL

(* No pool takes more passengers than the vehicle has seats.               *)
THEOREM NoOverbookingHolds == Spec => []NoOverbooking
<1>1. Inductive => NoOverbooking
  BY DEF Inductive, PlanInv
<1> QED BY <1>1, InductiveHolds, PTL

(* The second answer to an offer never overwrites the first.               *)
THEOREM OfferFinalityHolds == Spec => OfferFinality
<1>1. Inductive /\ [Next]_vars
        => [\A o \in Offers : offer[o].status \in TerminalOffer => offer'[o] = offer[o]]_vars
  BY AnswerSteps DEF Inductive, Founds, Joins, Pending, TerminalOffer
<1> QED BY <1>1, InductiveHolds, PTL DEF Spec, OfferFinality

(***************************************************************************)
(* The refinement.                                                         *)
(***************************************************************************)
(* How the mapping moves when a request, a driver or a pool does, or stays. *)
LEMMA PhaseStays == ASSUME UNCHANGED request PROVE UNCHANGED Phase
BY DEF Phase

LEMMA DutyStays == ASSUME UNCHANGED driver PROVE UNCHANGED Duty
BY DEF Duty

LEMMA CarrierStays ==
    ASSUME TypeOK, UNCHANGED seat, \A p \in Requests : pool'[p].driver = pool[p].driver
    PROVE  UNCHANGED Carrier
BY DEF TypeOK, Carrier

LEMMA PhaseIs ==
    ASSUME NEW r \in Requests
    PROVE  /\ Phase[r] = PhaseName(request[r])
           /\ request[r] = "NONE" => Phase[r] = "new"
           /\ request[r] = "WAITING" => Phase[r] = "searching"
           /\ request[r] = "MATCHED" => Phase[r] = "matched"
           /\ request[r] = "IN_PROGRESS" => Phase[r] = "riding"
           /\ request[r] = "COMPLETED" => Phase[r] = "delivered"
           /\ request[r] \notin {"MATCHED", "IN_PROGRESS"} => Phase[r] \notin {"matched", "riding"}
BY DEF Phase, PhaseName

LEMMA DutyIs ==
    ASSUME NEW d \in Drivers
    PROVE  /\ driver[d] = "OFFLINE" => Duty[d] = "off"
           /\ driver[d] = "AVAILABLE" => Duty[d] = "free"
           /\ driver[d] = "RESERVED" => Duty[d] = "gathering"
           /\ driver[d] = "ON_RIDE" => Duty[d] = "driving"
BY DEF Duty, DutyName

(* The promise's load of a driver: nobody when they drive no active pool,  *)
(* else the undelivered members of the one they drive.                     *)
LEMMA LoadIs ==
    ASSUME TypeOK, RideInv, NEW d \in Drivers
    PROVE  Promise!Load(d) = {r \in Requests : seat[r] \in PoolsOf(d)
                                               /\ request[r] \in {"MATCHED", "IN_PROGRESS"}}
<1>1. ASSUME NEW r \in Requests
      PROVE  (Carrier[r] = d /\ Phase[r] \in {"matched", "riding"})
               <=> (seat[r] \in PoolsOf(d) /\ request[r] \in {"MATCHED", "IN_PROGRESS"})
  <2>1. Phase[r] \in {"matched", "riding"} <=> request[r] \in {"MATCHED", "IN_PROGRESS"}
    BY PhaseIs
  <2>2. ASSUME request[r] \in {"MATCHED", "IN_PROGRESS"}
        PROVE  seat[r] \in Requests /\ seat[r] # None /\ pool[seat[r]].status \in ActivePool
    BY <2>2 DEF TypeOK, RideInv, RideAgrees, ActivePool
  <2>3. ASSUME seat[r] # None PROVE Carrier[r] = pool[seat[r]].driver
    BY <2>3 DEF Carrier
  <2> QED BY <2>1, <2>2, <2>3 DEF PoolsOf
<1> QED BY <1>1 DEF Promise!Load

(* Steps of the offers, the workers and the clock: nothing to see.         *)
LEMMA StillIsStutter == ASSUME TypeOK, RideStill PROVE UNCHANGED Promise!promise
BY PhaseStays, DutyStays, CarrierStays DEF RideStill, Promise!promise

LEMMA PassengerKeeps ==
    ASSUME TypeOK, NEW r \in Requests, Create(r) \/ Cancel(r) \/ ExpireRequest(r)
    PROVE  Promise!Ask(r) \/ Promise!GiveUp(r)
<1>1. UNCHANGED <<Carrier, Duty>>
  BY CarrierStays, DutyStays DEF Create, Cancel, ExpireRequest
<1>2. CASE Create(r)
  <2>1. Phase[r] = "new" /\ Phase' = [Phase EXCEPT ![r] = "searching"]
    BY <1>2, PhaseIs DEF TypeOK, Phase, PhaseName, Create
  <2> QED BY <1>1, <2>1 DEF Promise!Ask
<1>3. CASE Cancel(r) \/ ExpireRequest(r)
  <2>1. Phase[r] = "searching" /\ Phase' = [Phase EXCEPT ![r] = "ended"]
    BY <1>3, PhaseIs DEF TypeOK, Phase, PhaseName, Cancel, ExpireRequest
  <2> QED BY <1>1, <2>1 DEF Promise!GiveUp
<1> QED BY <1>2, <1>3

LEMMA AvailabilityKeeps ==
    ASSUME TypeOK, NEW d \in Drivers, GoOnline(d) \/ GoOffline(d)
    PROVE  Promise!ComeOnline(d) \/ Promise!SignOff(d)
<1>1. UNCHANGED <<Phase, Carrier>>
  BY CarrierStays, PhaseStays DEF GoOnline, GoOffline
<1>2. CASE GoOnline(d)
  <2>1. Duty[d] = "off" /\ Duty' = [Duty EXCEPT ![d] = "free"]
    BY <1>2, DutyIs DEF TypeOK, Duty, DutyName, GoOnline
  <2> QED BY <1>1, <2>1 DEF Promise!ComeOnline
<1>3. CASE GoOffline(d)
  <2>1. Duty[d] = "free" /\ Duty' = [Duty EXCEPT ![d] = "off"]
    BY <1>3, DutyIs DEF TypeOK, Duty, DutyName, GoOffline
  <2> QED BY <1>1, <2>1 DEF Promise!SignOff
<1> QED BY <1>2, <1>3

(* An initial acceptance takes a first passenger: the driver was free, and *)
(* by DriverCommitment nobody was on board.                                *)
LEMMA AcceptInitialKeeps ==
    ASSUME TypeOK, RideInv, NEW o \in Offers, AcceptInitial(o)
    PROVE  \E r \in Requests, d \in Drivers : Promise!TakeFirst(r, d)
<1>1. PICK r \in Requests, d \in Drivers : r = offer[o].req /\ d = offer[o].drv
  BY PendingIsTyped DEF AcceptInitial
<1>2. Founds(o, r)
  BY <1>1, InitialFounds DEF Founds
<1>3. Phase[r] = "searching" /\ Phase' = [Phase EXCEPT ![r] = "matched"]
  BY <1>1, PhaseIs DEF TypeOK, Phase, PhaseName, AcceptInitial
<1>4. Duty[d] = "free" /\ Duty' = [Duty EXCEPT ![d] = "gathering"]
  BY <1>1, DutyIs DEF TypeOK, Duty, DutyName, AcceptInitial, DriverFree
<1>5. Promise!Load(d) = {}
  <2>1. PoolsOf(d) = {}
    BY <1>1 DEF AcceptInitial, DriverFree, RideInv, DriverCommitment, Committed
  <2> QED BY <2>1, LoadIs
<1>6. Carrier' = [Carrier EXCEPT ![r] = d]
  BY <1>1, <1>2, NoneAssumption DEF TypeOK, Carrier, Founds, Members
<1> QED BY <1>3, <1>4, <1>5, <1>6 DEF Promise!TakeFirst, Promise!Take

LEMMA GatheringLoad ==
    ASSUME TypeOK, RideInv, NEW p \in Requests, NEW d \in Drivers,
           pool[p].driver = d, pool[p].status = "FORMING"
    PROVE  Promise!Load(d) = Members(p)
<1>1. PoolsOf(d) = {p}
  BY OnePool DEF PoolsOf, ActivePool
<1>2. \A r \in Members(p) : request[r] = "MATCHED"
  BY NoneAssumption DEF Members, RideInv, RideAgrees, ActivePool
<1> QED BY <1>1, <1>2, LoadIs DEF Members

(* A join takes another passenger while seats are left.                    *)
LEMMA AcceptJoinKeeps ==
    ASSUME TypeOK, RideInv, NEW o \in Offers, AcceptJoin(o)
    PROVE  \/ UNCHANGED Promise!promise
           \/ \E r \in Requests, d \in Drivers : Promise!TakeAnother(r, d)
<1>1. CASE StaleJoin(o)
  <2>1. RideStill
    BY <1>1 DEF AcceptJoin, RideStill
  <2> QED BY <2>1, StillIsStutter
<1>2. CASE ~StaleJoin(o)
  <2>1. PICK r \in Requests, d \in Drivers, p \in Requests :
             r = offer[o].req /\ d = offer[o].drv /\ p = offer[o].pool
    BY PendingIsTyped DEF AcceptJoin
  <2>2. /\ request[r] = "WAITING" /\ request' = [request EXCEPT ![r] = "MATCHED"]
        /\ seat[r] = None /\ seat' = [seat EXCEPT ![r] = p] /\ HasRoom(p)
        /\ driver[d] = "RESERVED" /\ UNCHANGED driver
        /\ pool[p].driver = d /\ pool[p].status = "FORMING"
    BY <1>2, <2>1 DEF AcceptJoin
  <2>3. Phase[r] = "searching" /\ Phase' = [Phase EXCEPT ![r] = "matched"]
    BY <2>2, PhaseIs DEF TypeOK, Phase, PhaseName
  <2>4. Duty[d] = "gathering" /\ UNCHANGED Duty
    BY <2>2, DutyIs, DutyStays
  <2>5. Cardinality(Promise!Load(d)) < Capacity
    BY <2>2, GatheringLoad DEF HasRoom
  <2>6. Carrier' = [Carrier EXCEPT ![r] = d]
    BY <2>2, NoneAssumption, JoinKeepsPools DEF TypeOK, Carrier
  <2>7. \* the promise has an instance of FiniteSets of its own
        Promise!Cardinality(Promise!Load(d)) = Cardinality(Promise!Load(d))
    BY DEF Promise!Cardinality, Cardinality
  <2>8. Promise!Take(r, d)
    BY <2>3, <2>6 DEF Promise!Take
  <2>9. Promise!TakeAnother(r, d)
    BY <2>4, <2>5, <2>7, <2>8 DEF Promise!TakeAnother
  <2> QED BY <2>9
<1> QED BY <1>1, <1>2

(* The driver of an active pool is in it, and on the road once it departed. *)
LEMMA DriverOfPool ==
    ASSUME TypeOK, RideInv, NEW p \in Requests, pool[p].status \in ActivePool
    PROVE  \E d \in Drivers : /\ pool[p].driver = d /\ PoolsOf(d) = {p}
                              /\ driver[d] = IF pool[p].status = "FORMING" THEN "RESERVED" ELSE "ON_RIDE"
<1>1. PICK d \in Drivers : d = pool[p].driver
  BY ActivePoolHasDriver DEF ActivePool
<1>2. p \in PoolsOf(d)
  BY <1>1 DEF PoolsOf
<1>3. PoolsOf(d) = {p} /\ driver[d] \in {"RESERVED", "ON_RIDE"}
  BY <1>2, OnePool
<1>4. (driver[d] = "RESERVED") <=> (pool[p].status = "FORMING")
  BY <1>2 DEF RideInv, DriverCommitment, Committed
<1> QED BY <1>1, <1>3, <1>4

LEMMA DepartKeeps ==
    ASSUME TypeOK, RideInv, NEW p \in Requests, Depart(p)
    PROVE  \E d \in Drivers : Promise!SetOff(d)
<1>1. pool[p].status = "FORMING" /\ Members(p) # {} /\ SetPool(p, "DRIVER_EN_ROUTE")
      /\ driver' = [driver EXCEPT ![pool[p].driver] = "ON_RIDE"] /\ UNCHANGED <<request, seat>>
  BY DEF Depart
<1>2. PICK d \in Drivers : pool[p].driver = d /\ driver[d] = "RESERVED"
  BY <1>1, DriverOfPool DEF ActivePool
<1>3. Promise!Load(d) # {}
  BY <1>1, <1>2, GatheringLoad
<1>4. Duty[d] = "gathering" /\ Duty' = [Duty EXCEPT ![d] = "driving"]
  BY <1>1, <1>2, DutyIs DEF TypeOK, Duty, DutyName
<1>5. UNCHANGED <<Phase, Carrier>>
  BY <1>1, PhaseStays, CarrierStays, SetPoolMoves DEF PoolStatus
<1> QED BY <1>3, <1>4, <1>5 DEF Promise!SetOff

LEMMA ArriveKeeps ==
    ASSUME TypeOK, NEW p \in Requests, ArriveAtFirstPickup(p)
    PROVE  UNCHANGED Promise!promise
<1>1. SetPool(p, "ARRIVED") /\ pool[p].status # "NONE" /\ UNCHANGED <<request, seat, driver>>
  BY DEF ArriveAtFirstPickup
<1> QED BY <1>1, PhaseStays, DutyStays, CarrierStays, SetPoolMoves DEF PoolStatus, Promise!promise

(* Passengers of a pool under way who are matched may begin their ride.    *)
LEMMA RideKeeps ==
    ASSUME TypeOK, RideInv, NEW p \in Requests, pool[p].status \in ActivePool \ {"FORMING"},
           NEW riders \in SUBSET Members(p), riders # {}, \A r \in riders : request[r] = "MATCHED",
           \A r \in Requests : request'[r] = IF r \in riders THEN "IN_PROGRESS" ELSE request[r],
           UNCHANGED <<Carrier, Duty>>
    PROVE  \E d \in Drivers : Promise!Ride(d, riders)
<1>1. PICK d \in Drivers : pool[p].driver = d /\ PoolsOf(d) = {p} /\ driver[d] = "ON_RIDE"
  BY DriverOfPool DEF ActivePool
<1>2. Duty[d] = "driving"
  BY <1>1, DutyIs
<1>3. riders \subseteq {r \in Promise!Load(d) : Phase[r] = "matched"}
  BY <1>1, LoadIs, PhaseIs DEF Members
<1>4. Phase' = [r \in Requests |-> IF r \in riders THEN "riding" ELSE Phase[r]]
  BY DEF Phase, PhaseName
<1> QED BY <1>2, <1>3, <1>4 DEF Promise!Ride

LEMMA StartTripKeeps ==
    ASSUME TypeOK, RideInv, NEW p \in Requests, StartTrip(p)
    PROVE  \E riders \in SUBSET Requests, d \in Drivers : Promise!Ride(d, riders)
<1> DEFINE riders == {r \in Members(p) : rider[r] = "PICKED_UP"}
<1>1. /\ pool[p].status = "ARRIVED" /\ riders # {} /\ SetPool(p, "IN_PROGRESS")
      /\ UNCHANGED <<seat, driver>>
      /\ request' = [r \in Requests |-> IF r \in riders THEN "IN_PROGRESS" ELSE request[r]]
  BY DEF StartTrip
<1>2. \A r \in riders : request[r] = "MATCHED"
  BY <1>1, NoneAssumption DEF Members, RideInv, RideAgrees, ActivePool
<1>3. UNCHANGED <<Carrier, Duty>>
  BY <1>1, DutyStays, CarrierStays, SetPoolMoves DEF PoolStatus
<1>4. riders \in SUBSET Members(p) /\ riders \in SUBSET Requests
  BY DEF Members
<1>5. \A r \in Requests : request'[r] = IF r \in riders THEN "IN_PROGRESS" ELSE request[r]
  BY <1>1
<1>6. pool[p].status \in ActivePool \ {"FORMING"}
  BY <1>1 DEF ActivePool
<1> HIDE DEF riders
<1> QED BY <1>1, <1>2, <1>3, <1>4, <1>5, <1>6, RideKeeps

LEMMA PickUpKeeps ==
    ASSUME TypeOK, RideInv, NEW r \in Requests, PickUp(r)
    PROVE  \/ UNCHANGED Promise!promise
           \/ \E riders \in SUBSET Requests, d \in Drivers : Promise!Ride(d, riders)
<1>1. PICK p \in Requests : p = seat[r]
  BY DEF TypeOK, PickUp
<1>2. UNCHANGED <<Carrier, Duty>>
  BY DutyStays, CarrierStays DEF PickUp
<1>3. CASE pool[p].status # "IN_PROGRESS"
  BY <1>1, <1>2, <1>3, PhaseStays DEF PickUp, Promise!promise
<1>4. CASE pool[p].status = "IN_PROGRESS"
  <2>1. /\ {r} \in SUBSET Members(p) /\ {r} \in SUBSET Requests /\ {r} # {}
        /\ \A q \in {r} : request[q] = "MATCHED"
        /\ \A q \in Requests : request'[q] = IF q \in {r} THEN "IN_PROGRESS" ELSE request[q]
    BY <1>1, <1>4 DEF TypeOK, PickUp, Members
  <2>2. pool[p].status \in ActivePool \ {"FORMING"}
    BY <1>4 DEF ActivePool
  <2> QED BY <1>2, <2>1, <2>2, RideKeeps
<1> QED BY <1>3, <1>4

LEMMA DropOffKeeps ==
    ASSUME TypeOK, RideInv, NEW r \in Requests, DropOff(r)
    PROVE  Promise!Deliver(r)
<1>1. PICK p \in Requests : p = seat[r] /\ seat[r] # None /\ pool[p].status = "IN_PROGRESS"
  BY DEF TypeOK, DropOff
<1>2. PICK d \in Drivers : pool[p].driver = d /\ driver[d] = "ON_RIDE"
  BY <1>1, DriverOfPool DEF ActivePool
<1>3. Carrier[r] = d /\ Duty[d] = "driving"
  BY <1>1, <1>2, DutyIs DEF Carrier
<1>4. Phase[r] = "riding" /\ Phase' = [Phase EXCEPT ![r] = "delivered"]
  BY PhaseIs DEF DropOff, TypeOK, Phase, PhaseName
<1>5. UNCHANGED <<Carrier, Duty>>
  BY DutyStays, CarrierStays DEF DropOff
<1> QED BY <1>3, <1>4, <1>5 DEF Promise!Deliver

(* A trip ends with nobody aboard: its pool is the driver's only one, and  *)
(* each of its members was delivered.                                      *)
LEMMA CompleteTripKeeps ==
    ASSUME TypeOK, RideInv, NEW p \in Requests, CompleteTrip(p)
    PROVE  \E d \in Drivers : Promise!Finish(d)
<1>1. /\ pool[p].status = "IN_PROGRESS" /\ \A r \in Members(p) : request[r] = "COMPLETED"
      /\ SetPool(p, "COMPLETED") /\ driver' = [driver EXCEPT ![pool[p].driver] = "AVAILABLE"]
      /\ UNCHANGED <<request, seat>>
  BY DEF CompleteTrip
<1>2. PICK d \in Drivers : pool[p].driver = d /\ PoolsOf(d) = {p} /\ driver[d] = "ON_RIDE"
  BY <1>1, DriverOfPool DEF ActivePool
<1>3. Promise!Load(d) = {}
  BY <1>1, <1>2, LoadIs DEF Members
<1>4. Duty[d] = "driving" /\ Duty' = [Duty EXCEPT ![d] = "free"]
  BY <1>1, <1>2, DutyIs DEF TypeOK, Duty, DutyName
<1>5. UNCHANGED <<Phase, Carrier>>
  BY <1>1, PhaseStays, CarrierStays, SetPoolMoves DEF PoolStatus
<1> QED BY <1>3, <1>4, <1>5 DEF Promise!Finish

LEMMA PromiseStep ==
    ASSUME TypeOK, RideInv, [Next]_vars
    PROVE  [Promise!Next]_(Promise!promise)
BY RideSteps, StillIsStutter, PassengerKeeps, AvailabilityKeeps, AcceptInitialKeeps, AcceptJoinKeeps,
   DepartKeeps, ArriveKeeps, StartTripKeeps, PickUpKeeps, DropOffKeeps, CompleteTripKeeps
   DEF Promise!Next

LEMMA PromiseInit == Init => Promise!Init
BY DEF Init, Promise!Init, Phase, PhaseName, Carrier, Duty, DutyName

(* Every behaviour of the server is a behaviour of the promise.            *)
THEOREM PromiseIsKept == Spec => PromiseKept
<1>1. Inductive /\ [Next]_vars => [Promise!Next]_(Promise!promise)
  BY PromiseStep DEF Inductive
<1> QED BY <1>1, PromiseInit, InductiveHolds, PTL DEF Spec, PromiseKept, Promise!Spec

=============================================================================
