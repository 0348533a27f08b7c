-------------------------------- MODULE Trip --------------------------------
(***************************************************************************)
(* One pool and its stops, from the first acceptance to the end of the     *)
(* trip.  Dispatch leaves the order of the stops open; here a driver works *)
(* through a plan: a sequence of pickups and drop-offs that joins grow     *)
(* while the pool is forming and that the trip commands complete in order. *)
(*                                                                         *)
(* Every trip command locks the pool, so commands are serial; what is hard *)
(* is that a driver's client may send any of them, in any order, twice, or *)
(* long after it was offered.  A command is therefore decided in every     *)
(* state (Decision), and only one that APPLIES is a step: a REPEAT and a   *)
(* REFUSAL change nothing.                                                 *)
(*                                                                         *)
(* Abstracted: service points, times, and the offers through which a       *)
(* passenger joins (Dispatch shows that the plan an acceptance applies is  *)
(* always the newest one).                                                 *)
(***************************************************************************)
EXTENDS Naturals, SequencesExt, RideStatus

CONSTANTS
    Requests,   \* ride requests
    Driver,     \* the driver whose pool this is
    Seats,      \* ride_pools.capacity_snapshot
    None        \* the null of the database

ASSUME SeatsAssumption == Seats \in Nat \ {0}
ASSUME DriverAssumption == None # Driver

VARIABLES
    request,    \* ride_requests.status
    rider,      \* pool_members.status, "NONE" without a row
    driver,     \* driver_profiles.status
    pool,       \* ride_pools.status
    plan,       \* the pool's stops in the order of pool_stops.sequence
    stop,       \* pool_stops.status, "NONE" without a row
    fare        \* status of the pool's fare calculation

vars == <<request, rider, driver, pool, plan, stop, fare>>

Pickup(r) == [of |-> r, type |-> "PICKUP"]
Dropoff(r) == [of |-> r, type |-> "DROPOFF"]
Stops == [of : Requests, type : {"PICKUP", "DROPOFF"}]

UnderWay == {"DRIVER_EN_ROUTE", "ARRIVED", "IN_PROGRESS"}
Departed == UnderWay \cup {"COMPLETED"}

TypeOK ==
    /\ request \in [Requests -> RequestStatus]
    /\ rider \in [Requests -> RiderStatus]
    /\ driver \in Availability
    /\ pool \in PoolStatus
    /\ plan \in Seq(Stops)
    /\ stop \in [Stops -> {"NONE", "PENDING", "ARRIVED", "COMPLETED"}]
    /\ fare \in {"NONE", "CURRENT", "FINALIZED"}

Init ==
    /\ request = [r \in Requests |-> "NONE"]
    /\ rider = [r \in Requests |-> "NONE"]
    /\ driver = "OFFLINE"
    /\ pool = "NONE"
    /\ plan = <<>>
    /\ stop = [s \in Stops |-> "NONE"]
    /\ fare = "NONE"

(***************************************************************************)
(* Before the trip: passengers ask, the driver comes online, and           *)
(* acceptances found the pool and grow it.                                 *)
(***************************************************************************)
Members == {r \in Requests : rider[r] # "NONE"}
Aboard == {r \in Requests : rider[r] = "PICKED_UP"}

Create(r) ==
    /\ request[r] = "NONE"
    /\ request' = [request EXCEPT ![r] = "WAITING"]
    /\ UNCHANGED <<rider, driver, pool, plan, stop, fare>>

EndSearch(r) ==
    /\ request[r] = "WAITING"
    /\ \E end \in {"CANCELLED", "EXPIRED"} : request' = [request EXCEPT ![r] = end]
    /\ UNCHANGED <<rider, driver, pool, plan, stop, fare>>

GoOnline ==
    /\ driver = "OFFLINE"
    /\ driver' = "AVAILABLE"
    /\ UNCHANGED <<request, rider, pool, plan, stop, fare>>

GoOffline ==
    /\ driver = "AVAILABLE"
    /\ driver' = "OFFLINE"
    /\ UNCHANGED <<request, rider, pool, plan, stop, fare>>

(* The rows an acceptance writes for its passenger.                        *)
Admit(r) ==
    /\ request[r] = "WAITING"
    /\ request' = [request EXCEPT ![r] = "MATCHED"]
    /\ rider' = [rider EXCEPT ![r] = "ASSIGNED"]
    /\ stop' = [stop EXCEPT ![Pickup(r)] = "PENDING", ![Dropoff(r)] = "PENDING"]

FoundPool(r) ==
    /\ pool = "NONE" /\ driver = "AVAILABLE"
    /\ Admit(r)
    /\ pool' = "FORMING"
    /\ driver' = "RESERVED"
    /\ plan' = <<Pickup(r), Dropoff(r)>>
    /\ fare' = "CURRENT"

(* Every placement of a pickup and a later drop-off among the stops there  *)
(* are, which keep their order.                                            *)
Places(n) == {ij \in (1 .. n + 1) \X (1 .. n + 2) : ij[1] < ij[2]}
Insert(p, r, ij) == InsertAt(InsertAt(p, ij[1], Pickup(r)), ij[2], Dropoff(r))
MutantReversed(r) ==  \* mutant: the stops there are, taken from the end
    {Insert(Reverse(plan), r, ij) : ij \in Places(Len(plan))}
Insertions(r) == {Insert(plan, r, ij) : ij \in Places(Len(plan))}

(* simulateOccupancy: at no stop are more passengers aboard than seats.    *)
Fits(p) ==
    \A n \in 1 .. Len(p) :
        LET served(type) == Cardinality({i \in 1 .. n : p[i].type = type})
        IN  served("PICKUP") <= served("DROPOFF") + Seats

Join(r) ==
    /\ pool = "FORMING" /\ driver = "RESERVED"
    /\ Cardinality(Members) < Seats
    /\ \A s \in Range(plan) : stop[s] = "PENDING"
    /\ Admit(r)
    /\ plan' \in {p \in Insertions(r) : Fits(p)}
    /\ UNCHANGED <<driver, pool, fare>>

(***************************************************************************)
(* What the server decides about a command.                                *)
(***************************************************************************)
Commands == [op : {"DEPART", "START", "COMPLETE"}, stop : {None}]
            \cup [op : {"ARRIVE"}, stop : Stops]
            \cup [op : {"PICKUP"}, stop : {Pickup(r) : r \in Requests}]
            \cup [op : {"DROPOFF"}, stop : {Dropoff(r) : r \in Requests}]

(* nextActionableStop: the lowest stop that is not completed.              *)
MutantIsNext(s) == s \in Range(plan) /\ stop[s] # "COMPLETED"  \* mutant: any open stop
IsNext(s) ==
    \E i \in DOMAIN plan :
        /\ plan[i] = s /\ stop[s] # "COMPLETED"
        /\ \A j \in 1 .. i - 1 : stop[plan[j]] = "COMPLETED"

(* planIsProcessable: everybody has a pickup before their drop-off.        *)
Processable ==
    /\ Members # {}
    /\ \A r \in Members : \E i, j \in DOMAIN plan :
          i < j /\ plan[i] = Pickup(r) /\ plan[j] = Dropoff(r)

MutantRepeats(c) ==  \* mutant: a finished pool answers no retry
    \/ c.op = "DEPART" /\ pool \in UnderWay
    \/ c.op = "START" /\ pool = "IN_PROGRESS"
    \/ c.op = "ARRIVE" /\ pool # "COMPLETED" /\ stop[c.stop] \in {"ARRIVED", "COMPLETED"}
    \/ c.op = "PICKUP" /\ pool # "COMPLETED" /\ rider[c.stop.of] \in {"PICKED_UP", "DROPPED_OFF"}
    \/ c.op = "DROPOFF" /\ pool # "COMPLETED" /\ rider[c.stop.of] = "DROPPED_OFF"
Repeats(c) ==
    \/ c.op = "DEPART" /\ pool \in Departed
    \/ c.op = "START" /\ pool \in {"IN_PROGRESS", "COMPLETED"}
    \/ c.op = "COMPLETE" /\ pool = "COMPLETED"
    \/ c.op = "ARRIVE" /\ stop[c.stop] \in {"ARRIVED", "COMPLETED"}
    \/ /\ c.op = "PICKUP"
       /\ \/ rider[c.stop.of] \in {"PICKED_UP", "DROPPED_OFF"}
          \/ pool \in {"ARRIVED", "IN_PROGRESS"} /\ stop[c.stop] = "COMPLETED"
    \/ /\ c.op = "DROPOFF"
       /\ \/ rider[c.stop.of] = "DROPPED_OFF"
          \/ /\ pool = "IN_PROGRESS" /\ rider[c.stop.of] = "PICKED_UP"
             /\ stop[c.stop] = "COMPLETED"

DepartApplies ==
    /\ pool = "FORMING"
    /\ Processable
    /\ \A s \in Range(plan) : stop[s] = "PENDING"

ArriveApplies(s) == pool \in UnderWay /\ stop[s] = "PENDING" /\ IsNext(s)

PickUpApplies(s) ==
    /\ pool \in {"ARRIVED", "IN_PROGRESS"}
    /\ stop[s] = "ARRIVED" /\ IsNext(s)
    /\ rider[s.of] = "ASSIGNED" /\ request[s.of] = "MATCHED"

MutantStartApplies ==  \* mutant: everybody has to be aboard
    /\ pool = "ARRIVED" /\ Processable
    /\ Aboard = Members
    /\ fare = "FINALIZED"
StartApplies ==
    /\ pool = "ARRIVED" /\ Processable
    /\ Aboard # {}
    /\ \A r \in Members : ~(IsNext(Pickup(r)) /\ rider[r] = "ASSIGNED")
    /\ fare = "FINALIZED"

DropOffApplies(s) ==
    /\ pool = "IN_PROGRESS"
    /\ stop[s] = "ARRIVED" /\ IsNext(s)
    /\ rider[s.of] = "PICKED_UP" /\ request[s.of] = "IN_PROGRESS"

MutantCompleteApplies ==  \* mutant: an empty vehicle is enough
    pool = "IN_PROGRESS" /\ Aboard = {} /\ fare = "FINALIZED"
CompleteApplies ==
    /\ pool = "IN_PROGRESS"
    /\ plan # <<>> /\ \A s \in Range(plan) : stop[s] = "COMPLETED"
    /\ \A r \in Members : rider[r] = "DROPPED_OFF" /\ request[r] = "COMPLETED"
    /\ fare = "FINALIZED"

Applies(c) ==
    \/ c.op = "DEPART" /\ DepartApplies
    \/ c.op = "START" /\ StartApplies
    \/ c.op = "COMPLETE" /\ CompleteApplies
    \/ c.op = "ARRIVE" /\ ArriveApplies(c.stop)
    \/ c.op = "PICKUP" /\ PickUpApplies(c.stop)
    \/ c.op = "DROPOFF" /\ DropOffApplies(c.stop)

Decision(c) ==
    IF Repeats(c) THEN "REPEAT" ELSE IF Applies(c) THEN "APPLY" ELSE "REFUSE"

Whole(op) == [op |-> op, stop |-> None]
At(op, s) == [op |-> op, stop |-> s]

(***************************************************************************)
(* The commands that apply.                                                *)
(***************************************************************************)
MutantDepart ==  \* mutant: the driver is not moved with the pool
    /\ Decision(Whole("DEPART")) = "APPLY"
    /\ driver = "RESERVED" /\ fare # "NONE"
    /\ pool' = "DRIVER_EN_ROUTE"
    /\ fare' = "FINALIZED"
    /\ UNCHANGED <<request, rider, driver, plan, stop>>
Depart ==
    /\ Decision(Whole("DEPART")) = "APPLY"
    /\ driver = "RESERVED" /\ fare # "NONE"
    /\ pool' = "DRIVER_EN_ROUTE"
    /\ driver' = "ON_RIDE"
    /\ fare' = "FINALIZED"
    /\ UNCHANGED <<request, rider, plan, stop>>

(* Only the first pickup moves the pool.                                   *)
IsFirstPickup(s) ==
    \E i \in DOMAIN plan : /\ plan[i] = s /\ s.type = "PICKUP"
                           /\ \A j \in 1 .. i - 1 : plan[j].type # "PICKUP"

ArriveAtStop(s) ==
    /\ Decision(At("ARRIVE", s)) = "APPLY"
    /\ stop' = [stop EXCEPT ![s] = "ARRIVED"]
    /\ pool' = IF pool = "DRIVER_EN_ROUTE" /\ IsFirstPickup(s) THEN "ARRIVED" ELSE pool
    /\ UNCHANGED <<request, rider, driver, plan, fare>>

PickUpMember(r) ==
    /\ Decision(At("PICKUP", Pickup(r))) = "APPLY"
    /\ rider' = [rider EXCEPT ![r] = "PICKED_UP"]
    /\ stop' = [stop EXCEPT ![Pickup(r)] = "COMPLETED"]
    /\ request' = IF pool = "IN_PROGRESS"
                  THEN [request EXCEPT ![r] = "IN_PROGRESS"] ELSE request
    /\ UNCHANGED <<driver, pool, plan, fare>>

StartTrip ==
    /\ Decision(Whole("START")) = "APPLY"
    /\ driver = "ON_RIDE"
    /\ pool' = "IN_PROGRESS"
    /\ request' = [r \in Requests |-> IF r \in Aboard THEN "IN_PROGRESS" ELSE request[r]]
    /\ UNCHANGED <<rider, driver, plan, stop, fare>>

DropOffMember(r) ==
    /\ Decision(At("DROPOFF", Dropoff(r))) = "APPLY"
    /\ rider' = [rider EXCEPT ![r] = "DROPPED_OFF"]
    /\ stop' = [stop EXCEPT ![Dropoff(r)] = "COMPLETED"]
    /\ request' = [request EXCEPT ![r] = "COMPLETED"]
    /\ UNCHANGED <<driver, pool, plan, fare>>

CompleteTrip ==
    /\ Decision(Whole("COMPLETE")) = "APPLY"
    /\ driver = "ON_RIDE"
    /\ pool' = "COMPLETED"
    /\ driver' = "AVAILABLE"
    /\ UNCHANGED <<request, rider, plan, stop, fare>>

Forming == \/ GoOnline \/ GoOffline
           \/ \E r \in Requests : Create(r) \/ EndSearch(r) \/ FoundPool(r) \/ Join(r)
Driving == \/ Depart \/ StartTrip \/ CompleteTrip
           \/ \E s \in Stops : ArriveAtStop(s)
           \/ \E r \in Requests : PickUpMember(r) \/ DropOffMember(r)

Next == Forming \/ Driving

Spec == Init /\ [][Next]_vars

(***************************************************************************)
(* Safety.                                                                 *)
(***************************************************************************)
(* The plan is always one a driver can drive: each passenger's two stops   *)
(* stand in it once, pickup first, and nobody else's; whatever insertions  *)
(* made it.  So no departure is ever refused for its plan.                 *)
PlanIsDrivable ==
    /\ pool # "NONE" => Processable
    /\ Range(plan) = {Pickup(r) : r \in Members} \cup {Dropoff(r) : r \in Members}
    /\ \A i, j \in DOMAIN plan : plan[i] = plan[j] => i = j

ServedInOrder ==
    \A i, j \in DOMAIN plan :
        i < j /\ stop[plan[j]] # "PENDING" => stop[plan[i]] = "COMPLETED"

RowsAgree(r) ==
    /\ (rider[r] = "ASSIGNED") <=> (stop[Pickup(r)] # "COMPLETED")
    /\ (rider[r] = "DROPPED_OFF") <=> (stop[Dropoff(r)] = "COMPLETED")
    /\ (request[r] = "IN_PROGRESS") <=> (rider[r] = "PICKED_UP" /\ pool = "IN_PROGRESS")
    /\ (request[r] = "COMPLETED") <=> (rider[r] = "DROPPED_OFF")

(* The stops of a drivable plan are served in order, and passengers,       *)
(* stops, requests and the pool agree about how far the trip is.           *)
RidersFollowThePlan ==
    /\ PlanIsDrivable
    /\ ServedInOrder
    /\ \A r \in Members : RowsAgree(r)

(* Where a passenger is, by every account.                                 *)
RideStage(r) ==
    \/ rider[r] = "NONE" /\ request[r] \in {"NONE", "WAITING", "CANCELLED", "EXPIRED"}
    \/ rider[r] = "ASSIGNED" /\ request[r] = "MATCHED" /\ pool \in ActivePool
    \/ rider[r] = "PICKED_UP" /\ request[r] = "MATCHED" /\ pool = "ARRIVED"
    \/ rider[r] = "PICKED_UP" /\ request[r] = "IN_PROGRESS" /\ pool = "IN_PROGRESS"
    \/ rider[r] = "DROPPED_OFF" /\ request[r] = "COMPLETED"
         /\ pool \in {"IN_PROGRESS", "COMPLETED"}

(* What the commands may rely on, whatever the plan: inductive.            *)
Stages ==
    /\ pool \in {"NONE", "COMPLETED"} => driver \in {"OFFLINE", "AVAILABLE"}
    /\ pool = "NONE" => Members = {}
    /\ pool = "FORMING" => driver = "RESERVED" /\ fare = "CURRENT"
    /\ pool \in UnderWay => driver = "ON_RIDE" /\ fare = "FINALIZED"
    /\ \A r \in Requests : RideStage(r)

(* What a step may rely on: with the stages, the plan and who follows it,  *)
(* that exactly the stops of the plan have a row, and that no stop is      *)
(* touched before the driver reaches the first pickup.                     *)
Inductive ==
    /\ TypeOK
    /\ Stages
    /\ RidersFollowThePlan
    /\ \A s \in Stops : (stop[s] = "NONE") <=> (s \notin Range(plan))
    /\ pool \in {"NONE", "FORMING", "DRIVER_EN_ROUTE"} =>
          \A s \in Range(plan) : stop[s] = "PENDING"

(* What the transaction of a command asks for beyond its decision: the     *)
(* driver's status, a fare to freeze, rides that may make their move.      *)
Served(c) ==
    /\ c.op = "DEPART" => driver = "RESERVED" /\ fare # "NONE"
    /\ c.op \in {"START", "COMPLETE"} => driver = "ON_RIDE"
    /\ c.op = "START" => \A r \in Aboard : request[r] \in {"MATCHED", "IN_PROGRESS"}

(* A button the driver is shown answers: a command whose decision is APPLY *)
(* is never refused by what its transaction checks afterwards.             *)
ButtonsWork == \A c \in Commands : Decision(c) = "APPLY" => Served(c)

(* No pool is stuck: until the trip is completed there is always a command *)
(* that applies, with whatever joins, pickups and starts came before.      *)
TripCanGoOn ==
    pool \notin {"NONE", "COMPLETED"} => \E c \in Commands : Decision(c) = "APPLY"

(* Once a command could be given it can be given for ever: sent late, or   *)
(* again after it succeeded, also when the trip is over, it is never       *)
(* refused.                                                                *)
RetriesSucceed ==
    [][\A c \in Commands : Decision(c) # "REFUSE" => Decision(c)' # "REFUSE"]_vars

Before(p, a, b) == \E i, j \in DOMAIN p : i < j /\ p[i] = a /\ p[j] = b

(* A promised order is kept: a join places two new stops and moves no      *)
(* other past another, and from the departure on the plan stays.           *)
OrderIsKept ==
    [][/\ \A a, b \in Range(plan) : Before(plan, a, b) => Before(plan', a, b)
       /\ pool \in Departed => plan' = plan]_vars

Phase == [r \in Requests |-> PhaseName(request[r])]
Carrier == [r \in Requests |-> IF rider[r] = "NONE" THEN None ELSE Driver]
Duty == [d \in {Driver} |-> DutyName(driver)]

Promise == INSTANCE RidePromise WITH
              Drivers <- {Driver}, Capacity <- Seats,
              phase <- Phase, carrier <- Carrier, duty <- Duty

(* The trip, stop by stop, keeps what the service promises of one driver:  *)
(* they are free again only when everybody they took was delivered.        *)
PromiseKept == Promise!Spec

=============================================================================
