----------------------------- MODULE TripProofs -----------------------------
(***************************************************************************)
(* Theorems about Trip, for every set of requests and every vehicle.       *)
(***************************************************************************)
EXTENDS Trip, SequenceTheorems, WellFoundedInduction, TLAPS

(***************************************************************************)
(* Plans that joins make, and types.                                       *)
(***************************************************************************)
(* The three parts of a sequence with one entry more.                      *)
LEMMA InsertAtElements ==
  ASSUME NEW S, NEW s \in Seq(S), NEW e \in S, NEW i \in 1 .. Len(s) + 1
  PROVE  /\ InsertAt(s, i, e) \in Seq(S)
         /\ Len(InsertAt(s, i, e)) = Len(s) + 1
         /\ \A j \in 1 .. Len(s) + 1 :
              InsertAt(s, i, e)[j] = IF j < i THEN s[j] ELSE IF j = i THEN e ELSE s[j - 1]
<1> DEFINE front == SubSeq(s, 1, i - 1)
           back == SubSeq(s, i, Len(s))
           start == front \o <<e>>
<1>1. Len(s) \in Nat /\ \A j \in 1 .. Len(s) : s[j] \in S
  BY ElementOfSeq
<1>2. /\ front \in Seq(S) /\ Len(front) = i - 1
      /\ \A j \in 1 .. i - 1 : front[j] = s[j]
  <2>1. \A j \in 1 .. i - 1 : s[j] \in S
    BY <1>1
  <2>2. /\ front \in Seq(S)
        /\ Len(front) = IF 1 <= i - 1 THEN i - 1 - 1 + 1 ELSE 0
        /\ \A j \in 1 .. i - 1 - 1 + 1 : front[j] = s[1 + j - 1]
    BY <1>1, <2>1, SubSeqProperties
  <2> QED BY <1>1, <2>2
<1>3. /\ back \in Seq(S) /\ Len(back) = Len(s) + 1 - i
      /\ \A j \in 1 .. Len(s) + 1 - i : back[j] = s[i + j - 1]
  <2>1. \A j \in i .. Len(s) : s[j] \in S
    BY <1>1
  <2>2. /\ back \in Seq(S)
        /\ Len(back) = IF i <= Len(s) THEN Len(s) - i + 1 ELSE 0
        /\ \A j \in 1 .. Len(s) - i + 1 : back[j] = s[i + j - 1]
    BY <1>1, <2>1, SubSeqProperties
  <2> QED BY <1>1, <2>2
<1>4. <<e>> \in Seq(S) /\ Len(<<e>>) = 1 /\ <<e>>[1] = e
  OBVIOUS
<1> HIDE DEF front, back
<1>5. /\ start \in Seq(S) /\ Len(start) = i
      /\ \A j \in 1 .. i : start[j] = IF j < i THEN s[j] ELSE e
  <2>1. /\ start \in Seq(S) /\ Len(start) = i - 1 + 1
        /\ \A j \in 1 .. i - 1 + 1 : start[j] = IF j <= i - 1 THEN front[j] ELSE <<e>>[j - (i - 1)]
    BY <1>1, <1>2, <1>4, ConcatProperties
  <2> QED BY <1>1, <1>2, <1>4, <2>1
<1> HIDE DEF start
<1>6. /\ start \o back \in Seq(S)
      /\ Len(start \o back) = i + (Len(s) + 1 - i)
      /\ \A j \in 1 .. i + (Len(s) + 1 - i) :
           (start \o back)[j] = IF j <= i THEN start[j] ELSE back[j - i]
  <2>1. /\ start \o back \in Seq(S)
        /\ Len(start \o back) = Len(start) + Len(back)
        /\ \A j \in 1 .. Len(start) + Len(back) :
             (start \o back)[j] = IF j <= Len(start) THEN start[j] ELSE back[j - Len(start)]
    BY <1>3, <1>5, ConcatProperties
  <2> QED BY <1>3, <1>5, <2>1
<1>7. Len(start \o back) = Len(s) + 1
  BY <1>1, <1>6
<1>8. ASSUME NEW j \in 1 .. Len(s) + 1
      PROVE  (start \o back)[j] = IF j < i THEN s[j] ELSE IF j = i THEN e ELSE s[j - 1]
  <2>1. /\ j \in 1 .. i + (Len(s) + 1 - i)
        /\ (start \o back)[j] = IF j <= i THEN start[j] ELSE back[j - i]
    BY <1>1, <1>6
  <2>2. CASE j <= i
    <3>1. start[j] = IF j < i THEN s[j] ELSE e
      BY <1>1, <1>5, <2>2
    <3> QED BY <1>1, <2>1, <2>2, <3>1
  <2>3. CASE j > i
    <3>1. j - i \in 1 .. Len(s) + 1 - i /\ i + (j - i) - 1 = j - 1
      BY <1>1, <2>3
    <3>2. back[j - i] = s[j - 1]
      BY <1>3, <3>1
    <3> QED BY <1>1, <2>1, <2>3, <3>2
  <2>4. j <= i \/ j > i
    BY <1>1
  <2> QED BY <2>2, <2>3, <2>4
<1> QED BY <1>6, <1>7, <1>8 DEF InsertAt, front, back, start

(* Where the k-th stop of a plan stands after something was put at place i. *)
Moved(i, k) == IF k < i THEN k ELSE k + 1
Shifted(ij, k) == Moved(ij[2], Moved(ij[1], k))

(* A join puts its two stops into the plan and keeps the others' order.   *)
LEMMA InsertShape ==
  ASSUME NEW p \in Seq(Stops), NEW r \in Requests, NEW ij \in Places(Len(p))
  PROVE  LET q == Insert(p, r, ij) n == Len(p)
         IN  /\ q \in Seq(Stops) /\ Len(q) = n + 2
             /\ ij[1] \in 1 .. n + 2 /\ ij[2] \in 1 .. n + 2 /\ ij[1] < ij[2]
             /\ q[ij[1]] = Pickup(r) /\ q[ij[2]] = Dropoff(r)
             /\ \A k \in 1 .. n :
                  Shifted(ij, k) \in (1 .. n + 2) \ {ij[1], ij[2]} /\ q[Shifted(ij, k)] = p[k]
             /\ \A k, l \in 1 .. n : k < l => Shifted(ij, k) < Shifted(ij, l)
             /\ \A j \in 1 .. n + 2 :
                  j = ij[1] \/ j = ij[2] \/ \E k \in 1 .. n : j = Shifted(ij, k)
<1> DEFINE n == Len(p)
           a == ij[1]
           b == ij[2]
           m == InsertAt(p, a, Pickup(r))
           q == InsertAt(m, b, Dropoff(r))
<1>1. n \in Nat /\ a \in 1 .. n + 1 /\ b \in 1 .. n + 2 /\ a < b
  BY DEF Places
<1>2. Pickup(r) \in Stops /\ Dropoff(r) \in Stops
  BY DEF Pickup, Dropoff, Stops
<1> HIDE DEF a, b
<1>3. /\ m \in Seq(Stops) /\ Len(m) = n + 1
      /\ \A j \in 1 .. n + 1 : m[j] = IF j < a THEN p[j] ELSE IF j = a THEN Pickup(r) ELSE p[j - 1]
  BY <1>1, <1>2, InsertAtElements
<1> HIDE DEF m
<1>4. /\ q \in Seq(Stops) /\ Len(q) = n + 2
      /\ \A j \in 1 .. n + 2 : q[j] = IF j < b THEN m[j] ELSE IF j = b THEN Dropoff(r) ELSE m[j - 1]
  <2>1. m \in Seq(Stops) /\ Dropoff(r) \in Stops /\ b \in 1 .. Len(m) + 1
    BY <1>1, <1>2, <1>3
  <2>2. /\ q \in Seq(Stops) /\ Len(q) = Len(m) + 1
        /\ \A j \in 1 .. Len(m) + 1 : q[j] = IF j < b THEN m[j] ELSE IF j = b THEN Dropoff(r) ELSE m[j - 1]
    BY <2>1, InsertAtElements
  <2> QED BY <1>1, <1>3, <2>2
<1> HIDE DEF n, q
<1>5. q[a] = Pickup(r) /\ q[b] = Dropoff(r) /\ a \in 1 .. n + 2
  <2>1. a \in 1 .. n + 2
    BY <1>1
  <2>2. m[a] = Pickup(r)
    BY <1>1, <1>3
  <2>3. q[a] = m[a]
    BY <1>1, <1>4, <2>1
  <2>4. q[b] = Dropoff(r)
    BY <1>1, <1>4
  <2> QED BY <2>1, <2>2, <2>3, <2>4
<1>6. ASSUME NEW k \in 1 .. n
      PROVE  Shifted(ij, k) \in (1 .. n + 2) \ {a, b} /\ q[Shifted(ij, k)] = p[k]
  <2> DEFINE u == Moved(a, k)
             v == Moved(b, u)
  <2>1. u \in 1 .. n + 1 /\ u # a /\ m[u] = p[k]
    BY <1>1, <1>3 DEF Moved
  <2> HIDE DEF u
  <2>2. v \in 1 .. n + 2 /\ v # b /\ q[v] = m[u]
    BY <1>1, <1>4, <2>1 DEF Moved
  <2>3. v # a
    BY <1>1, <2>1 DEF Moved
  <2> QED BY <2>1, <2>2, <2>3 DEF Shifted, u, v, a, b
<1>7. \A k, l \in 1 .. n : k < l => Shifted(ij, k) < Shifted(ij, l)
  BY <1>1 DEF Shifted, Moved, a, b
<1>8. ASSUME NEW j \in 1 .. n + 2, j # a, j # b PROVE \E k \in 1 .. n : j = Shifted(ij, k)
  <2>1. CASE j < a
    <3>1. j \in 1 .. n /\ j = Shifted(ij, j)
      BY <1>1, <2>1 DEF Shifted, Moved, a, b
    <3> QED BY <3>1
  <2>2. CASE a < j /\ j < b
    <3>1. j - 1 \in 1 .. n /\ j = Shifted(ij, j - 1)
      BY <1>1, <2>2 DEF Shifted, Moved, a, b
    <3> QED BY <3>1
  <2>3. CASE b < j
    <3>1. j - 2 \in 1 .. n /\ j = Shifted(ij, j - 2)
      BY <1>1, <2>3 DEF Shifted, Moved, a, b
    <3> QED BY <3>1
  <2> QED BY <1>1, <1>8, <2>1, <2>2, <2>3
<1> QED BY <1>1, <1>4, <1>5, <1>6, <1>7, <1>8 DEF Insert, n, a, b, m, q

LEMMA TypeInit == Init => TypeOK
  BY DEF Init, TypeOK, RequestStatus, RiderStatus, Availability, PoolStatus

LEMMA TypeStep == TypeOK /\ [Next]_vars => TypeOK'
<1> SUFFICES ASSUME TypeOK, [Next]_vars PROVE TypeOK'
  OBVIOUS
<1> USE DEF TypeOK, RequestStatus, RiderStatus, Availability, PoolStatus
<1>1. CASE GoOnline \/ GoOffline
  BY <1>1 DEF GoOnline, GoOffline
<1>2. ASSUME NEW r \in Requests, Create(r) \/ EndSearch(r) PROVE TypeOK'
  BY <1>2 DEF Create, EndSearch
<1>3. ASSUME NEW r \in Requests, FoundPool(r) PROVE TypeOK'
  <2>1. Pickup(r) \in Stops /\ Dropoff(r) \in Stops
    BY DEF Pickup, Dropoff, Stops
  <2> QED BY <1>3, <2>1 DEF FoundPool, Admit
<1>4. ASSUME NEW r \in Requests, Join(r) PROVE TypeOK'
  <2>1. plan' \in Seq(Stops)
    BY <1>4, InsertShape DEF Join, Insertions
  <2> QED BY <1>4, <2>1 DEF Join, Admit
<1>5. CASE Depart \/ StartTrip \/ CompleteTrip
  BY <1>5 DEF Depart, StartTrip, CompleteTrip
<1>6. ASSUME NEW s \in Stops, ArriveAtStop(s) PROVE TypeOK'
  BY <1>6 DEF ArriveAtStop
<1>7. ASSUME NEW r \in Requests, PickUpMember(r) PROVE TypeOK'
  BY <1>7 DEF PickUpMember
<1>8. ASSUME NEW r \in Requests, DropOffMember(r) PROVE TypeOK'
  BY <1>8 DEF DropOffMember
<1>9. CASE UNCHANGED vars
  BY <1>9 DEF vars
<1> QED BY <1>1, <1>2, <1>3, <1>4, <1>5, <1>6, <1>7, <1>8, <1>9 DEF Next, Forming, Driving

(* Every reachable state of a trip is made of the statuses of the schema   *)
(* and of a plan whose entries are stops.                                  *)
THEOREM TypeCorrect == Spec => []TypeOK
<1> QED BY TypeInit, TypeStep, PTL DEF Spec

(***************************************************************************)
(* What a command that applies has found.                                  *)
(***************************************************************************)
LEMMA DepartFound == Decision(Whole("DEPART")) = "APPLY" => DepartApplies
  BY DEF Decision, Applies, Whole
LEMMA StartFound == Decision(Whole("START")) = "APPLY" => StartApplies
  BY DEF Decision, Applies, Whole
LEMMA CompleteFound == Decision(Whole("COMPLETE")) = "APPLY" => CompleteApplies
  BY DEF Decision, Applies, Whole
LEMMA ArriveFound ==
  ASSUME NEW s, Decision(At("ARRIVE", s)) = "APPLY" PROVE ArriveApplies(s)
  BY DEF Decision, Applies, At
LEMMA PickUpFound ==
  ASSUME NEW s, Decision(At("PICKUP", s)) = "APPLY" PROVE PickUpApplies(s)
  BY DEF Decision, Applies, At
LEMMA DropOffFound ==
  ASSUME NEW s, Decision(At("DROPOFF", s)) = "APPLY" PROVE DropOffApplies(s)
  BY DEF Decision, Applies, At

(***************************************************************************)
(* The stages of a trip.                                                   *)
(***************************************************************************)
LEMMA StagesInit == Init => Stages
  BY DEF Init, Stages, RideStage, Members, UnderWay

LEMMA StagesStep == TypeOK /\ Stages /\ [Next]_vars => Stages'
<1> SUFFICES ASSUME TypeOK, Stages, [Next]_vars PROVE Stages'
  OBVIOUS
<1> USE DEF TypeOK, Stages, RideStage, Members, UnderWay, ActivePool
<1>1. CASE GoOnline \/ GoOffline
  BY <1>1 DEF GoOnline, GoOffline
<1>2. ASSUME NEW r \in Requests, Create(r) \/ EndSearch(r) PROVE Stages'
  BY <1>2 DEF Create, EndSearch
<1>3. ASSUME NEW r \in Requests, FoundPool(r) PROVE Stages'
  BY <1>3 DEF FoundPool, Admit
<1>4. ASSUME NEW r \in Requests, Join(r) PROVE Stages'
  BY <1>4 DEF Join, Admit
<1>5. CASE Depart
  BY <1>5, DepartFound DEF Depart, DepartApplies
<1>6. CASE StartTrip
  BY <1>6, StartFound DEF StartTrip, StartApplies, Aboard
<1>7. CASE CompleteTrip
  BY <1>7, CompleteFound DEF CompleteTrip, CompleteApplies
<1>8. ASSUME NEW s \in Stops, ArriveAtStop(s) PROVE Stages'
  BY <1>8, ArriveFound DEF ArriveAtStop, ArriveApplies
<1>9. ASSUME NEW r \in Requests, PickUpMember(r) PROVE Stages'
  BY <1>9, PickUpFound DEF PickUpMember, PickUpApplies, Pickup
<1>10. ASSUME NEW r \in Requests, DropOffMember(r) PROVE Stages'
  BY <1>10, DropOffFound DEF DropOffMember, DropOffApplies, Dropoff
<1>11. CASE UNCHANGED vars
  BY <1>11 DEF vars
<1> QED BY <1>1, <1>2, <1>3, <1>4, <1>5, <1>6, <1>7, <1>8, <1>9, <1>10, <1>11
        DEF Next, Forming, Driving

LEMMA StagesHold == Spec => [](TypeOK /\ Stages)
<1>1. Init => TypeOK /\ Stages
  BY TypeInit, StagesInit
<1>2. TypeOK /\ Stages /\ [Next]_vars => (TypeOK /\ Stages)'
  BY TypeStep, StagesStep
<1> QED BY <1>1, <1>2, PTL DEF Spec

(* A command the driver is offered is never refused by the checks its      *)
(* transaction makes after the decision.                                   *)
THEOREM ButtonsWorkHolds == Spec => []ButtonsWork
<1>1. ASSUME TypeOK, Stages, NEW c \in Commands, Decision(c) = "APPLY" PROVE Served(c)
  <2>1. CASE c.op = "DEPART"
    BY <1>1, <2>1 DEF Decision, Applies, DepartApplies, Served, Stages
  <2>2. CASE c.op = "START"
    BY <1>1, <2>2 DEF Decision, Applies, StartApplies, Served, Stages, RideStage, UnderWay, Aboard
  <2>3. CASE c.op = "COMPLETE"
    BY <1>1, <2>3 DEF Decision, Applies, CompleteApplies, Served, Stages, UnderWay
  <2>4. CASE c.op \notin {"DEPART", "START", "COMPLETE"}
    BY <2>4 DEF Served
  <2> QED BY <2>1, <2>2, <2>3, <2>4
<1>2. TypeOK /\ Stages => ButtonsWork
  BY <1>1 DEF ButtonsWork
<1> QED BY <1>2, StagesHold, PTL

(***************************************************************************)
(* The trip implements the promise.                                        *)
(***************************************************************************)
(* The passengers the promise says the driver has: the members whose ride  *)
(* is not over.                                                            *)
LEMMA LoadIs ==
  ASSUME TypeOK, Stages
  PROVE  Promise!Load(Driver) = {r \in Requests : rider[r] \in {"ASSIGNED", "PICKED_UP"}}
<1>1. ASSUME NEW r \in Requests
      PROVE  (Carrier[r] = Driver /\ Phase[r] \in {"matched", "riding"})
               <=> rider[r] \in {"ASSIGNED", "PICKED_UP"}
  <2>1. RideStage(r)
    BY DEF Stages
  <2> QED BY <2>1, DriverAssumption DEF RideStage, Carrier, Phase, PhaseName
<1> QED BY <1>1 DEF Promise!Load

LEMMA FormingKeeps ==
  ASSUME TypeOK, Stages, NEW r \in Requests, FoundPool(r) \/ Join(r)
  PROVE  Promise!TakeFirst(r, Driver) \/ Promise!TakeAnother(r, Driver)
<1>1. Promise!Take(r, Driver)
  <2> Admit(r)
    BY DEF FoundPool, Join
  <2>1. Phase[r] = "searching" /\ Phase' = [Phase EXCEPT ![r] = "matched"]
    BY DEF TypeOK, Admit, Phase, PhaseName
  <2>2. Carrier' = [Carrier EXCEPT ![r] = Driver]
    BY DEF TypeOK, Admit, Carrier
  <2> QED BY <2>1, <2>2 DEF Promise!Take
<1>2. CASE FoundPool(r)
  <2>1. Promise!Load(Driver) = {}
    BY <1>2, LoadIs DEF FoundPool, Stages, Members
  <2>2. Duty[Driver] = "free" /\ Duty' = [Duty EXCEPT ![Driver] = "gathering"]
    BY <1>2 DEF FoundPool, Duty, DutyName
  <2> QED BY <1>1, <2>1, <2>2 DEF Promise!TakeFirst
<1>3. CASE Join(r)
  <2>1. \A q \in Requests : (rider[q] \in {"ASSIGNED", "PICKED_UP"}) <=> (rider[q] # "NONE")
    BY <1>3 DEF TypeOK, Join, Stages, RideStage, RiderStatus
  <2>2. Promise!Load(Driver) = Members
    BY <2>1, LoadIs DEF Members
  <2>3. Promise!Cardinality(Promise!Load(Driver)) < Seats
    BY <1>3, <2>2 DEF Join, Cardinality, Promise!Cardinality
  <2>4. Duty[Driver] = "gathering" /\ UNCHANGED Duty
    BY <1>3 DEF Join, Duty, DutyName
  <2> QED BY <1>1, <2>3, <2>4 DEF Promise!TakeAnother
<1> QED BY <1>2, <1>3

LEMMA DepartKeeps ==
  ASSUME TypeOK, Stages, Depart PROVE Promise!SetOff(Driver)
<1>1. pool = "FORMING" /\ Members # {}
  BY DepartFound DEF Depart, DepartApplies, Processable
<1>2. PICK r \in Requests : rider[r] # "NONE"
  BY <1>1 DEF Members
<1>3. rider[r] \in {"ASSIGNED", "PICKED_UP"}
  BY <1>1, <1>2 DEF Stages, RideStage
<1>4. Promise!Load(Driver) # {}
  BY <1>3, LoadIs
<1>5. Duty[Driver] = "gathering" /\ Duty' = [Duty EXCEPT ![Driver] = "driving"]
  BY DEF Depart, Duty, DutyName
<1> QED BY <1>4, <1>5 DEF Depart, Promise!SetOff, Phase, Carrier

(* The ride of one passenger, or of everybody aboard, begins.              *)
LEMMA PickUpKeeps ==
  ASSUME TypeOK, Stages, NEW r \in Requests, PickUpMember(r)
  PROVE  Promise!Ride(Driver, {r}) \/ UNCHANGED Promise!promise
<1>1. /\ pool \in {"ARRIVED", "IN_PROGRESS"}
      /\ rider[r] = "ASSIGNED" /\ request[r] = "MATCHED"
  BY PickUpFound DEF PickUpMember, PickUpApplies, Pickup
<1>2. UNCHANGED <<Carrier, Duty>>
  BY <1>1 DEF TypeOK, PickUpMember, Carrier, Duty
<1>3. CASE pool = "ARRIVED"
  BY <1>2, <1>3 DEF PickUpMember, Promise!promise, Phase
<1>4. CASE pool = "IN_PROGRESS"
  <2>1. r \in Promise!Load(Driver) /\ Phase[r] = "matched"
    BY <1>1, LoadIs DEF Phase, PhaseName
  <2>2. Duty[Driver] = "driving"
    BY <1>4 DEF Stages, UnderWay, Duty, DutyName
  <2>3. request' = [request EXCEPT ![r] = "IN_PROGRESS"]
    BY <1>4 DEF PickUpMember
  <2>4. Phase' = [q \in Requests |-> IF q \in {r} THEN "riding" ELSE Phase[q]]
    BY <2>3 DEF TypeOK, Phase, PhaseName
  <2> QED BY <1>2, <2>1, <2>2, <2>4 DEF Promise!Ride
<1> QED BY <1>1, <1>3, <1>4

LEMMA StartKeeps ==
  ASSUME TypeOK, Stages, StartTrip PROVE Promise!Ride(Driver, Aboard)
<1>1. pool = "ARRIVED" /\ Aboard # {}
  BY StartFound DEF StartTrip, StartApplies
<1>2. \A r \in Aboard : request[r] = "MATCHED"
  BY <1>1 DEF Stages, RideStage, Aboard
<1>3. Aboard \subseteq {r \in Promise!Load(Driver) : Phase[r] = "matched"}
  BY <1>2, LoadIs DEF Aboard, Phase, PhaseName
<1>4. Duty[Driver] = "driving"
  BY DEF StartTrip, Duty, DutyName
<1>5. Phase' = [q \in Requests |-> IF q \in Aboard THEN "riding" ELSE Phase[q]]
  BY DEF StartTrip, Phase, PhaseName
<1>6. UNCHANGED <<Carrier, Duty>>
  BY DEF StartTrip, Carrier, Duty
<1> QED BY <1>1, <1>3, <1>4, <1>5, <1>6 DEF Promise!Ride

LEMMA DropOffKeeps ==
  ASSUME TypeOK, Stages, NEW r \in Requests, DropOffMember(r) PROVE Promise!Deliver(r)
<1>1. pool = "IN_PROGRESS" /\ rider[r] = "PICKED_UP" /\ request[r] = "IN_PROGRESS"
  BY DropOffFound DEF DropOffMember, DropOffApplies, Dropoff
<1>2. Phase[r] = "riding" /\ Carrier[r] = Driver /\ Duty[Driver] = "driving"
  BY <1>1 DEF Stages, UnderWay, Phase, PhaseName, Carrier, Duty, DutyName
<1>3. Phase' = [Phase EXCEPT ![r] = "delivered"]
  BY DEF TypeOK, DropOffMember, Phase, PhaseName
<1>4. UNCHANGED <<Carrier, Duty>>
  BY <1>1 DEF TypeOK, DropOffMember, Carrier, Duty
<1> QED BY <1>2, <1>3, <1>4 DEF Promise!Deliver

(* The driver is released by nothing but the delivery of everybody.        *)
LEMMA CompleteKeeps ==
  ASSUME TypeOK, Stages, CompleteTrip PROVE Promise!Finish(Driver)
<1>1. \A r \in Members : rider[r] = "DROPPED_OFF"
  BY CompleteFound DEF CompleteTrip, CompleteApplies
<1>2. Promise!Load(Driver) = {}
  BY <1>1, LoadIs DEF Members
<1>3. Duty[Driver] = "driving" /\ Duty' = [Duty EXCEPT ![Driver] = "free"]
  BY DEF CompleteTrip, Duty, DutyName
<1> QED BY <1>2, <1>3 DEF CompleteTrip, Promise!Finish, Phase, Carrier

LEMMA PassengerKeeps ==
  ASSUME TypeOK, NEW r \in Requests, Create(r) \/ EndSearch(r)
  PROVE  Promise!Ask(r) \/ Promise!GiveUp(r)
<1>1. UNCHANGED <<Carrier, Duty>>
  BY DEF Create, EndSearch, Carrier, Duty
<1>2. CASE Create(r)
  <2>1. Phase[r] = "new" /\ Phase' = [Phase EXCEPT ![r] = "searching"]
    BY <1>2 DEF TypeOK, Create, Phase, PhaseName
  <2> QED BY <1>1, <2>1 DEF Promise!Ask
<1>3. CASE EndSearch(r)
  <2>1. Phase[r] = "searching" /\ Phase' = [Phase EXCEPT ![r] = "ended"]
    BY <1>3 DEF TypeOK, EndSearch, Phase, PhaseName
  <2> QED BY <1>1, <2>1 DEF Promise!GiveUp
<1> QED BY <1>2, <1>3

LEMMA AvailabilityKeeps ==
  ASSUME TypeOK, GoOnline \/ GoOffline
  PROVE  Promise!ComeOnline(Driver) \/ Promise!SignOff(Driver)
<1>1. UNCHANGED <<Phase, Carrier>>
  BY DEF GoOnline, GoOffline, Phase, Carrier
<1>2. CASE GoOnline
  <2>1. Duty[Driver] = "off" /\ Duty' = [Duty EXCEPT ![Driver] = "free"]
    BY <1>2 DEF GoOnline, Duty, DutyName
  <2> QED BY <1>1, <2>1 DEF Promise!ComeOnline
<1>3. CASE GoOffline
  <2>1. Duty[Driver] = "free" /\ Duty' = [Duty EXCEPT ![Driver] = "off"]
    BY <1>3 DEF GoOffline, Duty, DutyName
  <2> QED BY <1>1, <2>1 DEF Promise!SignOff
<1> QED BY <1>2, <1>3

LEMMA PromiseStep ==
  ASSUME TypeOK, Stages, [Next]_vars PROVE [Promise!Next]_(Promise!promise)
<1> USE DEF Promise!Next
<1>1. CASE GoOnline \/ GoOffline
  BY <1>1, AvailabilityKeeps
<1>2. ASSUME NEW r \in Requests, Create(r) \/ EndSearch(r) PROVE Promise!Next
  BY <1>2, PassengerKeeps
<1>3. ASSUME NEW r \in Requests, FoundPool(r) \/ Join(r) PROVE Promise!Next
  BY <1>3, FormingKeeps
<1>4. CASE Depart
  BY <1>4, DepartKeeps
<1>5. CASE StartTrip
  BY <1>5, StartKeeps DEF Aboard
<1>6. CASE CompleteTrip
  BY <1>6, CompleteKeeps
<1>7. ASSUME NEW s \in Stops, ArriveAtStop(s) PROVE UNCHANGED Promise!promise
  BY <1>7 DEF ArriveAtStop, Promise!promise, Phase, Carrier, Duty
<1>8. ASSUME NEW r \in Requests, PickUpMember(r)
      PROVE  Promise!Next \/ UNCHANGED Promise!promise
  BY <1>8, PickUpKeeps
<1>9. ASSUME NEW r \in Requests, DropOffMember(r) PROVE Promise!Next
  BY <1>9, DropOffKeeps
<1>10. CASE UNCHANGED vars
  BY <1>10 DEF vars, Promise!promise, Phase, Carrier, Duty
<1> QED BY <1>1, <1>2, <1>3, <1>4, <1>5, <1>6, <1>7, <1>8, <1>9, <1>10
        DEF Next, Forming, Driving

LEMMA PromiseInit == Init => Promise!Init
  BY DEF Init, Promise!Init, Phase, PhaseName, Carrier, Duty, DutyName

(* A pool driven stop by stop keeps the service's promise, for any number  *)
(* of passengers and seats and whatever plans the joins made.              *)
THEOREM PromiseIsKept == Spec => PromiseKept
<1>1. TypeOK /\ Stages /\ [Next]_vars => [Promise!Next]_(Promise!promise)
  BY PromiseStep
<1> QED BY <1>1, PromiseInit, StagesHold, PTL DEF Spec, PromiseKept, Promise!Spec

(***************************************************************************)
(* The plan and who follows it.                                            *)
(***************************************************************************)
LEMMA StopsDiffer ==
  ASSUME NEW r, NEW q
  PROVE  /\ Pickup(r) # Dropoff(q)
         /\ Pickup(r) = Pickup(q) => r = q
         /\ Dropoff(r) = Dropoff(q) => r = q
  BY DEF Pickup, Dropoff

LEMMA PlanIsSequence == ASSUME TypeOK PROVE Len(plan) \in Nat /\ DOMAIN plan = 1 .. Len(plan)
  BY DEF TypeOK

(* There is one next stop at most, and it is in the plan.                  *)
LEMMA NextIsUnique ==
  ASSUME TypeOK, NEW s, NEW t, IsNext(s), IsNext(t)
  PROVE  s = t /\ s \in Range(plan)
<1>1. PICK i \in DOMAIN plan : /\ plan[i] = s /\ stop[s] # "COMPLETED"
                               /\ \A k \in 1 .. i - 1 : stop[plan[k]] = "COMPLETED"
  BY DEF IsNext
<1>2. PICK j \in DOMAIN plan : /\ plan[j] = t /\ stop[t] # "COMPLETED"
                               /\ \A k \in 1 .. j - 1 : stop[plan[k]] = "COMPLETED"
  BY DEF IsNext
<1>3. i \in 1 .. Len(plan) /\ j \in 1 .. Len(plan) /\ Len(plan) \in Nat
  BY PlanIsSequence
<1>4. ~(i < j) /\ ~(j < i)
  BY <1>1, <1>2, <1>3
<1>5. i = j
  BY <1>3, <1>4
<1> QED BY <1>1, <1>2, <1>5 DEF Range

(* What a join does to the plan of a pool it may join.                     *)
LEMMA JoinInserts ==
  ASSUME TypeOK, Stages, PlanIsDrivable, NEW r \in Requests, Join(r)
  PROVE  /\ r \notin Members /\ Members' = Members \cup {r}
         /\ Range(plan') = Range(plan) \cup {Pickup(r), Dropoff(r)}
         /\ \A i, j \in DOMAIN plan' : plan'[i] = plan'[j] => i = j
         /\ \A a, b : Before(plan, a, b) => Before(plan', a, b)
         /\ Before(plan', Pickup(r), Dropoff(r))
<1>1. request[r] = "WAITING" /\ rider' = [rider EXCEPT ![r] = "ASSIGNED"]
  BY DEF Join, Admit
<1>2. r \notin Members
  BY <1>1 DEF Stages, RideStage, Members
<1>3. Members' = Members \cup {r}
  BY <1>1 DEF TypeOK, Members
<1>4. PICK ij \in Places(Len(plan)) : plan' = Insert(plan, r, ij)
  BY DEF Join, Insertions
<1> DEFINE n == Len(plan)
           a == ij[1]
           b == ij[2]
           MovesTo(k) == Shifted(ij, k)
<1>5. n \in Nat /\ DOMAIN plan = 1 .. n
  BY PlanIsSequence
<1>6. /\ plan' \in Seq(Stops) /\ Len(plan') = n + 2
      /\ a \in 1 .. n + 2 /\ b \in 1 .. n + 2 /\ a < b
      /\ plan'[a] = Pickup(r) /\ plan'[b] = Dropoff(r)
      /\ \A k \in 1 .. n : MovesTo(k) \in (1 .. n + 2) \ {a, b} /\ plan'[MovesTo(k)] = plan[k]
      /\ \A k, l \in 1 .. n : k < l => MovesTo(k) < MovesTo(l)
      /\ \A j \in 1 .. n + 2 : j = a \/ j = b \/ \E k \in 1 .. n : j = MovesTo(k)
  BY <1>4, InsertShape DEF TypeOK
<1> HIDE DEF n, a, b, MovesTo
<1>7. DOMAIN plan' = 1 .. n + 2
  BY <1>6
<1>8. Range(plan') = Range(plan) \cup {Pickup(r), Dropoff(r)}
  <2>1. ASSUME NEW j \in DOMAIN plan' PROVE plan'[j] \in Range(plan) \cup {Pickup(r), Dropoff(r)}
    <3>1. j = a \/ j = b \/ \E k \in 1 .. n : j = MovesTo(k)
      BY <1>6, <1>7
    <3>2. \A k \in 1 .. n : plan'[MovesTo(k)] \in Range(plan)
      BY <1>5, <1>6 DEF Range
    <3> QED BY <1>6, <3>1, <3>2
  <2>2. ASSUME NEW k \in DOMAIN plan PROVE plan[k] \in Range(plan')
    <3>1. MovesTo(k) \in DOMAIN plan' /\ plan'[MovesTo(k)] = plan[k]
      BY <1>5, <1>6, <1>7
    <3> QED BY <3>1 DEF Range
  <2>3. Pickup(r) \in Range(plan') /\ Dropoff(r) \in Range(plan')
    BY <1>6, <1>7 DEF Range
  <2> QED BY <2>1, <2>2, <2>3 DEF Range
<1>9. Pickup(r) \notin Range(plan) /\ Dropoff(r) \notin Range(plan)
  BY <1>2, StopsDiffer DEF PlanIsDrivable
<1>10. ASSUME NEW i \in DOMAIN plan', NEW j \in DOMAIN plan', plan'[i] = plan'[j] PROVE i = j
  <2>1. \A k \in 1 .. n : plan'[MovesTo(k)] \notin {Pickup(r), Dropoff(r)}
    BY <1>5, <1>6, <1>9 DEF Range
  <2>2. CASE i \in {a, b} \/ j \in {a, b}
    <3>1. i \in {a, b} /\ j \in {a, b}
      BY <1>6, <1>7, <1>10, <2>1, <2>2
    <3> QED BY <1>6, <1>10, <3>1, StopsDiffer
  <2>3. CASE i \notin {a, b} /\ j \notin {a, b}
    <3>1. PICK k \in 1 .. n, l \in 1 .. n : i = MovesTo(k) /\ j = MovesTo(l)
      BY <1>6, <1>7, <2>3
    <3>2. plan[k] = plan[l]
      BY <1>6, <1>10, <3>1
    <3>3. k = l
      BY <1>5, <3>2 DEF PlanIsDrivable
    <3> QED BY <3>1, <3>3
  <2> QED BY <2>2, <2>3
<1>11. ASSUME NEW x, NEW y, Before(plan, x, y) PROVE Before(plan', x, y)
  <2>1. PICK i, j \in DOMAIN plan : i < j /\ plan[i] = x /\ plan[j] = y
    BY <1>11 DEF Before
  <2>2. /\ MovesTo(i) \in DOMAIN plan' /\ MovesTo(j) \in DOMAIN plan' /\ MovesTo(i) < MovesTo(j)
        /\ plan'[MovesTo(i)] = x /\ plan'[MovesTo(j)] = y
    BY <1>5, <1>6, <1>7, <2>1
  <2> QED BY <2>2 DEF Before
<1>12. Before(plan', Pickup(r), Dropoff(r))
  BY <1>6, <1>7 DEF Before
<1> QED BY <1>2, <1>3, <1>8, <1>10, <1>11, <1>12

LEMMA DrivableStep ==
  ASSUME TypeOK, Stages, PlanIsDrivable, [Next]_vars PROVE PlanIsDrivable'
<1>1. ASSUME UNCHANGED <<rider, plan>>, pool' # "NONE" => pool # "NONE" PROVE PlanIsDrivable'
  BY <1>1 DEF PlanIsDrivable, Processable, Members
<1>2. ASSUME NEW r \in Requests, FoundPool(r) PROVE PlanIsDrivable'
  <2>1. Members' = {r}
    BY <1>2 DEF TypeOK, Stages, FoundPool, Admit, Members
  <2>2. plan' = <<Pickup(r), Dropoff(r)>> /\ DOMAIN plan' = 1 .. 2
    BY <1>2 DEF FoundPool
  <2>3. Processable'
    BY <2>1, <2>2 DEF Processable
  <2>4. Range(plan') = {Pickup(r), Dropoff(r)}
    BY <2>2 DEF Range
  <2>5. \A i, j \in DOMAIN plan' : plan'[i] = plan'[j] => i = j
    BY <2>2, StopsDiffer
  <2> QED BY <2>1, <2>3, <2>4, <2>5 DEF PlanIsDrivable
<1>3. ASSUME NEW r \in Requests, Join(r) PROVE PlanIsDrivable'
  <2>1. Processable
    BY <1>3 DEF Join, PlanIsDrivable
  <2>2. \A q \in Members : Before(plan, Pickup(q), Dropoff(q))
    BY <2>1 DEF Processable, Before
  <2>3. \A q \in Members' : Before(plan', Pickup(q), Dropoff(q))
    BY <1>3, <2>2, JoinInserts
  <2>4. Processable'
    BY <1>3, <2>3, JoinInserts DEF Processable, Before
  <2>5. Range(plan') = {Pickup(q) : q \in Members'} \cup {Dropoff(q) : q \in Members'}
    BY <1>3, JoinInserts DEF PlanIsDrivable
  <2> QED BY <1>3, <2>4, <2>5, JoinInserts DEF PlanIsDrivable
<1>4. ASSUME NEW r \in Requests, Create(r) \/ EndSearch(r) PROVE PlanIsDrivable'
  BY <1>1, <1>4 DEF Create, EndSearch
<1>5. CASE GoOnline \/ GoOffline
  BY <1>1, <1>5 DEF GoOnline, GoOffline
<1>6. CASE Depart \/ StartTrip \/ CompleteTrip
  <2>1. pool # "NONE"
    BY <1>6, DepartFound, StartFound, CompleteFound
    DEF Depart, StartTrip, CompleteTrip, DepartApplies, StartApplies, CompleteApplies
  <2> QED BY <1>1, <1>6, <2>1 DEF Depart, StartTrip, CompleteTrip
<1>7. ASSUME NEW s \in Stops, ArriveAtStop(s) PROVE PlanIsDrivable'
  BY <1>1, <1>7 DEF ArriveAtStop
<1>8. ASSUME NEW r \in Requests, rider[r] # "NONE", UNCHANGED <<plan, pool>>,
             \E x \in {"PICKED_UP", "DROPPED_OFF"} : rider' = [rider EXCEPT ![r] = x]
      PROVE  PlanIsDrivable'
  <2>1. Members' = Members
    BY <1>8 DEF TypeOK, Members
  <2> QED BY <1>8, <2>1 DEF PlanIsDrivable, Processable
<1>9. ASSUME NEW r \in Requests, PickUpMember(r) \/ DropOffMember(r) PROVE PlanIsDrivable'
  BY <1>8, <1>9, PickUpFound, DropOffFound
  DEF PickUpMember, DropOffMember, PickUpApplies, DropOffApplies, Pickup, Dropoff
<1>10. CASE UNCHANGED vars
  BY <1>1, <1>10 DEF vars
<1> QED BY <1>2, <1>3, <1>4, <1>5, <1>6, <1>7, <1>9, <1>10 DEF Next, Forming, Driving

(***************************************************************************)
(* The inductive invariant.                                                *)
(***************************************************************************)
Rows == \A s \in Stops : (stop[s] = "NONE") <=> (s \notin Range(plan))
Early ==
  pool \in {"NONE", "FORMING", "DRIVER_EN_ROUTE"} => \A s \in Range(plan) : stop[s] = "PENDING"

LEMMA InductiveParts ==
  Inductive <=> TypeOK /\ Stages /\ PlanIsDrivable /\ ServedInOrder
                /\ (\A r \in Members : RowsAgree(r)) /\ Rows /\ Early
  BY DEF Inductive, RidersFollowThePlan, Rows, Early

LEMMA InductiveInit == Init => Inductive
<1> SUFFICES ASSUME Init PROVE Inductive
  OBVIOUS
<1>1. TypeOK /\ Stages
  BY TypeInit, StagesInit
<1>2. Members = {} /\ DOMAIN plan = {} /\ Range(plan) = {}
  BY DEF Init, Members, Range
<1> QED BY <1>1, <1>2, InductiveParts
        DEF Init, PlanIsDrivable, ServedInOrder, Rows, Early

(* Steps that touch neither a stop nor a passenger.                        *)
LEMMA StandingStill ==
  ASSUME Inductive, Stages', TypeOK', PlanIsDrivable', UNCHANGED <<rider, plan, stop>>,
         \/ pool' = pool
         \/ \A s \in Range(plan) : stop[s] = "PENDING"
         \/ pool' \notin {"NONE", "FORMING", "DRIVER_EN_ROUTE"}
  PROVE  Inductive'
<1> USE InductiveParts
<1>1. Members' = Members
  BY DEF Members
<1>2. ServedInOrder' /\ Rows'
  BY DEF ServedInOrder, Rows
<1>3. Early'
  BY DEF Early
<1>4. ASSUME NEW r \in Members' PROVE RowsAgree(r)'
  <2>1. /\ (rider[r] = "ASSIGNED") <=> (stop[Pickup(r)] # "COMPLETED")
        /\ (rider[r] = "DROPPED_OFF") <=> (stop[Dropoff(r)] = "COMPLETED")
    BY <1>1 DEF RowsAgree
  <2>2. RideStage(r)' /\ rider'[r] # "NONE"
    BY DEF Stages, Members
  <2> QED BY <2>1, <2>2 DEF RowsAgree, RideStage
<1>5. TypeOK' /\ Stages' /\ PlanIsDrivable' /\ ServedInOrder'
      /\ (\A r \in Members' : RowsAgree(r)') /\ Rows' /\ Early'
  BY <1>2, <1>3, <1>4
<1> QED BY <1>5 DEF Inductive, RidersFollowThePlan, Rows, Early

(* An acceptance: two new stops that nobody has been at.                   *)
LEMMA Admitted ==
  ASSUME Inductive, Stages', TypeOK', PlanIsDrivable', NEW r \in Requests, Admit(r),
         pool \in {"NONE", "FORMING"},
         r \notin Members, Members' = Members \cup {r},
         Range(plan') = Range(plan) \cup {Pickup(r), Dropoff(r)}
  PROVE  Inductive'
<1>1. /\ Pickup(r) \in Stops /\ Dropoff(r) \in Stops /\ Pickup(r) # Dropoff(r)
      /\ stop'[Pickup(r)] = "PENDING" /\ stop'[Dropoff(r)] = "PENDING"
      /\ \A s \in Stops \ {Pickup(r), Dropoff(r)} : stop'[s] = stop[s]
  <2>1. Pickup(r) \in Stops /\ Dropoff(r) \in Stops /\ Pickup(r) # Dropoff(r)
    BY DEF Pickup, Dropoff, Stops
  <2> QED BY <2>1 DEF Inductive, TypeOK, Admit
<1>2. Range(plan') \subseteq Stops
  BY DEF TypeOK, Range
<1>3. \A s \in Range(plan') : stop'[s] = "PENDING"
  BY <1>1, <1>2 DEF Inductive
<1>4. ServedInOrder'
  BY <1>3 DEF ServedInOrder, Range
<1>5. Rows'
  BY <1>1 DEF Rows, Inductive
<1>6. ASSUME NEW q \in Members' PROVE RowsAgree(q)'
  <2>1. Pickup(q) \in Range(plan') /\ Dropoff(q) \in Range(plan')
    BY DEF PlanIsDrivable
  <2>2. stop'[Pickup(q)] = "PENDING" /\ stop'[Dropoff(q)] = "PENDING"
    BY <1>3, <2>1
  <2>3. rider'[q] = "ASSIGNED"
    <3>1. q \in Members => stop[Pickup(q)] = "PENDING" /\ RowsAgree(q)
      BY DEF Inductive, RidersFollowThePlan, PlanIsDrivable
    <3>2. q \in Members => rider[q] = "ASSIGNED"
      BY <3>1 DEF RowsAgree
    <3> QED BY <3>2 DEF Inductive, TypeOK, Admit, Members
  <2>4. RideStage(q)'
    BY DEF Stages, Members
  <2> QED BY <2>2, <2>3, <2>4 DEF RowsAgree, RideStage
<1> QED BY <1>3, <1>4, <1>5, <1>6 DEF Inductive, RidersFollowThePlan, Rows

(* The first stop of a plan is a pickup: nobody is delivered before.       *)
LEMMA FirstIsPickup ==
  ASSUME TypeOK, PlanIsDrivable, Processable, 1 \in DOMAIN plan
  PROVE  plan[1].type = "PICKUP" /\ IsFirstPickup(plan[1])
<1>1. plan[1] \in Range(plan)
  BY DEF Range
<1>2. ASSUME NEW r \in Members, plan[1] = Dropoff(r) PROVE FALSE
  <2>1. PICK i, j \in DOMAIN plan : i < j /\ plan[j] = Dropoff(r)
    BY DEF Processable
  <2>2. j = 1
    BY <1>2, <2>1 DEF PlanIsDrivable
  <2> QED BY <2>1, <2>2, PlanIsSequence
<1>3. PICK r \in Members : plan[1] = Pickup(r)
  BY <1>1, <1>2 DEF PlanIsDrivable
<1>4. plan[1].type = "PICKUP"
  BY <1>3 DEF Pickup
<1> QED BY <1>4 DEF IsFirstPickup

(* A stop is reached, or done with, in its turn.                           *)
LEMMA InTurn ==
  ASSUME Inductive, NEW s \in Stops, IsNext(s), NEW x \in {"ARRIVED", "COMPLETED"},
         stop' = [stop EXCEPT ![s] = x], UNCHANGED plan
  PROVE  /\ ServedInOrder' /\ Rows'
         /\ \A t \in Stops \ {s} : stop'[t] = stop[t]
         /\ stop'[s] = x
<1>1. PICK n \in DOMAIN plan : /\ plan[n] = s /\ stop[s] # "COMPLETED"
                               /\ \A k \in 1 .. n - 1 : stop[plan[k]] = "COMPLETED"
  BY DEF IsNext
<1>2. stop'[s] = x /\ \A t \in Stops \ {s} : stop'[t] = stop[t]
  BY DEF Inductive, TypeOK
<1>3. \A k \in DOMAIN plan : plan[k] \in Stops
  BY DEF Inductive, TypeOK
<1>4. ASSUME NEW i \in DOMAIN plan, NEW j \in DOMAIN plan, i < j, stop'[plan[j]] # "PENDING"
      PROVE  stop'[plan[i]] = "COMPLETED"
  <2>1. stop[plan[i]] = "COMPLETED"
    <3>1. CASE plan[j] = s
      <4>1. j = n
        BY <1>1, <3>1 DEF Inductive, RidersFollowThePlan, PlanIsDrivable
      <4> QED BY <1>1, <1>4, <4>1, PlanIsSequence DEF Inductive
    <3>2. CASE plan[j] # s
      BY <1>2, <1>3, <1>4, <3>2 DEF Inductive, RidersFollowThePlan, ServedInOrder
    <3> QED BY <3>1, <3>2
  <2> QED BY <1>1, <1>2, <1>3, <2>1
<1>5. s \in Range(plan)
  BY <1>1 DEF Range
<1>6. Rows'
  BY <1>2, <1>5 DEF Rows, Inductive
<1> QED BY <1>2, <1>4, <1>6 DEF ServedInOrder

LEMMA ArriveKeeps ==
  ASSUME Inductive, Stages', TypeOK', PlanIsDrivable', NEW s \in Stops, ArriveAtStop(s)
  PROVE  Inductive'
<1>1. pool \in UnderWay /\ stop[s] = "PENDING" /\ IsNext(s)
  BY ArriveFound DEF ArriveAtStop, ArriveApplies
<1>2. /\ ServedInOrder' /\ Rows' /\ stop'[s] = "ARRIVED"
      /\ \A t \in Stops \ {s} : stop'[t] = stop[t]
  BY <1>1, InTurn DEF ArriveAtStop
<1>3. Early'
  <2>1. pool = "DRIVER_EN_ROUTE" => IsFirstPickup(s)
    <3> SUFFICES ASSUME pool = "DRIVER_EN_ROUTE" PROVE IsFirstPickup(s)
      OBVIOUS
    <3>1. PICK n \in DOMAIN plan : plan[n] = s /\ \A k \in 1 .. n - 1 : stop[plan[k]] = "COMPLETED"
      BY <1>1 DEF IsNext
    <3>2. n \in 1 .. Len(plan) /\ Len(plan) \in Nat /\ DOMAIN plan = 1 .. Len(plan)
      BY PlanIsSequence DEF Inductive
    <3>3. ~(1 < n)
      <4>1. 1 \in DOMAIN plan
        BY <3>2
      <4>2. stop[plan[1]] = "PENDING"
        BY <4>1 DEF Inductive, Range
      <4> QED BY <3>1, <3>2, <4>2
    <3>4. n = 1
      BY <3>2, <3>3
    <3> QED BY <3>1, <3>4, FirstIsPickup DEF Inductive, RidersFollowThePlan, PlanIsDrivable
  <2>2. pool' \notin {"NONE", "FORMING", "DRIVER_EN_ROUTE"}
    BY <1>1, <2>1 DEF ArriveAtStop, UnderWay
  <2> QED BY <2>2 DEF Early
<1>4. Members' = Members
  BY DEF ArriveAtStop, Members
<1>5. ASSUME NEW r \in Members' PROVE RowsAgree(r)'
  <2>1. /\ (rider[r] = "ASSIGNED") <=> (stop[Pickup(r)] # "COMPLETED")
        /\ (rider[r] = "DROPPED_OFF") <=> (stop[Dropoff(r)] = "COMPLETED")
    BY <1>4 DEF Inductive, RidersFollowThePlan, RowsAgree
  <2>2. \A t \in Stops : (stop'[t] = "COMPLETED") <=> (stop[t] = "COMPLETED")
    BY <1>1, <1>2
  <2>3. Pickup(r) \in Stops /\ Dropoff(r) \in Stops
    BY <1>4 DEF Members, Pickup, Dropoff, Stops
  <2>4. RideStage(r)' /\ rider'[r] # "NONE" /\ rider'[r] = rider[r]
    BY DEF Stages, Members, ArriveAtStop
  <2> QED BY <2>1, <2>2, <2>3, <2>4 DEF RowsAgree, RideStage
<1> QED BY <1>2, <1>3, <1>5 DEF Inductive, RidersFollowThePlan, Rows, Early

LEMMA ServeKeeps ==
  ASSUME Inductive, Stages', TypeOK', PlanIsDrivable',
         NEW r \in Requests, PickUpMember(r) \/ DropOffMember(r)
  PROVE  Inductive'
<1>1. PICK s \in {Pickup(r), Dropoff(r)} :
         /\ IsNext(s) /\ stop' = [stop EXCEPT ![s] = "COMPLETED"]
         /\ \/ s = Pickup(r) /\ rider[r] = "ASSIGNED" /\ rider' = [rider EXCEPT ![r] = "PICKED_UP"]
            \/ s = Dropoff(r) /\ rider[r] = "PICKED_UP" /\ rider' = [rider EXCEPT ![r] = "DROPPED_OFF"]
         /\ pool \in {"ARRIVED", "IN_PROGRESS"} /\ UNCHANGED <<pool, plan>>
  <2>1. CASE PickUpMember(r)
    BY <2>1, PickUpFound DEF PickUpMember, PickUpApplies, Pickup
  <2>2. CASE DropOffMember(r)
    BY <2>2, DropOffFound DEF DropOffMember, DropOffApplies, Dropoff
  <2> QED BY <2>1, <2>2
<1>2. \A q \in Requests : Pickup(q) \in Stops /\ Dropoff(q) \in Stops
  BY DEF Pickup, Dropoff, Stops
<1>3. /\ ServedInOrder' /\ Rows' /\ stop'[s] = "COMPLETED"
      /\ \A t \in Stops \ {s} : stop'[t] = stop[t]
  BY <1>1, <1>2, InTurn
<1>4. Early'
  BY <1>1 DEF Early
<1>5. Members' = Members /\ r \in Members
  BY <1>1 DEF Inductive, TypeOK, Members
<1>6. ASSUME NEW q \in Members' PROVE RowsAgree(q)'
  <2>1. /\ (rider[q] = "ASSIGNED") <=> (stop[Pickup(q)] # "COMPLETED")
        /\ (rider[q] = "DROPPED_OFF") <=> (stop[Dropoff(q)] = "COMPLETED")
        /\ q \in Requests
    BY <1>5 DEF Inductive, RidersFollowThePlan, RowsAgree, Members
  <2>2. q # r => rider'[q] = rider[q]
    BY <1>1, <2>1 DEF Inductive, TypeOK
  <2>3. /\ (rider'[q] = "ASSIGNED") <=> (stop'[Pickup(q)] # "COMPLETED")
        /\ (rider'[q] = "DROPPED_OFF") <=> (stop'[Dropoff(q)] = "COMPLETED")
    <3>1. CASE q = r
      <4>1. rider \in [Requests -> RiderStatus]
        BY DEF Inductive, TypeOK
      <4> QED BY <1>1, <1>2, <1>3, <2>1, <3>1, <4>1, StopsDiffer
    <3>2. CASE q # r
      BY <1>1, <1>2, <1>3, <2>1, <2>2, <3>2, StopsDiffer
    <3> QED BY <3>1, <3>2
  <2>4. RideStage(q)' /\ rider'[q] # "NONE"
    BY DEF Stages, Members
  <2> QED BY <2>3, <2>4 DEF RowsAgree, RideStage
<1> QED BY <1>3, <1>4, <1>6 DEF Inductive, RidersFollowThePlan, Rows, Early

LEMMA InductiveStep == Inductive /\ [Next]_vars => Inductive'
<1> SUFFICES ASSUME Inductive, [Next]_vars PROVE Inductive'
  OBVIOUS
<1>1. TypeOK /\ Stages /\ PlanIsDrivable
  BY DEF Inductive, RidersFollowThePlan
<1>2. TypeOK' /\ Stages' /\ PlanIsDrivable'
  BY <1>1, TypeStep, StagesStep, DrivableStep
<1>3. CASE GoOnline \/ GoOffline
  BY <1>2, <1>3, StandingStill DEF GoOnline, GoOffline
<1>4. ASSUME NEW r \in Requests, Create(r) \/ EndSearch(r) PROVE Inductive'
  BY <1>2, <1>4, StandingStill DEF Create, EndSearch
<1>5. ASSUME NEW r \in Requests, FoundPool(r) PROVE Inductive'
  <2>1. Members = {} /\ Members' = {r}
    BY <1>1, <1>5 DEF TypeOK, Stages, FoundPool, Admit, Members
  <2>2. Range(plan) = {}
    BY <1>1, <2>1 DEF PlanIsDrivable
  <2>3. Range(plan') = {Pickup(r), Dropoff(r)}
    BY <1>5 DEF FoundPool, Range
  <2> QED BY <1>2, <1>5, <2>1, <2>2, <2>3, Admitted DEF FoundPool
<1>6. ASSUME NEW r \in Requests, Join(r) PROVE Inductive'
  BY <1>1, <1>2, <1>6, JoinInserts, Admitted DEF Join
<1>7. CASE Depart
  BY <1>2, <1>7, DepartFound, StandingStill DEF Depart, DepartApplies
<1>8. CASE StartTrip
  BY <1>2, <1>8, StandingStill DEF StartTrip
<1>9. CASE CompleteTrip
  BY <1>2, <1>9, StandingStill DEF CompleteTrip
<1>10. ASSUME NEW s \in Stops, ArriveAtStop(s) PROVE Inductive'
  BY <1>2, <1>10, ArriveKeeps
<1>11. ASSUME NEW r \in Requests, PickUpMember(r) \/ DropOffMember(r) PROVE Inductive'
  BY <1>2, <1>11, ServeKeeps
<1>12. CASE UNCHANGED vars
  BY <1>2, <1>12, StandingStill DEF vars
<1> QED BY <1>3, <1>4, <1>5, <1>6, <1>7, <1>8, <1>9, <1>10, <1>11, <1>12 DEF Next, Forming, Driving

(* Types, the stages of a pool, the plan and its rows hold together in every *)
(* reachable state: joins insert pairs, and the six commands each write the *)
(* rows of the next stop and of its passenger.                             *)
THEOREM InductiveHolds == Spec => []Inductive
<1> QED BY InductiveInit, InductiveStep, PTL DEF Spec

(* Every passenger's seat row tells which of their stops were served, and a *)
(* plan always has each member's pickup before their drop-off, whatever joins *)
(* interleaved (orderedStops, insertionCandidates and the six transactions). *)
THEOREM RidersFollowThePlanHolds == Spec => []RidersFollowThePlan
<1>1. Inductive => RidersFollowThePlan
  BY DEF Inductive
<1> QED BY <1>1, InductiveHolds, PTL

(* A join only inserts: stops already planned keep the order they were in. *)
THEOREM OrderIsKeptHolds == Spec => OrderIsKept
<1>1. ASSUME Inductive, [Next]_vars
      PROVE  /\ \A a, b \in Range(plan) : Before(plan, a, b) => Before(plan', a, b)
             /\ pool \in Departed => plan' = plan
  <2>1. TypeOK /\ Stages /\ PlanIsDrivable
    BY <1>1 DEF Inductive, RidersFollowThePlan
  <2>2. CASE UNCHANGED plan
    BY <2>2
  <2>3. ASSUME NEW r \in Requests, FoundPool(r)
        PROVE  pool \notin Departed /\ Range(plan) = {}
    BY <2>1, <2>3 DEF FoundPool, Departed, UnderWay, Stages, PlanIsDrivable
  <2>4. ASSUME NEW r \in Requests, Join(r)
        PROVE  pool \notin Departed /\ \A a, b : Before(plan, a, b) => Before(plan', a, b)
    BY <2>1, <2>4, JoinInserts DEF Join, Departed, UnderWay
  <2>5. \/ UNCHANGED plan
        \/ \E r \in Requests : FoundPool(r) \/ Join(r)
    BY <1>1 DEF Next, Forming, Driving, vars, GoOnline, GoOffline, Create, EndSearch, Depart,
                StartTrip, CompleteTrip, ArriveAtStop, PickUpMember, DropOffMember
  <2> QED BY <2>2, <2>3, <2>4, <2>5
<1> QED BY <1>1, InductiveHolds, PTL DEF Spec, OrderIsKept

(* The lowest stop that is not completed.                                  *)
LEMMA NextExists ==
  ASSUME TypeOK, NEW k \in DOMAIN plan, stop[plan[k]] # "COMPLETED"
  PROVE  \E s \in Range(plan) : IsNext(s)
<1> DEFINE Open == {i \in DOMAIN plan : stop[plan[i]] # "COMPLETED"}
<1>1. Open \subseteq Nat /\ Open # {}
  BY PlanIsSequence
<1>2. PICK i \in Open : \A j \in Open : ~(<<j, i>> \in OpToRel(<, Nat))
  BY <1>1, NatLessThanWellFounded, WFMin
<1>3. \A j \in Open : ~(j < i)
  BY <1>1, <1>2 DEF OpToRel
<1>4. \A j \in 1 .. i - 1 : stop[plan[j]] = "COMPLETED"
  BY <1>3, PlanIsSequence
<1>5. IsNext(plan[i])
  BY <1>4 DEF IsNext
<1> QED BY <1>5 DEF Range

(* A pool under way always has a command that applies: the next stop of the *)
(* plan decides which one it is, and the decisions of trip.rules.js leave no *)
(* stage of a trip without one.                                            *)
THEOREM TripCanGoOnHolds == Spec => []TripCanGoOn
<1>1. ASSUME Inductive, pool \notin {"NONE", "COMPLETED"}
      PROVE  \E c \in Commands : Decision(c) = "APPLY"
  <2>1. TypeOK /\ Stages /\ PlanIsDrivable /\ Processable
    BY <1>1 DEF Inductive, RidersFollowThePlan, PlanIsDrivable
  <2>2. \A r \in Members : RowsAgree(r) /\ RideStage(r) /\ rider[r] # "NONE"
    BY <1>1, <2>1 DEF Inductive, RidersFollowThePlan, Stages, Members
  <2>3. /\ \A op \in {"DEPART", "START", "COMPLETE"} : Whole(op) \in Commands
        /\ \A s \in Stops : At("ARRIVE", s) \in Commands
        /\ \A r \in Requests : /\ At("PICKUP", Pickup(r)) \in Commands
                               /\ At("DROPOFF", Dropoff(r)) \in Commands
    BY DEF Whole, At, Commands
  <2>4. CASE pool = "FORMING"
    <3>1. DepartApplies
      BY <1>1, <2>1, <2>4 DEF Inductive, DepartApplies
    <3>2. Decision(Whole("DEPART")) = "APPLY"
      BY <2>4, <3>1 DEF Decision, Repeats, Applies, Whole, Departed, UnderWay
    <3> QED BY <2>3, <3>2
  <2>5. CASE pool # "FORMING" /\ \A s \in Range(plan) : stop[s] = "COMPLETED"
    <3>1. pool \in UnderWay
      BY <1>1, <2>1, <2>5 DEF TypeOK, PoolStatus, UnderWay
    <3>2. \A r \in Members : rider[r] = "DROPPED_OFF" /\ request[r] = "COMPLETED"
      BY <2>1, <2>2, <2>5 DEF PlanIsDrivable, RowsAgree
    <3>3. PICK r \in Members : TRUE
      BY <2>1 DEF Processable
    <3>4. pool = "IN_PROGRESS"
      BY <1>1, <2>2, <3>2 DEF RideStage
    <3>5. plan # <<>>
      BY <2>1 DEF Processable
    <3>6. CompleteApplies
      BY <2>1, <2>5, <3>1, <3>2, <3>4, <3>5 DEF CompleteApplies, Stages
    <3>7. Decision(Whole("COMPLETE")) = "APPLY"
      BY <3>4, <3>6 DEF Decision, Repeats, Applies, Whole
    <3> QED BY <2>3, <3>7
  <2>6. CASE pool # "FORMING" /\ \E s \in Range(plan) : stop[s] # "COMPLETED"
    <3>1. pool \in UnderWay /\ fare = "FINALIZED"
      BY <1>1, <2>1, <2>6 DEF TypeOK, PoolStatus, UnderWay, Stages
    <3>2. PICK s \in Range(plan) : IsNext(s)
      BY <2>1, <2>6, NextExists DEF Range
    <3>3. s \in Stops /\ stop[s] \in {"PENDING", "ARRIVED"}
      BY <1>1, <3>2 DEF Inductive, TypeOK, Range, IsNext
    <3>4. CASE stop[s] = "PENDING"
      <4>1. Decision(At("ARRIVE", s)) = "APPLY"
        BY <3>1, <3>2, <3>4 DEF Decision, Repeats, Applies, At, ArriveApplies
      <4> QED BY <2>3, <3>3, <4>1
    <3>5. CASE stop[s] = "ARRIVED"
      <4>1. pool \in {"ARRIVED", "IN_PROGRESS"}
        BY <1>1, <3>1, <3>2, <3>5 DEF Inductive, UnderWay
      <4>2. ASSUME NEW r \in Members, s = Pickup(r)
            PROVE  Decision(At("PICKUP", s)) = "APPLY"
        <5>1. rider[r] = "ASSIGNED" /\ request[r] = "MATCHED"
          BY <2>2, <3>5, <4>2 DEF RowsAgree, RideStage
        <5>2. PickUpApplies(s) /\ s.of = r
          BY <3>2, <3>5, <4>1, <4>2, <5>1 DEF PickUpApplies, Pickup
        <5> QED BY <3>5, <5>1, <5>2 DEF Decision, Repeats, Applies, At
      <4>3. ASSUME NEW r \in Members, s = Dropoff(r)
            PROVE  \/ Decision(At("DROPOFF", s)) = "APPLY"
                   \/ Decision(Whole("START")) = "APPLY"
        <5>1. Before(plan, Pickup(r), s)
          BY <2>1, <4>3 DEF Processable, Before
        <5>2. stop[Pickup(r)] = "COMPLETED"
          <6>1. PICK i, j \in DOMAIN plan : i < j /\ plan[i] = Pickup(r) /\ plan[j] = s
            BY <5>1 DEF Before
          <6> QED BY <1>1, <3>5, <6>1 DEF Inductive, RidersFollowThePlan, ServedInOrder
        <5>3. rider[r] = "PICKED_UP"
          BY <2>2, <3>5, <4>3, <5>2 DEF RowsAgree, RideStage
        <5>4. CASE pool = "IN_PROGRESS"
          <6>1. request[r] = "IN_PROGRESS"
            BY <2>2, <5>3, <5>4 DEF RideStage
          <6>2. DropOffApplies(s) /\ s.of = r
            BY <3>2, <3>5, <4>3, <5>3, <5>4, <6>1 DEF DropOffApplies, Dropoff
          <6> QED BY <3>5, <5>3, <6>2 DEF Decision, Repeats, Applies, At
        <5>5. CASE pool = "ARRIVED"
          <6>1. Aboard # {}
            BY <5>3 DEF Aboard, Members
          <6>2. \A q \in Members : ~IsNext(Pickup(q))
            BY <2>1, <3>2, <4>3, NextIsUnique, StopsDiffer
          <6>3. StartApplies
            BY <2>1, <3>1, <5>5, <6>1, <6>2 DEF StartApplies
          <6> QED BY <5>5, <6>3 DEF Decision, Repeats, Applies, Whole
        <5> QED BY <4>1, <5>4, <5>5
      <4>4. \E r \in Members : s = Pickup(r) \/ s = Dropoff(r)
        BY <2>1, <3>2 DEF PlanIsDrivable
      <4> QED BY <2>3, <4>2, <4>3, <4>4 DEF Members
    <3> QED BY <3>3, <3>4, <3>5
  <2> QED BY <2>4, <2>5, <2>6
<1>2. Inductive => TripCanGoOn
  BY <1>1 DEF TripCanGoOn
<1> QED BY <1>2, InductiveHolds, PTL

(***************************************************************************)
(* A command that could be given can be given for ever.                    *)
(***************************************************************************)
(* Nothing goes back: not the pool, not a stop, not a passenger.           *)
LEMMA NothingGoesBack ==
  ASSUME Inductive, [Next]_vars
  PROVE  /\ pool \in Departed => pool' \in Departed
         /\ pool \in {"IN_PROGRESS", "COMPLETED"} => pool' \in {"IN_PROGRESS", "COMPLETED"}
         /\ pool = "COMPLETED" => pool' = "COMPLETED"
         /\ \A s \in Stops : stop[s] \in {"ARRIVED", "COMPLETED"} => stop'[s] \in {"ARRIVED", "COMPLETED"}
         /\ \A r \in Requests :
              /\ rider[r] \in {"PICKED_UP", "DROPPED_OFF"} => rider'[r] \in {"PICKED_UP", "DROPPED_OFF"}
              /\ rider[r] = "DROPPED_OFF" => rider'[r] = "DROPPED_OFF"
<1> DEFINE Goal == /\ pool \in Departed => pool' \in Departed
                   /\ pool \in {"IN_PROGRESS", "COMPLETED"} => pool' \in {"IN_PROGRESS", "COMPLETED"}
                   /\ pool = "COMPLETED" => pool' = "COMPLETED"
                   /\ \A s \in Stops :
                        stop[s] \in {"ARRIVED", "COMPLETED"} => stop'[s] \in {"ARRIVED", "COMPLETED"}
                   /\ \A r \in Requests :
                        /\ rider[r] \in {"PICKED_UP", "DROPPED_OFF"}
                             => rider'[r] \in {"PICKED_UP", "DROPPED_OFF"}
                        /\ rider[r] = "DROPPED_OFF" => rider'[r] = "DROPPED_OFF"
<1> USE DEF Departed, UnderWay
<1>1. TypeOK
  BY DEF Inductive
<1>2. CASE UNCHANGED <<pool, stop, rider>>
  BY <1>2
<1>3. ASSUME NEW r \in Requests, FoundPool(r) \/ Join(r) PROVE Goal
  <2>1. rider[r] = "NONE" /\ Admit(r)
    BY <1>3 DEF Inductive, Stages, RideStage, FoundPool, Join, Admit
  <2>2. Pickup(r) \notin Range(plan) /\ Dropoff(r) \notin Range(plan)
    BY <2>1, StopsDiffer DEF Inductive, RidersFollowThePlan, PlanIsDrivable, Members
  <2>3. stop[Pickup(r)] = "NONE" /\ stop[Dropoff(r)] = "NONE"
    BY <2>2 DEF Inductive, Pickup, Dropoff, Stops
  <2>4. pool \in {"NONE", "FORMING"}
    BY <1>3 DEF FoundPool, Join
  <2> QED BY <1>1, <2>1, <2>3, <2>4 DEF TypeOK, Admit
<1>4. CASE Depart \/ StartTrip \/ CompleteTrip
  BY <1>4, DepartFound, StartFound, CompleteFound
  DEF Depart, StartTrip, CompleteTrip, DepartApplies, StartApplies, CompleteApplies
<1>5. ASSUME NEW s \in Stops, ArriveAtStop(s) PROVE Goal
  BY <1>1, <1>5 DEF TypeOK, ArriveAtStop
<1>6. ASSUME NEW r \in Requests, PickUpMember(r) PROVE Goal
  BY <1>1, <1>6, PickUpFound DEF TypeOK, PickUpMember, PickUpApplies, Pickup
<1>7. ASSUME NEW r \in Requests, DropOffMember(r) PROVE Goal
  BY <1>1, <1>7 DEF TypeOK, DropOffMember
<1>8. \/ UNCHANGED <<pool, stop, rider>>
      \/ \E r \in Requests : FoundPool(r) \/ Join(r) \/ PickUpMember(r) \/ DropOffMember(r)
      \/ Depart \/ StartTrip \/ CompleteTrip
      \/ \E s \in Stops : ArriveAtStop(s)
  BY DEF Next, Forming, Driving, vars, GoOnline, GoOffline, Create, EndSearch
<1> QED BY <1>2, <1>3, <1>4, <1>5, <1>6, <1>7, <1>8

LEMMA CommandIs ==
  ASSUME NEW c \in Commands
  PROVE  /\ c.op \in {"DEPART", "START", "COMPLETE", "ARRIVE", "PICKUP", "DROPOFF"}
         /\ c.op = "ARRIVE" => c.stop \in Stops
         /\ c.op = "PICKUP" => \E r \in Requests : c.stop = Pickup(r)
         /\ c.op = "DROPOFF" => \E r \in Requests : c.stop = Dropoff(r)
  BY DEF Commands

(* What was done stays done.                                               *)
LEMMA RepeatsStay ==
  ASSUME Inductive, [Next]_vars, NEW c \in Commands, Repeats(c) PROVE Repeats(c)'
<1>1. CASE c.op \in {"DEPART", "START", "COMPLETE", "ARRIVE"}
  BY <1>1, NothingGoesBack, CommandIs DEF Repeats
<1>2. CASE c.op \in {"PICKUP", "DROPOFF"}
  <2>1. PICK r \in Requests : /\ c.op = "PICKUP" => c.stop = Pickup(r)
                              /\ c.op = "DROPOFF" => c.stop = Dropoff(r)
    BY <1>2, CommandIs
  <2>2. c.stop.of = r /\ c.stop \in Stops
    BY <1>2, <2>1 DEF Pickup, Dropoff, Stops
  <2>3. stop[c.stop] = "COMPLETED" => r \in Members
    <3>1. stop[c.stop] = "COMPLETED" => c.stop \in Range(plan)
      BY <2>2 DEF Inductive
    <3> QED BY <1>2, <2>1, <3>1, StopsDiffer DEF Inductive, RidersFollowThePlan, PlanIsDrivable
  <2>4. CASE c.op = "PICKUP"
    <3>1. stop[c.stop] = "COMPLETED" => rider[r] \in {"PICKED_UP", "DROPPED_OFF"}
      BY <2>1, <2>3, <2>4
      DEF Inductive, TypeOK, RiderStatus, RidersFollowThePlan, RowsAgree, Members
    <3>2. rider[r] \in {"PICKED_UP", "DROPPED_OFF"}
      BY <2>2, <2>4, <3>1 DEF Repeats
    <3> QED BY <2>2, <2>4, <3>2, NothingGoesBack DEF Repeats
  <2>5. CASE c.op = "DROPOFF"
    <3>1. stop[c.stop] = "COMPLETED" => rider[r] = "DROPPED_OFF"
      BY <2>1, <2>3, <2>5 DEF Inductive, RidersFollowThePlan, RowsAgree
    <3>2. rider[r] = "DROPPED_OFF"
      BY <2>2, <2>5, <3>1 DEF Repeats
    <3> QED BY <2>2, <2>5, <3>2, NothingGoesBack DEF Repeats
  <2> QED BY <1>2, <2>4, <2>5
<1> QED BY <1>1, <1>2, CommandIs

(* While a stop is next, a step on a pool under way is that stop's, or no  *)
(* stop's at all.                                                          *)
LEMMA OthersWait ==
  ASSUME Inductive, [Next]_vars, NEW s \in Stops, IsNext(s), pool \in UnderWay
  PROVE  \/ ArriveAtStop(s)
         \/ \E r \in Requests : s = Pickup(r) /\ PickUpMember(r)
         \/ \E r \in Requests : s = Dropoff(r) /\ DropOffMember(r)
         \/ StartTrip
         \/ /\ UNCHANGED <<rider, pool, plan, stop, fare>>
            /\ \A r \in Requests : request'[r] # request[r] => request[r] \in {"NONE", "WAITING"}
<1>1. TypeOK /\ s \in Range(plan) /\ stop[s] # "COMPLETED"
  BY NextIsUnique DEF Inductive, IsNext
<1>2. ASSUME NEW t \in Stops, ArriveAtStop(t) PROVE t = s
  BY <1>1, <1>2, ArriveFound, NextIsUnique DEF ArriveAtStop, ArriveApplies
<1>3. ASSUME NEW r \in Requests, PickUpMember(r) PROVE s = Pickup(r)
  BY <1>1, <1>3, PickUpFound, NextIsUnique DEF PickUpMember, PickUpApplies
<1>4. ASSUME NEW r \in Requests, DropOffMember(r) PROVE s = Dropoff(r)
  BY <1>1, <1>4, DropOffFound, NextIsUnique DEF DropOffMember, DropOffApplies
<1>5. ~Depart /\ ~CompleteTrip /\ \A r \in Requests : ~FoundPool(r) /\ ~Join(r)
  BY <1>1, DepartFound, CompleteFound
  DEF UnderWay, Depart, CompleteTrip, FoundPool, Join, DepartApplies, CompleteApplies
<1>6. ASSUME NEW r \in Requests, Create(r) \/ EndSearch(r)
      PROVE  /\ UNCHANGED <<rider, pool, plan, stop, fare>>
             /\ \A q \in Requests : request'[q] # request[q] => request[q] \in {"NONE", "WAITING"}
  BY <1>1, <1>6 DEF TypeOK, Create, EndSearch
<1>7. CASE GoOnline \/ GoOffline \/ UNCHANGED vars
  BY <1>7 DEF GoOnline, GoOffline, vars
<1> QED BY <1>2, <1>3, <1>4, <1>5, <1>6, <1>7 DEF Next, Forming, Driving

(* A command about the pool that applies goes on to apply, or is done.     *)
LEMMA PoolCommandsStay ==
  ASSUME Inductive, Inductive', [Next]_vars
  PROVE  /\ DepartApplies => (DepartApplies \/ pool \in Departed)'
         /\ StartApplies => (StartApplies \/ pool \in {"IN_PROGRESS", "COMPLETED"})'
         /\ CompleteApplies => (CompleteApplies \/ pool = "COMPLETED")'
<1> USE DEF Departed, UnderWay
<1>1. TypeOK /\ TypeOK' /\ Stages'
  BY DEF Inductive
<1>2. ASSUME DepartApplies PROVE (DepartApplies \/ pool \in Departed)'
  <2>1. pool = "FORMING"
    BY <1>2 DEF DepartApplies
  <2>2. pool' \in {"FORMING", "DRIVER_EN_ROUTE"}
    BY <2>1, StartFound, CompleteFound, ArriveFound
    DEF Next, Forming, Driving, vars, GoOnline, GoOffline, Create, EndSearch, FoundPool, Join,
        Depart, StartTrip, CompleteTrip, ArriveAtStop, PickUpMember, DropOffMember,
        StartApplies, CompleteApplies, ArriveApplies
  <2>3. Processable' /\ (pool' = "FORMING" => \A s \in Range(plan') : stop'[s] = "PENDING")
    BY <2>2 DEF Inductive, RidersFollowThePlan, PlanIsDrivable
  <2> QED BY <2>2, <2>3 DEF DepartApplies
<1>3. ASSUME CompleteApplies PROVE (CompleteApplies \/ pool = "COMPLETED")'
  <2>1. /\ pool = "IN_PROGRESS" /\ plan # <<>> /\ fare = "FINALIZED"
        /\ \A s \in Range(plan) : stop[s] = "COMPLETED"
        /\ \A r \in Members : rider[r] = "DROPPED_OFF" /\ request[r] = "COMPLETED"
    BY <1>3 DEF CompleteApplies
  <2>2. CASE CompleteTrip
    BY <2>2 DEF CompleteTrip
  <2>3. \A s \in Stops : ~IsNext(s)
    BY <2>1 DEF IsNext, Range
  <2>4. \A s \in Stops : ~ArriveAtStop(s)
    BY <2>3, ArriveFound DEF ArriveAtStop, ArriveApplies
  <2>5. \A r \in Requests : ~PickUpMember(r) /\ ~DropOffMember(r)
    BY <2>3, PickUpFound, DropOffFound
    DEF PickUpMember, DropOffMember, PickUpApplies, DropOffApplies, Pickup, Dropoff, Stops
  <2>6. ~Depart /\ ~StartTrip /\ \A r \in Requests : ~FoundPool(r) /\ ~Join(r)
    BY <2>1, DepartFound, StartFound
    DEF Depart, StartTrip, FoundPool, Join, DepartApplies, StartApplies
  <2>7. CASE /\ UNCHANGED <<rider, pool, plan, stop, fare>>
             /\ \A r \in Requests : request[r] = "COMPLETED" => request'[r] = "COMPLETED"
    BY <2>1, <2>7 DEF CompleteApplies, Members
  <2>8. ASSUME NEW r \in Requests, Create(r) \/ EndSearch(r)
        PROVE  /\ UNCHANGED <<rider, pool, plan, stop, fare>>
               /\ \A q \in Requests : request[q] = "COMPLETED" => request'[q] = "COMPLETED"
    BY <1>1, <2>8 DEF TypeOK, Create, EndSearch
  <2>9. CASE GoOnline \/ GoOffline \/ UNCHANGED vars
    BY <2>7, <2>9 DEF GoOnline, GoOffline, vars
  <2> QED BY <2>2, <2>4, <2>5, <2>6, <2>7, <2>8, <2>9 DEF Next, Forming, Driving
<1>4. ASSUME StartApplies PROVE (StartApplies \/ pool \in {"IN_PROGRESS", "COMPLETED"})'
  <2>1. /\ pool = "ARRIVED" /\ Processable /\ Aboard # {} /\ fare = "FINALIZED"
        /\ \A r \in Members : ~(IsNext(Pickup(r)) /\ rider[r] = "ASSIGNED")
    BY <1>4 DEF StartApplies
  <2>2. CASE StartTrip
    BY <2>2 DEF StartTrip
  <2>3. ASSUME NEW r \in Requests, PickUpMember(r) PROVE FALSE
    <3>1. IsNext(Pickup(r)) /\ rider[r] = "ASSIGNED"
      BY <2>3, PickUpFound DEF PickUpMember, PickUpApplies, Pickup
    <3> QED BY <2>1, <3>1 DEF Members
  <2>4. ~Depart /\ ~CompleteTrip /\ \A r \in Requests : ~FoundPool(r) /\ ~Join(r) /\ ~DropOffMember(r)
    BY <2>1, DepartFound, CompleteFound, DropOffFound
    DEF Depart, CompleteTrip, FoundPool, Join, DropOffMember,
        DepartApplies, CompleteApplies, DropOffApplies
  <2>5. CASE /\ UNCHANGED <<rider, pool, plan, fare>>
             /\ \A s \in Stops : (stop[s] = "COMPLETED") <=> (stop'[s] = "COMPLETED")
    <3>1. \A r \in Members' : ~(IsNext(Pickup(r))' /\ rider'[r] = "ASSIGNED")
      <4>1. \A i \in DOMAIN plan : plan[i] \in Stops
        BY <1>1 DEF TypeOK
      <4>2. \A r \in Requests : Pickup(r) \in Stops
        BY DEF Pickup, Stops
      <4>3. ASSUME NEW s \in Stops, IsNext(s)' PROVE IsNext(s)
        <5>1. PICK i \in DOMAIN plan : /\ plan[i] = s /\ stop'[s] # "COMPLETED"
                                       /\ \A k \in 1 .. i - 1 : stop'[plan[k]] = "COMPLETED"
          BY <2>5, <4>3 DEF IsNext
        <5>2. \A k \in 1 .. i - 1 : plan[k] \in Stops
          BY <1>1, <4>1, PlanIsSequence
        <5>3. \A k \in 1 .. i - 1 : stop[plan[k]] = "COMPLETED"
          BY <2>5, <5>1, <5>2
        <5> QED BY <2>5, <5>1, <5>3 DEF IsNext
      <4> QED BY <2>1, <2>5, <4>2, <4>3 DEF Members
    <3>2. Aboard' # {} /\ Processable'
      BY <2>1, <2>5 DEF Aboard, Processable, Members
    <3> QED BY <2>1, <2>5, <3>1, <3>2 DEF StartApplies
  <2>6. ASSUME NEW s \in Stops, ArriveAtStop(s) PROVE StartApplies'
    <3>1. stop[s] = "PENDING" /\ stop' = [stop EXCEPT ![s] = "ARRIVED"] /\ UNCHANGED <<rider, plan, fare>>
      BY <2>6, ArriveFound DEF ArriveAtStop, ArriveApplies
    <3>2. pool' = pool
      BY <2>1, <2>6 DEF ArriveAtStop
    <3>3. \A t \in Stops : (stop[t] = "COMPLETED") <=> (stop'[t] = "COMPLETED")
      BY <1>1, <3>1 DEF TypeOK
    <3> QED BY <2>1, <2>5, <3>1, <3>2, <3>3
  <2>7. ASSUME NEW r \in Requests, Create(r) \/ EndSearch(r)
        PROVE  UNCHANGED <<rider, pool, plan, stop, fare>>
    BY <2>7 DEF Create, EndSearch
  <2>8. CASE GoOnline \/ GoOffline \/ UNCHANGED vars
    BY <2>5, <2>8 DEF GoOnline, GoOffline, vars
  <2> QED BY <2>1, <2>2, <2>3, <2>4, <2>5, <2>6, <2>7, <2>8 DEF Next, Forming, Driving
<1> QED BY <1>2, <1>3, <1>4

(* A command about a stop that applies goes on to apply, or is done.       *)
LEMMA StopCommandsStay ==
  ASSUME Inductive, Inductive', [Next]_vars, NEW s \in Stops
  PROVE  /\ ArriveApplies(s) => (ArriveApplies(s) \/ stop[s] \in {"ARRIVED", "COMPLETED"})'
         /\ \A r \in Requests : s = Pickup(r) /\ PickUpApplies(s) =>
              (PickUpApplies(s) \/ rider[r] \in {"PICKED_UP", "DROPPED_OFF"})'
         /\ \A r \in Requests : s = Dropoff(r) /\ DropOffApplies(s) =>
              (DropOffApplies(s) \/ rider[r] = "DROPPED_OFF")'
<1>1. TypeOK /\ Stages /\ \A r \in Requests : Pickup(r) \in Stops /\ Dropoff(r) \in Stops
  BY DEF Inductive, Pickup, Dropoff, Stops
<1>2. CASE ~IsNext(s)
  BY <1>2 DEF ArriveApplies, PickUpApplies, DropOffApplies
<1>3. CASE pool \notin UnderWay
  BY <1>3 DEF ArriveApplies, PickUpApplies, DropOffApplies, UnderWay
<1>4. CASE IsNext(s) /\ pool \in UnderWay
  <2>1. CASE ArriveAtStop(s)
    <3>1. stop[s] = "PENDING" /\ stop'[s] = "ARRIVED"
      BY <1>1, <2>1, ArriveFound DEF TypeOK, ArriveAtStop, ArriveApplies
    <3> QED BY <3>1 DEF PickUpApplies, DropOffApplies
  <2>2. ASSUME NEW r \in Requests, s = Pickup(r), PickUpMember(r)
        PROVE  stop[s] = "ARRIVED" /\ rider'[r] = "PICKED_UP"
    BY <1>1, <2>2, PickUpFound DEF TypeOK, PickUpMember, PickUpApplies
  <2>3. ASSUME NEW r \in Requests, s = Dropoff(r), DropOffMember(r)
        PROVE  stop[s] = "ARRIVED" /\ rider'[r] = "DROPPED_OFF"
    BY <1>1, <2>3, DropOffFound DEF TypeOK, DropOffMember, DropOffApplies
  <2>4. CASE StartTrip
    <3>1. pool = "ARRIVED" /\ pool' = "IN_PROGRESS" /\ UNCHANGED <<rider, plan, stop>>
      BY <2>4, StartFound DEF StartTrip, StartApplies
    <3>2. IsNext(s)'
      BY <1>4, <3>1 DEF IsNext
    <3>3. \A r \in Requests : rider[r] = "ASSIGNED" => request'[r] = request[r]
      BY <2>4 DEF StartTrip, Aboard
    <3> QED BY <3>1, <3>2, <3>3
            DEF ArriveApplies, PickUpApplies, DropOffApplies, UnderWay, Pickup, Dropoff
  <2>5. CASE /\ UNCHANGED <<rider, pool, plan, stop, fare>>
             /\ \A r \in Requests : request'[r] # request[r] => request[r] \in {"NONE", "WAITING"}
    <3>1. IsNext(s)'
      BY <1>4, <2>5 DEF IsNext
    <3> QED BY <2>5, <3>1
            DEF ArriveApplies, PickUpApplies, DropOffApplies, Pickup, Dropoff
  <2>6. CASE \E r \in Requests : s = Pickup(r) /\ PickUpMember(r)
    BY <2>2, <2>6, StopsDiffer DEF ArriveApplies, PickUpApplies
  <2>7. CASE \E r \in Requests : s = Dropoff(r) /\ DropOffMember(r)
    BY <2>3, <2>7, StopsDiffer DEF ArriveApplies, DropOffApplies
  <2> QED BY <1>4, <2>1, <2>4, <2>5, <2>6, <2>7, OthersWait
<1> QED BY <1>2, <1>3, <1>4

(* A driver's command is never refused after it could have been given:     *)
(* not a late one, not a repeated one, not one sent after the trip's end.  *)
THEOREM RetriesSucceedHolds == Spec => RetriesSucceed
<1>1. ASSUME Inductive, Inductive', [Next]_vars, NEW c \in Commands, Decision(c) # "REFUSE"
      PROVE  Decision(c)' # "REFUSE"
  <2>1. CASE Repeats(c)
    BY <1>1, <2>1, RepeatsStay DEF Decision
  <2>2. CASE Applies(c)
    <3>1. CASE c.op \in {"DEPART", "START", "COMPLETE"}
      <4>1. (Repeats(c) \/ Applies(c))'
        BY <1>1, <2>2, <3>1, PoolCommandsStay DEF Applies, Repeats
      <4> QED BY <4>1 DEF Decision
    <3>2. CASE c.op \in {"ARRIVE", "PICKUP", "DROPOFF"}
      <4>1. c.stop \in Stops
        <5>1. CASE c.op = "ARRIVE"
          BY <5>1, CommandIs
        <5>2. CASE c.op = "PICKUP"
          <6>1. PICK r \in Requests : c.stop = Pickup(r)
            BY <5>2, CommandIs
          <6> QED BY <6>1 DEF Pickup, Stops
        <5>3. CASE c.op = "DROPOFF"
          <6>1. PICK r \in Requests : c.stop = Dropoff(r)
            BY <5>3, CommandIs
          <6> QED BY <6>1 DEF Dropoff, Stops
        <5> QED BY <3>2, <5>1, <5>2, <5>3
      <4>2. ASSUME c.op = "ARRIVE"
            PROVE  (Repeats(c) \/ Applies(c))'
        <5>1. ArriveApplies(c.stop)
          BY <2>2, <4>2 DEF Applies
        <5>2. (ArriveApplies(c.stop) \/ stop[c.stop] \in {"ARRIVED", "COMPLETED"})'
          BY <1>1, <4>1, <5>1, StopCommandsStay
        <5> QED BY <4>2, <5>2 DEF Applies, Repeats
      <4>3. ASSUME NEW r \in Requests, c.op = "PICKUP", c.stop = Pickup(r)
            PROVE  (Repeats(c) \/ Applies(c))'
        <5>1. c.stop.of = r /\ PickUpApplies(c.stop)
          BY <2>2, <4>3 DEF Applies, Pickup
        <5> QED BY <1>1, <4>1, <4>3, <5>1, StopCommandsStay DEF Applies, Repeats
      <4>4. ASSUME NEW r \in Requests, c.op = "DROPOFF", c.stop = Dropoff(r)
            PROVE  (Repeats(c) \/ Applies(c))'
        <5>1. c.stop.of = r /\ DropOffApplies(c.stop)
          BY <2>2, <4>4 DEF Applies, Dropoff
        <5> QED BY <1>1, <4>1, <4>4, <5>1, StopCommandsStay DEF Applies, Repeats
      <4>5. (Repeats(c) \/ Applies(c))'
        BY <1>1, <2>2, <3>2, <4>1, <4>2, <4>3, <4>4, CommandIs, StopCommandsStay
        DEF Applies, Repeats
      <4> QED BY <4>5 DEF Decision
    <3> QED BY <3>1, <3>2, CommandIs
  <2> QED BY <1>1, <2>1, <2>2 DEF Decision
<1>2. Inductive /\ Inductive' /\ [Next]_vars
        => [\A c \in Commands : Decision(c) # "REFUSE" => Decision(c)' # "REFUSE"]_vars
  BY <1>1
<1> QED BY <1>2, InductiveHolds, PTL DEF Spec, RetriesSucceed

=============================================================================
