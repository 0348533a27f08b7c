---------------------------- MODULE RidePromise ----------------------------
(***************************************************************************)
(* What the service promises a passenger and a driver, with nothing of how *)
(* it keeps it: no offers, no pools, no workers, no locks.  A passenger is *)
(* searched for, taken by one driver, rides and is delivered; a driver     *)
(* gathers passengers up to the seats they have, sets off, and is free     *)
(* again only when everybody they took has been delivered.                 *)
(***************************************************************************)
EXTENDS Naturals, FiniteSets

CONSTANTS Requests, Drivers, Capacity, None

VARIABLES
    phase,      \* where each passenger's ride is
    carrier,    \* the driver who took the passenger, or None
    duty        \* what each driver is doing

promise == <<phase, carrier, duty>>

Init ==
    /\ phase = [r \in Requests |-> "new"]
    /\ carrier = [r \in Requests |-> None]
    /\ duty = [d \in Drivers |-> "off"]

(* The passengers a driver has taken and not yet delivered.                *)
Load(d) == {r \in Requests : carrier[r] = d /\ phase[r] \in {"matched", "riding"}}

Ask(r) ==
    /\ phase[r] = "new"
    /\ phase' = [phase EXCEPT ![r] = "searching"]
    /\ UNCHANGED <<carrier, duty>>

(* Withdrawn by the passenger, or out of time: only before they are taken. *)
GiveUp(r) ==
    /\ phase[r] = "searching"
    /\ phase' = [phase EXCEPT ![r] = "ended"]
    /\ UNCHANGED <<carrier, duty>>

ComeOnline(d) ==
    /\ duty[d] = "off"
    /\ duty' = [duty EXCEPT ![d] = "free"]
    /\ UNCHANGED <<phase, carrier>>

SignOff(d) ==
    /\ duty[d] = "free"
    /\ duty' = [duty EXCEPT ![d] = "off"]
    /\ UNCHANGED <<phase, carrier>>

Take(r, d) ==
    /\ phase[r] = "searching"
    /\ phase' = [phase EXCEPT ![r] = "matched"]
    /\ carrier' = [carrier EXCEPT ![r] = d]

TakeFirst(r, d) ==
    /\ duty[d] = "free" /\ Load(d) = {}
    /\ Take(r, d)
    /\ duty' = [duty EXCEPT ![d] = "gathering"]

TakeAnother(r, d) ==
    /\ duty[d] = "gathering" /\ Cardinality(Load(d)) < Capacity
    /\ Take(r, d)
    /\ UNCHANGED duty

SetOff(d) ==
    /\ duty[d] = "gathering" /\ Load(d) # {}
    /\ duty' = [duty EXCEPT ![d] = "driving"]
    /\ UNCHANGED <<phase, carrier>>

(* One or more passengers of a moving vehicle begin their ride.            *)
Ride(d, riders) ==
    /\ duty[d] = "driving"
    /\ riders # {} /\ riders \subseteq {r \in Load(d) : phase[r] = "matched"}
    /\ phase' = [r \in Requests |-> IF r \in riders THEN "riding" ELSE phase[r]]
    /\ UNCHANGED <<carrier, duty>>

Deliver(r) ==
    /\ phase[r] = "riding" /\ duty[carrier[r]] = "driving"
    /\ phase' = [phase EXCEPT ![r] = "delivered"]
    /\ UNCHANGED <<carrier, duty>>

Finish(d) ==
    /\ duty[d] = "driving" /\ Load(d) = {}
    /\ duty' = [duty EXCEPT ![d] = "free"]
    /\ UNCHANGED <<phase, carrier>>

Next ==
    \/ \E r \in Requests : Ask(r) \/ GiveUp(r) \/ Deliver(r)
    \/ \E d \in Drivers : ComeOnline(d) \/ SignOff(d) \/ SetOff(d) \/ Finish(d)
    \/ \E r \in Requests, d \in Drivers : TakeFirst(r, d) \/ TakeAnother(r, d)
    \/ \E d \in Drivers, riders \in SUBSET Requests : Ride(d, riders)

Spec == Init /\ [][Next]_promise

=============================================================================
