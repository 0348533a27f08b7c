------------------------------ MODULE RideLedger ------------------------------
(***************************************************************************)
(* What the creation of rides promises, with no calls, no locks and no     *)
(* races: a passenger books a ride with a quote of theirs under a key; a   *)
(* quote and a key are good for one ride, and until that ride has ended    *)
(* the passenger has no other.                                             *)
(***************************************************************************)
CONSTANTS Passengers, Keys, Quotes, Owner, None

VARIABLE ride       \* the ride each quote was accepted for, or None

Init == ride = [q \in Quotes |-> None]

Taken(q) == ride[q] # None
Active(q) == Taken(q) /\ ride[q].active

Book(p, k, q) ==
    /\ Owner[q] = p /\ ~Taken(q)
    /\ \A o \in Quotes : Taken(o) /\ ride[o].passenger = p =>
          ride[o].key # k /\ ~ride[o].active
    /\ ride' = [ride EXCEPT ![q] = [passenger |-> p, key |-> k, active |-> TRUE]]

Finish(q) ==
    /\ Active(q)
    /\ ride' = [ride EXCEPT ![q] = [passenger |-> ride[q].passenger, key |-> ride[q].key,
                                    active |-> FALSE]]

Next ==
    \/ \E p \in Passengers, k \in Keys, q \in Quotes : Book(p, k, q)
    \/ \E q \in Quotes : Finish(q)

Spec == Init /\ [][Next]_ride

=============================================================================
