---------------------------- MODULE MCRideCreation ----------------------------
(***************************************************************************)
(* The instance of RideCreation that TLC checks: a passenger with two      *)
(* quotes and one with a third.  Keys and calls are interchangeable.       *)
(***************************************************************************)
EXTENDS RideCreation, TLC

CONSTANTS p1, p2, q1, q2, q3

Owners == q1 :> p1 @@ q2 :> p1 @@ q3 :> p2
Symmetry == Permutations(Keys) \cup Permutations(Calls)

=============================================================================
