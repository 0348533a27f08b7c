------------------------------ MODULE MCSweeps ------------------------------
(* One road from a to b; both passengers start at a, one driver waits      *)
(* there and one at the far end, farther than any credit makes up for.     *)
EXTENDS Sweeps

MCPlaces == {"a", "b"}
MCStraightLine == [x \in MCPlaces, y \in MCPlaces |-> IF x = y THEN 0 ELSE 2]
MCApproach == [x \in MCPlaces, y \in MCPlaces |-> IF x = y THEN 0 ELSE 2]
MCWeights == [rejection |-> 1, workload |-> 1, idle |-> 2, idleMax |-> 1]
MCStart == <<"b", "a">>
MCPickup == [r \in Requests |-> "a"]
MCDropoff == [r \in Requests |-> "b"]

=============================================================================
