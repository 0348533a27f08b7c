---------------------------- MODULE MCJoinSearch ----------------------------
(* Instances of JoinSearch: three rides along one road of four points.     *)
EXTENDS JoinSearch

CONSTANTS w1, w2
Symmetry == Permutations(Workers)

Road == 1..4
Distance(a, b) == IF a < b THEN b - a ELSE a - b

(* A unit a point; in the rush hour the last stretch takes one more, and   *)
(* nobody gets back to the first point.                                    *)
MCTravel ==
  [rush \in BOOLEAN |->
    [ab \in {pair \in Road \X Road : pair[1] # pair[2]} |->
      IF rush /\ ab[2] = 1 THEN Unroutable
      ELSE Distance(ab[1], ab[2]) + (IF rush /\ 4 \in {ab[1], ab[2]} THEN 1 ELSE 0)]]

MCFrom == <<2, 1, 3>>
MCTo == <<4, 3, 4>>
MCDriverAt == <<1, 3>>
MCNear == [a \in Road |-> {b \in Road : Distance(a, b) <= 1}]
MCLimits == [wait |-> 2, added |-> 3, detour |-> 2, ratio |-> 200]
MCWeights == [wait |-> 1, detour |-> 1]
=============================================================================
