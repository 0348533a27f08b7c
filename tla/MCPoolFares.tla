----------------------------- MODULE MCPoolFares -----------------------------
(* Instances of PoolFares: three rides over three points, money in tenths  *)
(* of a taka, and two versions of the policy with different rates.         *)
EXTENDS PoolFares

Places == {"a", "b", "c"}
MCFrom == <<"a", "a", "b">>
MCTo == <<"c", "b", "c">>

Edge(meters, seconds, weight) == [meters |-> meters, seconds |-> seconds, weight |-> weight]

(* b lies between a and c; the rush hour makes every edge slower. *)
Path(slow, a, b) ==
  LET first == Edge(1300, 170 * slow, 1000)
      second == Edge(700, 100 * slow, 1130)
  IN  CASE {a, b} = {"a", "b"} -> <<first>>
        [] {a, b} = {"b", "c"} -> <<second>>
        [] OTHER -> IF a = "a" THEN <<first, second>> ELSE <<second, first>>

MCRoute ==
  [rush \in BOOLEAN |->
    [ab \in {pair \in Places \X Places : pair[1] # pair[2]} |->
      Path(IF rush THEN 2 ELSE 1, ab[1], ab[2])]]

Policy(base, perKm, minimum, unit, from, until) ==
  [base |-> base, perKilometer |-> perKm, perMinute |-> 23, minimum |-> minimum,
   normal |-> 100, rush |-> 125, unit |-> unit, ttl |-> 1, from |-> from, until |-> until]

(* The second ride was matched before the shared fares existed; or no ride was. *)
OneOldFare == <<NoFare, 700, NoFare>>
OneOldPool == <<0, 1, 0>>
NoOldFare == <<NoFare, NoFare, NoFare>>
NoOldPool == <<0, 0, 0>>

OneUnit == <<Policy(300, 251, 500, 100, 0, 1), Policy(420, 333, 600, 100, 1, NoEnd)>>
NewUnit == <<Policy(300, 251, 400, 100, 0, 1), Policy(300, 251, 400, 200, 1, NoEnd)>>
=============================================================================
