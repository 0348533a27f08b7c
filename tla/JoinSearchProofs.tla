-------------------------- MODULE JoinSearchProofs --------------------------
(***************************************************************************)
(* Joining a pool, for every number of rides, pools and searches, any      *)
(* roads and any limits: nobody's ride grows beyond the limits, the        *)
(* newcomer's wait counts from the acceptance, the rewrite of the stops    *)
(* meets no constraint, and the place that is offered is the best.         *)
(***************************************************************************)
EXTENDS JoinSearch, FiniteSetTheorems, SequenceTheorems, WellFoundedInduction, TLAPS

-----------------------------------------------------------------------------
(* Induction over the natural numbers, for a set. *)
LEMMA NatByInduction ==
  ASSUME NEW G, 0 \in G, \A n \in Nat : n \in G => n + 1 \in G
  PROVE  Nat \subseteq G
<1> DEFINE Missing == Nat \ G
<1> SUFFICES ASSUME Missing # {} PROVE FALSE
  OBVIOUS
<1>1. PICK n \in Missing : \A m \in Missing : ~(<<m, n>> \in OpToRel(<, Nat))
  BY NatLessThanWellFounded, WFMin
<1>2. n \in Nat /\ n # 0
  OBVIOUS
<1>3. n - 1 \in Nat /\ n - 1 < n
  BY <1>2
<1>4. n - 1 \in G
  BY <1>1, <1>2, <1>3 DEF OpToRel
<1> QED BY <1>2, <1>3, <1>4

(* A walk of n steps, each from where the one before has led, exists. *)
WalkStep(base, step, g, i) == IF i = 0 THEN base ELSE step[<<i, g[i - 1]>>]
Keeps(n, V, step) == \A i \in 1..n, v \in V : step[<<i, v>>] \in V
IsWalk(n, V, base, step, g) ==
  g \in [0..n -> V] /\ \A i \in 0..n : g[i] = WalkStep(base, step, g, i)

LEMMA WalkExists ==
  ASSUME NEW n \in Nat, NEW V, NEW base \in V, NEW step, Keeps(n, V, step)
  PROVE  \E g : IsWalk(n, V, base, step, g)
<1> DEFINE Partial(k) == {g \in [0..k -> V] : \A i \in 0..k : g[i] = WalkStep(base, step, g, i)}
           G == {k \in Nat : k <= n => Partial(k) # {}}
<1>1. 0 \in G
  <2> DEFINE g == [i \in 0..0 |-> base]
  <2>1. g \in Partial(0)
    BY DEF WalkStep
  <2> QED BY <2>1
<1>2. ASSUME NEW k \in Nat, k \in G PROVE k + 1 \in G
  <2> SUFFICES ASSUME k + 1 <= n PROVE Partial(k + 1) # {}
    OBVIOUS
  <2>1. PICK g \in Partial(k) : TRUE
    BY <1>2
  <2> DEFINE h == [i \in 0..(k + 1) |-> WalkStep(base, step, g, i)]
  <2>2. \A i \in 0..(k + 1) : i # 0 => i - 1 \in 0..k /\ i \in 1..n
    OBVIOUS
  <2>3. \A i \in 0..(k + 1) : h[i] \in V
    <3> TAKE i \in 0..(k + 1)
    <3>1. i # 0 => i \in 1..n /\ g[i - 1] \in V
      BY <2>1, <2>2
    <3> QED BY <3>1 DEF WalkStep, Keeps
  <2>4. \A i \in 0..k : i \in 0..(k + 1) /\ h[i] = g[i]
    BY <2>1
  <2>5. \A i \in 0..(k + 1) : h[i] = WalkStep(base, step, h, i)
    BY <2>2, <2>4 DEF WalkStep
  <2>6. h \in [0..(k + 1) -> V]
    BY <2>3
  <2> HIDE DEF h
  <2>7. h \in Partial(k + 1)
    BY <2>5, <2>6
  <2> QED BY <2>7
<1>3. n \in G
  <2> HIDE DEF G
  <2> QED BY <1>1, <1>2, NatByInduction
<1> QED BY <1>3 DEF IsWalk

(* The times along the legs. *)
LEMMA ElapsedIs ==
  ASSUME NEW n \in Nat, NEW legs \in [1..n -> Int]
  PROVE  /\ Elapsed(legs) \in [0..n -> Int]
         /\ Sum(legs) \in Int
<1> DEFINE step == [x \in (1..n) \X Int |-> x[2] + legs[x[1]]]
           Walk(g) == g = [i \in 0..n |-> IF i = 0 THEN 0 ELSE g[i - 1] + legs[i]]
<1>1. \A i \in 1..n, v \in Int : step[<<i, v>>] = v + legs[i]
  OBVIOUS
<1>2. PICK g : IsWalk(n, Int, 0, step, g)
  <2>1. 0 \in Int /\ Keeps(n, Int, step)
    BY <1>1 DEF Keeps
  <2> HIDE DEF step
  <2> QED BY <2>1, WalkExists
<1>3. ASSUME NEW i \in 0..n, i # 0 PROVE step[<<i, g[i - 1]>>] = g[i - 1] + legs[i]
  <2>1. i - 1 \in 0..n /\ i \in 1..n
    BY <1>3
  <2>2. g[i - 1] \in Int
    BY <1>2, <2>1 DEF IsWalk
  <2> QED BY <2>1, <2>2
<1>4. Walk(g)
  BY <1>2, <1>3 DEF WalkStep, IsWalk
<1>5. Len(legs) = n
  OBVIOUS
<1>6. Elapsed(legs) = CHOOSE h : Walk(h)
  BY <1>5 DEF Elapsed
<1>7. Walk(Elapsed(legs))
  BY <1>4, <1>6
<1> HIDE DEF step
<1>8. Elapsed(legs) \in [0..n -> Int]
  <2> DEFINE e == Elapsed(legs)
             G == {k \in Nat : k <= n => e[k] \in Int}
  <2>1. e = [i \in 0..n |-> IF i = 0 THEN 0 ELSE e[i - 1] + legs[i]]
    BY <1>7
  <2> HIDE DEF e
  <2>2. 0 \in G
    BY <2>1
  <2>3. ASSUME NEW k \in Nat, k \in G PROVE k + 1 \in G
    BY <2>1, <2>3
  <2>4. Nat \subseteq G
    <3> HIDE DEF G
    <3> QED BY <2>2, <2>3, NatByInduction
  <2>5. \A k \in 0..n : e[k] \in Int
    BY <2>4
  <2> QED BY <2>1, <2>5 DEF e
<1> QED BY <1>5, <1>8 DEF Sum

(* A strict order has a least element in every finite set. *)
LEMMA LeastExists ==
  ASSUME NEW S, IsFiniteSet(S), S # {}, NEW R,
         \A a \in S : <<a, a>> \notin R,
         \A a, b, c \in S : <<a, b>> \in R /\ <<b, c>> \in R => <<a, c>> \in R
  PROVE  \E a \in S : \A b \in S : <<b, a>> \notin R
<1> DEFINE Has(T) == \E a \in T : \A b \in T : <<b, a>> \notin R
           G == {n \in Nat : \A T \in SUBSET S : Cardinality(T) = n + 1 => Has(T)}
<1>1. \A T \in SUBSET S : IsFiniteSet(T) /\ Cardinality(T) \in Nat /\ (Cardinality(T) = 0 <=> T = {})
  BY FS_Subset, FS_CardinalityType, FS_EmptySet
<1>2. 0 \in G
  <2> SUFFICES ASSUME NEW T \in SUBSET S, Cardinality(T) = 1 PROVE Has(T)
    OBVIOUS
  <2>1. PICK a : T = {a}
    BY <1>1, FS_Singleton
  <2> QED BY <2>1
<1>3. ASSUME NEW n \in Nat, n \in G PROVE n + 1 \in G
  <2> SUFFICES ASSUME NEW T \in SUBSET S, Cardinality(T) = (n + 1) + 1 PROVE Has(T)
    OBVIOUS
  <2>1. PICK x \in T : TRUE
    BY <1>1
  <2>2. Cardinality(T \ {x}) = n + 1
    BY <1>1, FS_RemoveElement
  <2>3. PICK a \in T \ {x} : \A b \in T \ {x} : <<b, a>> \notin R
    BY <1>3, <2>2
  <2>4. CASE <<x, a>> \in R
    <3>1. ASSUME NEW b \in T PROVE <<b, x>> \notin R
      BY <2>3, <2>4
    <3> QED BY <3>1
  <2>5. CASE <<x, a>> \notin R
    BY <2>3, <2>5
  <2> QED BY <2>4, <2>5
<1>4. PICK n \in Nat : Cardinality(S) = n + 1
  BY <1>1
<1>5. n \in G
  <2> HIDE DEF G
  <2> QED BY <1>2, <1>3, NatByInduction
<1> QED BY <1>4, <1>5

(* planMetrics' worst case bounds every passenger. *)
LEMMA GreatestIs ==
  ASSUME NEW S, IsFiniteSet(S), S # {}, S \subseteq Int
  PROVE  Greatest(S) \in S /\ \A x \in S : x <= Greatest(S)
<1> DEFINE R == {p \in S \X S : p[1] > p[2]}
<1>1. \A a, b \in S : <<a, b>> \in R <=> a > b
  OBVIOUS
<1>2. \A a \in S : a \in Int
  OBVIOUS
<1> HIDE DEF R
<1>3. /\ \A a \in S : <<a, a>> \notin R
      /\ \A a, b, c \in S : <<a, b>> \in R /\ <<b, c>> \in R => <<a, c>> \in R
  BY <1>1, <1>2
<1>4. PICK a \in S : \A b \in S : <<b, a>> \notin R
  BY <1>3, LeastExists, Zenon
<1>5. \A b \in S : b <= a
  <2> TAKE b \in S
  <2>1. ~(b > a) /\ a \in Int /\ b \in Int
    BY <1>1, <1>2, <1>4
  <2> QED BY <2>1
<1> QED BY <1>5 DEF Greatest

-----------------------------------------------------------------------------
(* The three parts of a sequence with one entry more.                      *)
LEMMA InsertAtElements ==
  ASSUME NEW S, NEW s \in Seq(S), NEW e \in S, NEW i \in 1 .. Len(s) + 1
  PROVE  /\ InsertAt(s, i, e) \in Seq(S)
         /\ Len(InsertAt(s, i, e)) = Len(s) + 1
         /\ \A j \in 1 .. Len(s) + 1 :
              InsertAt(s, i, e)[j] = IF j < i THEN s[j] ELSE IF j = i THEN e ELSE s[j - 1]
<1> DEFINE front == SubSeq(s, 1, i - 1)
           back == SubSeq(s, i, Len(s))
           start == front \o <<e>>
<1>1. Len(s) \in Nat /\ \A j \in 1 .. Len(s) : s[j] \in S
  BY ElementOfSeq
<1>2. /\ front \in Seq(S) /\ Len(front) = i - 1
      /\ \A j \in 1 .. i - 1 : front[j] = s[j]
  <2>1. \A j \in 1 .. i - 1 : s[j] \in S
    BY <1>1
  <2>2. /\ front \in Seq(S)
        /\ Len(front) = IF 1 <= i - 1 THEN i - 1 - 1 + 1 ELSE 0
        /\ \A j \in 1 .. i - 1 - 1 + 1 : front[j] = s[1 + j - 1]
    BY <1>1, <2>1, SubSeqProperties
  <2> QED BY <1>1, <2>2
<1>3. /\ back \in Seq(S) /\ Len(back) = Len(s) + 1 - i
      /\ \A j \in 1 .. Len(s) + 1 - i : back[j] = s[i + j - 1]
  <2>1. \A j \in i .. Len(s) : s[j] \in S
    BY <1>1
  <2>2. /\ back \in Seq(S)
        /\ Len(back) = IF i <= Len(s) THEN Len(s) - i + 1 ELSE 0
        /\ \A j \in 1 .. Len(s) - i + 1 : back[j] = s[i + j - 1]
    BY <1>1, <2>1, SubSeqProperties
  <2> QED BY <1>1, <2>2
<1>4. <<e>> \in Seq(S) /\ Len(<<e>>) = 1 /\ <<e>>[1] = e
  OBVIOUS
<1> HIDE DEF front, back
<1>5. /\ start \in Seq(S) /\ Len(start) = i
      /\ \A j \in 1 .. i : start[j] = IF j < i THEN s[j] ELSE e
  <2>1. /\ start \in Seq(S) /\ Len(start) = i - 1 + 1
        /\ \A j \in 1 .. i - 1 + 1 : start[j] = IF j <= i - 1 THEN front[j] ELSE <<e>>[j - (i - 1)]
    BY <1>1, <1>2, <1>4, ConcatProperties
  <2> QED BY <1>1, <1>2, <1>4, <2>1
<1> HIDE DEF start
<1>6. /\ start \o back \in Seq(S)
      /\ Len(start \o back) = i + (Len(s) + 1 - i)
      /\ \A j \in 1 .. i + (Len(s) + 1 - i) :
           (start \o back)[j] = IF j <= i THEN start[j] ELSE back[j - i]
  <2>1. /\ start \o back \in Seq(S)
        /\ Len(start \o back) = Len(start) + Len(back)
        /\ \A j \in 1 .. Len(start) + Len(back) :
             (start \o back)[j] = IF j <= Len(start) THEN start[j] ELSE back[j - Len(start)]
    BY <1>3, <1>5, ConcatProperties
  <2> QED BY <1>3, <1>5, <2>1
<1>7. Len(start \o back) = Len(s) + 1
  BY <1>1, <1>6
<1>8. ASSUME NEW j \in 1 .. Len(s) + 1
      PROVE  (start \o back)[j] = IF j < i THEN s[j] ELSE IF j = i THEN e ELSE s[j - 1]
  <2>1. /\ j \in 1 .. i + (Len(s) + 1 - i)
        /\ (start \o back)[j] = IF j <= i THEN start[j] ELSE back[j - i]
    BY <1>1, <1>6
  <2>2. CASE j <= i
    <3>1. start[j] = IF j < i THEN s[j] ELSE e
      BY <1>1, <1>5, <2>2
    <3> QED BY <1>1, <2>1, <2>2, <3>1
  <2>3. CASE j > i
    <3>1. j - i \in 1 .. Len(s) + 1 - i /\ i + (j - i) - 1 = j - 1
      BY <1>1, <2>3
    <3>2. back[j - i] = s[j - 1]
      BY <1>3, <3>1
    <3> QED BY <1>1, <2>1, <2>3, <3>2
  <2>4. j <= i \/ j > i
    BY <1>1
  <2> QED BY <2>2, <2>3, <2>4
<1> QED BY <1>6, <1>7, <1>8 DEF InsertAt, front, back, start

(* Where the k-th stop of a plan stands after something was put at place i. *)
Moved(i, k) == IF k < i THEN k ELSE k + 1
Shifted(ij, k) == Moved(ij[2], Moved(ij[1], k))

(* A proposal puts its two stops into the plan and keeps the others' order. *)
PutInto(q, p, in, out, ij) ==
  LET n == Len(p)
  IN  /\ Len(q) = n + 2
      /\ ij[1] \in 1 .. n + 2 /\ ij[2] \in 1 .. n + 2 /\ ij[1] < ij[2]
      /\ q[ij[1]] = in /\ q[ij[2]] = out
      /\ \A k \in 1 .. n :
           Shifted(ij, k) \in (1 .. n + 2) \ {ij[1], ij[2]} /\ q[Shifted(ij, k)] = p[k]
      /\ \A k, l \in 1 .. n : k < l => Shifted(ij, k) < Shifted(ij, l)
      /\ \A j \in 1 .. n + 2 :
           j = ij[1] \/ j = ij[2] \/ \E k \in 1 .. n : j = Shifted(ij, k)

LEMMA ProposedShape ==
  ASSUME NEW S, NEW p \in Seq(S), NEW from, NEW to, NEW ij \in Positions(Len(p)),
         Stop(NewMember, TRUE, from) \in S, Stop(NewMember, FALSE, to) \in S
  PROVE  /\ Proposed(p, from, to, ij) \in Seq(S)
         /\ PutInto(Proposed(p, from, to, ij), p, Stop(NewMember, TRUE, from),
                    Stop(NewMember, FALSE, to), ij)
<1> DEFINE in == Stop(NewMember, TRUE, from)
           out == Stop(NewMember, FALSE, to)
           n == Len(p)
           a == ij[1]
           b == ij[2]
           m == InsertAt(p, a, in)
           q == InsertAt(m, b, out)
<1>1. n \in Nat /\ a \in 1 .. n + 1 /\ b \in 1 .. n + 2 /\ a < b
  BY DEF Positions
<1>2. in \in S /\ out \in S
  OBVIOUS
<1> HIDE DEF a, b, in, out
<1>3. /\ m \in Seq(S) /\ Len(m) = n + 1
      /\ \A j \in 1 .. n + 1 : m[j] = IF j < a THEN p[j] ELSE IF j = a THEN in ELSE p[j - 1]
  <2>1. a \in 1 .. Len(p) + 1
    BY <1>1
  <2>2. /\ m \in Seq(S) /\ Len(m) = Len(p) + 1
        /\ \A j \in 1 .. Len(p) + 1 : m[j] = IF j < a THEN p[j] ELSE IF j = a THEN in ELSE p[j - 1]
    BY <1>2, <2>1, InsertAtElements
  <2> QED BY <2>2
<1> HIDE DEF m
<1>4. /\ q \in Seq(S) /\ Len(q) = n + 2
      /\ \A j \in 1 .. n + 2 : q[j] = IF j < b THEN m[j] ELSE IF j = b THEN out ELSE m[j - 1]
  <2>1. m \in Seq(S) /\ out \in S /\ b \in 1 .. Len(m) + 1
    BY <1>1, <1>2, <1>3
  <2>2. /\ q \in Seq(S) /\ Len(q) = Len(m) + 1
        /\ \A j \in 1 .. Len(m) + 1 : q[j] = IF j < b THEN m[j] ELSE IF j = b THEN out ELSE m[j - 1]
    BY <2>1, InsertAtElements
  <2> QED BY <1>1, <1>3, <2>2
<1> HIDE DEF n, q
<1>5. q[a] = in /\ q[b] = out /\ a \in 1 .. n + 2
  <2>1. a \in 1 .. n + 2
    BY <1>1
  <2>2. m[a] = in
    BY <1>1, <1>3
  <2>3. q[a] = m[a]
    BY <1>1, <1>4, <2>1
  <2>4. q[b] = out
    BY <1>1, <1>4
  <2> QED BY <2>1, <2>2, <2>3, <2>4
<1>6. ASSUME NEW k \in 1 .. n
      PROVE  Shifted(ij, k) \in (1 .. n + 2) \ {a, b} /\ q[Shifted(ij, k)] = p[k]
  <2> DEFINE u == Moved(a, k)
             v == Moved(b, u)
  <2>1. u \in 1 .. n + 1 /\ u # a /\ m[u] = p[k]
    BY <1>1, <1>3 DEF Moved
  <2> HIDE DEF u
  <2>2. v \in 1 .. n + 2 /\ v # b /\ q[v] = m[u]
    BY <1>1, <1>4, <2>1 DEF Moved
  <2>3. v # a
    BY <1>1, <2>1 DEF Moved
  <2> QED BY <2>1, <2>2, <2>3 DEF Shifted, u, v, a, b
<1>7. \A k, l \in 1 .. n : k < l => Shifted(ij, k) < Shifted(ij, l)
  BY <1>1 DEF Shifted, Moved, a, b
<1>8. ASSUME NEW j \in 1 .. n + 2, j # a, j # b PROVE \E k \in 1 .. n : j = Shifted(ij, k)
  <2>1. CASE j < a
    <3>1. j \in 1 .. n /\ j = Shifted(ij, j)
      BY <1>1, <2>1 DEF Shifted, Moved, a, b
    <3> QED BY <3>1
  <2>2. CASE a < j /\ j < b
    <3>1. j - 1 \in 1 .. n /\ j = Shifted(ij, j - 1)
      BY <1>1, <2>2 DEF Shifted, Moved, a, b
    <3> QED BY <3>1
  <2>3. CASE b < j
    <3>1. j - 2 \in 1 .. n /\ j = Shifted(ij, j - 2)
      BY <1>1, <2>3 DEF Shifted, Moved, a, b
    <3> QED BY <3>1
  <2> QED BY <1>1, <1>8, <2>1, <2>2, <2>3
<1> QED BY <1>1, <1>4, <1>5, <1>6, <1>7, <1>8 DEF Proposed, PutInto, n, a, b, m, q, in, out

-----------------------------------------------------------------------------
(* comparePlans is a strict order, so that there is a best plan.           *)
AnyStop == [member : Nat, pickup : BOOLEAN, point : Nat]
Comparable(plan) ==
  /\ plan.score \in Int /\ plan.metrics.added \in Int /\ plan.metrics.wait \in Int
  /\ plan.created \in Int /\ plan.pool \in Int
  /\ plan.stops \in Seq(AnyStop)

RankBefore(x, y) == \E i \in 1..5 : (\A k \in 1..(i - 1) : x[k] = y[k]) /\ x[i] < y[i]

LEMMA RankType ==
  ASSUME NEW a, Comparable(a)
  PROVE  RankOf(a) \in [1..5 -> Int]
  BY DEF Comparable, RankOf

LEMMA RankOrder ==
  /\ \A x \in [1..5 -> Int] : ~RankBefore(x, x)
  /\ \A x, y, z \in [1..5 -> Int] : RankBefore(x, y) /\ RankBefore(y, z) => RankBefore(x, z)
<1>1. ASSUME NEW x \in [1..5 -> Int] PROVE ~RankBefore(x, x)
  BY DEF RankBefore
<1>2. ASSUME NEW x \in [1..5 -> Int], NEW y \in [1..5 -> Int], NEW z \in [1..5 -> Int],
             RankBefore(x, y), RankBefore(y, z)
      PROVE  RankBefore(x, z)
  <2>1. PICK i \in 1..5 : (\A k \in 1..(i - 1) : x[k] = y[k]) /\ x[i] < y[i]
    BY <1>2 DEF RankBefore
  <2>2. PICK j \in 1..5 : (\A k \in 1..(j - 1) : y[k] = z[k]) /\ y[j] < z[j]
    BY <1>2 DEF RankBefore
  <2>3. CASE i <= j
    <3>1. \A k \in 1..(i - 1) : x[k] = z[k]
      BY <2>1, <2>2, <2>3
    <3>2. x[i] < z[i]
      <4>1. i = j \/ i \in 1..(j - 1)
        BY <2>3
      <4>2. y[i] = z[i] \/ (i = j /\ y[i] < z[i])
        BY <2>2, <4>1
      <4>3. x[i] \in Int /\ y[i] \in Int /\ z[i] \in Int
        OBVIOUS
      <4> QED BY <2>1, <4>2, <4>3
    <3> QED BY <3>1, <3>2 DEF RankBefore
  <2>4. CASE j < i
    <3>1. \A k \in 1..(j - 1) : x[k] = z[k]
      BY <2>1, <2>2, <2>4
    <3>2. x[j] = y[j]
      BY <2>1, <2>4
    <3> QED BY <2>2, <3>1, <3>2 DEF RankBefore
  <2> QED BY <2>3, <2>4
<1> QED BY <1>1, <1>2

LEMMA StopOrder ==
  /\ \A x \in AnyStop : ~StopBefore(x, x)
  /\ \A x, y, z \in AnyStop : StopBefore(x, y) /\ StopBefore(y, z) => StopBefore(x, z)
<1>1. \A x \in AnyStop : x.member \in Nat /\ x.pickup \in BOOLEAN /\ x.point \in Nat
  BY DEF AnyStop
<1>2. ASSUME NEW x \in AnyStop, NEW y \in AnyStop, NEW z \in AnyStop,
             StopBefore(x, y), StopBefore(y, z)
      PROVE  StopBefore(x, z)
  BY <1>1, <1>2 DEF StopBefore
<1> QED BY <1>1, <1>2 DEF StopBefore

LEMMA OrderOrder ==
  /\ \A s \in Seq(AnyStop) : ~OrderBefore(s, s)
  /\ \A s, t, u \in Seq(AnyStop) : OrderBefore(s, t) /\ OrderBefore(t, u) => OrderBefore(s, u)
<1> DEFINE stop == AnyStop
<1> HIDE DEF stop
<1>1. \A s \in Seq(stop) : /\ Len(s) \in Nat /\ DOMAIN s = 1..Len(s)
                           /\ \A i \in DOMAIN s : s[i] \in stop
  BY ElementOfSeq, LenProperties
<1>2. ASSUME NEW s \in Seq(stop) PROVE ~OrderBefore(s, s)
  BY <1>1, StopOrder DEF OrderBefore, stop
<1>3. ASSUME NEW s \in Seq(stop), NEW t \in Seq(stop), NEW u \in Seq(stop),
             OrderBefore(s, t), OrderBefore(t, u)
      PROVE  OrderBefore(s, u)
  <2>1. PICK i \in DOMAIN s \cap DOMAIN t :
          (\A k \in 1..(i - 1) : s[k] = t[k]) /\ StopBefore(s[i], t[i])
    BY <1>3 DEF OrderBefore
  <2>2. PICK j \in DOMAIN t \cap DOMAIN u :
          (\A k \in 1..(j - 1) : t[k] = u[k]) /\ StopBefore(t[j], u[j])
    BY <1>3 DEF OrderBefore
  <2>3. i \in Nat /\ j \in Nat /\ 1 <= i /\ 1 <= j /\ i <= Len(s) /\ j <= Len(u)
    BY <1>1
  <2>4. CASE i < j
    <3>1. i \in DOMAIN s \cap DOMAIN u
      BY <1>1, <2>3, <2>4
    <3>2. \A k \in 1..(i - 1) : s[k] = u[k]
      <4> TAKE k \in 1..(i - 1)
      <4>1. k \in 1..(j - 1)
        BY <2>3, <2>4
      <4> QED BY <2>1, <2>2, <4>1
    <3>3. t[i] = u[i]
      <4>1. i \in 1..(j - 1)
        BY <2>3, <2>4
      <4> QED BY <2>2, <4>1
    <3> QED BY <2>1, <3>1, <3>2, <3>3 DEF OrderBefore
  <2>5. CASE j < i
    <3>1. j \in DOMAIN s \cap DOMAIN u
      BY <1>1, <2>3, <2>5
    <3>2. \A k \in 1..(j - 1) : s[k] = u[k]
      <4> TAKE k \in 1..(j - 1)
      <4>1. k \in 1..(i - 1)
        BY <2>3, <2>5
      <4> QED BY <2>1, <2>2, <4>1
    <3>3. s[j] = t[j]
      <4>1. j \in 1..(i - 1)
        BY <2>3, <2>5
      <4> QED BY <2>1, <4>1
    <3> QED BY <2>2, <3>1, <3>2, <3>3 DEF OrderBefore
  <2>6. CASE i = j
    <3>1. s[i] \in stop /\ t[i] \in stop /\ u[i] \in stop
      BY <1>1, <2>6
    <3>2. StopBefore(s[i], u[i])
      BY <2>1, <2>2, <2>6, <3>1, StopOrder DEF stop
    <3>3. \A k \in 1..(i - 1) : s[k] = u[k]
      BY <2>1, <2>2, <2>6
    <3> QED BY <2>6, <3>2, <3>3 DEF OrderBefore
  <2> QED BY <2>3, <2>4, <2>5, <2>6
<1> QED BY <1>2, <1>3 DEF stop

(* bestPlan: a plan of the set that does least harm. *)
LEMMA BestIs ==
  ASSUME NEW plans, IsFiniteSet(plans), plans # {}, \A a \in plans : Comparable(a)
  PROVE  /\ BestOf(plans) \in plans
         /\ \A b \in plans : BestOf(plans).score <= b.score
<1> DEFINE R == {p \in plans \X plans : Better(p[1], p[2])}
<1>1. \A a, b \in plans : <<a, b>> \in R <=> Better(a, b)
  OBVIOUS
<1> HIDE DEF R
<1>2. \A a, b \in plans :
        Better(a, b) <=> \/ RankBefore(RankOf(a), RankOf(b))
                         \/ RankOf(a) = RankOf(b) /\ OrderBefore(a.stops, b.stops)
  BY DEF Better, RankBefore
<1>3. \A a \in plans : RankOf(a) \in [1..5 -> Int] /\ a.stops \in Seq(AnyStop)
  BY RankType DEF Comparable
<1>4. \A a \in plans : ~Better(a, a)
  BY <1>2, <1>3, RankOrder, OrderOrder
<1>5. ASSUME NEW a \in plans, NEW b \in plans, NEW c \in plans, Better(a, b), Better(b, c)
      PROVE  Better(a, c)
  <2>1. CASE RankBefore(RankOf(a), RankOf(b)) /\ RankBefore(RankOf(b), RankOf(c))
    <3>1. RankBefore(RankOf(a), RankOf(c))
      BY <1>3, <2>1, RankOrder
    <3> QED BY <1>2, <3>1
  <2>2. CASE RankOf(a) = RankOf(b) \/ RankOf(b) = RankOf(c)
    <3>1. CASE RankBefore(RankOf(a), RankOf(c))
      BY <1>2, <3>1
    <3>2. CASE ~RankBefore(RankOf(a), RankOf(c))
      <4>1. RankOf(a) = RankOf(b) /\ RankOf(b) = RankOf(c)
        BY <1>2, <1>3, <1>5, <2>2, <3>2, RankOrder
      <4>2. OrderBefore(a.stops, b.stops) /\ OrderBefore(b.stops, c.stops)
        BY <1>2, <1>3, <1>5, <4>1, RankOrder
      <4>3. OrderBefore(a.stops, c.stops)
        BY <1>3, <4>2, OrderOrder
      <4> QED BY <1>2, <4>1, <4>3
    <3> QED BY <3>1, <3>2
  <2> QED BY <1>2, <1>5, <2>1, <2>2
<1>6. \E a \in plans : \A b \in plans : <<b, a>> \notin R
  <2>1. \A a \in plans : <<a, a>> \notin R
    BY <1>1, <1>4
  <2>2. \A a, b, c \in plans : <<a, b>> \in R /\ <<b, c>> \in R => <<a, c>> \in R
    BY <1>1, <1>5
  <2> QED BY <2>1, <2>2, LeastExists, Zenon
<1>7. BestOf(plans) \in plans /\ \A b \in plans : ~Better(b, BestOf(plans))
  BY <1>1, <1>6 DEF BestOf
<1>8. ASSUME NEW b \in plans PROVE BestOf(plans).score <= b.score
  <2> DEFINE a == BestOf(plans)
  <2>1. ~RankBefore(RankOf(b), RankOf(a))
    BY <1>2, <1>7
  <2>2. RankOf(a)[1] = a.score /\ RankOf(b)[1] = b.score
    BY DEF RankOf
  <2>3. a.score \in Int /\ b.score \in Int
    BY <1>7 DEF Comparable
  <2> HIDE DEF a
  <2>4. ~(RankOf(b)[1] < RankOf(a)[1])
    BY <2>1 DEF RankBefore
  <2> QED BY <2>2, <2>3, <2>4 DEF a
<1> QED BY <1>7, <1>8

-----------------------------------------------------------------------------
(* The rewrite of the stops: each statement puts one stop into its place,  *)
(* and the table holds what is already there and what is still away.       *)
SameKey(s, t) == s.member = t.member /\ s.pickup = t.pickup

Rewritable(old, new) ==
  /\ old \in Seq(AnyStop) /\ new \in Seq(AnyStop)
  /\ old # << >> /\ Len(new) <= SequenceOffset
  /\ \A i, j \in DOMAIN new : SameKey(new[i], new[j]) => i = j
  /\ \A i \in DOMAIN new : ~new[i].pickup =>
       \E j \in DOMAIN new : j < i /\ new[j].member = new[i].member /\ new[j].pickup
  /\ \A k \in DOMAIN old : \E i \in DOMAIN new : SameKey(old[k], new[i])

Away(old, new, done) == {k \in DOMAIN old : \A i \in done : ~SameKey(old[k], new[i])}
Halfway(old, new, done) ==
  {Row(new[i], i) : i \in done} \cup
  {Row(old[k], k + SequenceOffset) : k \in Away(old, new, done)}

LEMMA HalfwayUnique ==
  ASSUME NEW old, NEW new, Rewritable(old, new), NEW done \in SUBSET DOMAIN new,
         NEW v \in Halfway(old, new, done), NEW w \in Halfway(old, new, done),
         v.sequence = w.sequence
  PROVE  v = w
<1>1. DOMAIN old = 1..Len(old) /\ DOMAIN new = 1..Len(new) /\ Len(old) \in Nat /\ Len(new) \in Nat
  <2> DEFINE stop == AnyStop
  <2> HIDE DEF stop
  <2>1. old \in Seq(stop) /\ new \in Seq(stop)
    BY DEF Rewritable, stop
  <2> QED BY <2>1, LenProperties
<1>2. Len(new) <= SequenceOffset
  BY DEF Rewritable
<1>3. \A i \in done : i \in Nat /\ i <= SequenceOffset
  BY <1>1, <1>2 DEF SequenceOffset
<1>4. \A k \in Away(old, new, done) : k \in Nat /\ k > 0
  BY <1>1 DEF Away
<1>5. (\E i \in done : v = Row(new[i], i)) \/
      (\E k \in Away(old, new, done) : v = Row(old[k], k + SequenceOffset))
  BY DEF Halfway
<1>6. (\E i \in done : w = Row(new[i], i)) \/
      (\E k \in Away(old, new, done) : w = Row(old[k], k + SequenceOffset))
  BY DEF Halfway
<1>7. ASSUME NEW i \in done, NEW k \in Away(old, new, done) PROVE i # k + SequenceOffset
  BY <1>3, <1>4 DEF SequenceOffset
<1>8. ASSUME NEW k \in Away(old, new, done), NEW l \in Away(old, new, done),
             k + SequenceOffset = l + SequenceOffset
      PROVE  k = l
  BY <1>4, <1>8 DEF SequenceOffset
<1>9. \A s, i : Row(s, i).sequence = i
  BY DEF Row
<1> QED BY <1>5, <1>6, <1>7, <1>8, <1>9

LEMMA WriteNext ==
  ASSUME NEW old, NEW new, Rewritable(old, new), NEW done \in SUBSET DOMAIN new,
         NEW i \in DOMAIN new, i \notin done,
         ~new[i].pickup => \E j \in done : j < i /\ new[j].member = new[i].member /\ new[j].pickup
  PROVE  /\ Halfway(old, new, done) # Refused
         /\ WriteAccepted(Halfway(old, new, done), Row(new[i], i))
         /\ Write(Halfway(old, new, done), Row(new[i], i)) = Halfway(old, new, done \cup {i})
<1> DEFINE row == Row(new[i], i)
           table == Halfway(old, new, done)
           next == Halfway(old, new, done \cup {i})
           away == Away(old, new, done)
           left == Away(old, new, done \cup {i})
<1>1. \A s, j : /\ Row(s, j).member = s.member /\ Row(s, j).pickup = s.pickup
                /\ Row(s, j).sequence = j
  BY DEF Row
<1>2. \A j \in done : ~SameKey(new[j], new[i])
  BY DEF Rewritable
<1>3. left = {k \in away : ~SameKey(old[k], new[i])}
  BY DEF Away
<1>4. Write(table, row) = next
  <2>1. \A w \in table : ~(w.member = row.member /\ w.pickup = row.pickup) => w \in next
    <3> TAKE w \in table
    <3>1. HAVE ~(w.member = row.member /\ w.pickup = row.pickup)
    <3>2. CASE \E j \in done : w = Row(new[j], j)
      BY <3>2 DEF Halfway
    <3>3. CASE \E k \in away : w = Row(old[k], k + SequenceOffset)
      <4>1. PICK k \in away : w = Row(old[k], k + SequenceOffset)
        BY <3>3
      <4>2. ~SameKey(old[k], new[i])
        BY <1>1, <3>1, <4>1 DEF SameKey
      <4>3. k \in left
        BY <1>3, <4>2
      <4> QED BY <4>1, <4>3 DEF Halfway
    <3> QED BY <3>2, <3>3 DEF Halfway
  <2>2. row \in next
    BY DEF Halfway
  <2>3. ASSUME NEW w \in next
        PROVE  w = row \/ (w \in table /\ ~(w.member = row.member /\ w.pickup = row.pickup))
    <3>1. CASE \E j \in done \cup {i} : w = Row(new[j], j)
      <4>1. PICK j \in done \cup {i} : w = Row(new[j], j)
        BY <3>1
      <4>2. CASE j \in done
        BY <1>1, <1>2, <4>1, <4>2 DEF Halfway, SameKey
      <4> QED BY <4>1, <4>2
    <3>2. CASE \E k \in left : w = Row(old[k], k + SequenceOffset)
      <4>1. PICK k \in left : w = Row(old[k], k + SequenceOffset)
        BY <3>2
      <4>2. k \in away /\ ~SameKey(old[k], new[i])
        BY <1>3
      <4> QED BY <1>1, <4>1, <4>2 DEF Halfway, SameKey
    <3> QED BY <3>1, <3>2 DEF Halfway
  <2> HIDE DEF table, row, next
  <2> QED BY <2>1, <2>2, <2>3 DEF Write
<1>5. \A v, w \in next : v.sequence = w.sequence => v = w
  <2>1. done \cup {i} \in SUBSET DOMAIN new
    OBVIOUS
  <2> QED BY <2>1, HalfwayUnique
<1>6. ~row.pickup => \E w \in next : w.member = row.member /\ w.pickup /\ w.sequence < row.sequence
  <2>1. HAVE ~row.pickup
  <2>2. PICK j \in done : j < i /\ new[j].member = new[i].member /\ new[j].pickup
    BY <1>1, <2>1
  <2>3. Row(new[j], j) \in next
    BY DEF Halfway
  <2> QED BY <1>1, <2>2, <2>3
<1>7. table # {}
  <2>1. CASE done # {}
    BY <2>1 DEF Halfway
  <2>2. CASE done = {}
    <3>1. DOMAIN old # {}
      <4> DEFINE stop == AnyStop
      <4> HIDE DEF stop
      <4>1. old \in Seq(stop) /\ old # << >>
        BY DEF Rewritable, stop
      <4>2. Len(old) # 0 /\ Len(old) \in Nat /\ DOMAIN old = 1..Len(old)
        BY <4>1, EmptySeq, LenProperties
      <4>3. 1 \in DOMAIN old
        BY <4>2
      <4> QED BY <4>3
    <3>2. away = DOMAIN old
      BY <2>2 DEF Away
    <3> QED BY <3>1, <3>2 DEF Halfway
  <2> QED BY <2>1, <2>2
<1> HIDE DEF table, row, next
<1>8. WriteAccepted(table, row)
  BY <1>4, <1>5, <1>6 DEF WriteAccepted
<1> QED BY <1>4, <1>7, <1>8 DEF Refused, table, row, next

(* One pass over some of the rows. *)
LEMMA WrittenIs ==
  ASSUME NEW old, NEW new, Rewritable(old, new),
         NEW done \in SUBSET DOMAIN new, NEW chosen \in SUBSET DOMAIN new, done \cap chosen = {},
         \A i \in chosen : ~new[i].pickup =>
           \E j \in done \cup chosen : j < i /\ new[j].member = new[i].member /\ new[j].pickup
  PROVE  Written(Halfway(old, new, done), [i \in DOMAIN new |-> Row(new[i], i)], chosen)
           = Halfway(old, new, done \cup chosen)
<1> DEFINE n == Len(new)
           rows == [i \in DOMAIN new |-> Row(new[i], i)]
           So(i) == done \cup {j \in chosen : j <= i}
           next(i, t) == IF t # Refused /\ WriteAccepted(t, rows[i]) THEN Write(t, rows[i])
                         ELSE Refused
           start == Halfway(old, new, done)
           Walk(g) == g = [i \in 0..n |-> IF i = 0 THEN start
                                          ELSE IF i \notin chosen THEN g[i - 1]
                                          ELSE next(i, g[i - 1])]
           h == [i \in 0..n |-> Halfway(old, new, So(i))]
<1>1. n \in Nat /\ DOMAIN new = 1..n
  <2> DEFINE stop == AnyStop
  <2> HIDE DEF stop
  <2>1. new \in Seq(stop)
    BY DEF Rewritable, stop
  <2> QED BY <2>1, LenProperties
<1>2. Len(rows) = n
  BY <1>1
<1>3. So(0) = done /\ So(n) = done \cup chosen
  BY <1>1
<1>4. ASSUME NEW i \in 1..n, i \notin chosen PROVE So(i) = So(i - 1)
  <2>1. \A j \in chosen : j <= i <=> j <= i - 1
    BY <1>1, <1>4
  <2> QED BY <2>1
<1>5. ASSUME NEW i \in 1..n, i \in chosen
      PROVE  next(i, Halfway(old, new, So(i - 1))) = Halfway(old, new, So(i))
  <2>1. \A j \in chosen : j <= i <=> j <= i - 1 \/ j = i
    BY <1>1, <1>5
  <2>2. So(i) = So(i - 1) \cup {i}
    BY <1>5, <2>1
  <2>3. So(i - 1) \in SUBSET DOMAIN new /\ i \in DOMAIN new /\ i \notin So(i - 1)
    BY <1>1, <1>5
  <2>4. ~new[i].pickup => \E j \in So(i - 1) : j < i /\ new[j].member = new[i].member /\ new[j].pickup
    <3>1. HAVE ~new[i].pickup
    <3>2. PICK j \in done \cup chosen : j < i /\ new[j].member = new[i].member /\ new[j].pickup
      BY <1>5, <3>1
    <3>3. j \in So(i - 1)
      BY <1>1, <3>2
    <3> QED BY <3>2, <3>3
  <2> HIDE DEF So
  <2>5. /\ Halfway(old, new, So(i - 1)) # Refused
        /\ WriteAccepted(Halfway(old, new, So(i - 1)), Row(new[i], i))
        /\ Write(Halfway(old, new, So(i - 1)), Row(new[i], i))
             = Halfway(old, new, So(i - 1) \cup {i})
    BY <2>3, <2>4, WriteNext
  <2>6. rows[i] = Row(new[i], i)
    BY <2>3
  <2> HIDE DEF rows
  <2> QED BY <2>2, <2>5, <2>6
<1> HIDE DEF rows, So, next
<1>6. Walk(h)
  <2>1. ASSUME NEW i \in 0..n
        PROVE  h[i] = IF i = 0 THEN start ELSE IF i \notin chosen THEN h[i - 1] ELSE next(i, h[i - 1])
    <3>1. i # 0 => i \in 1..n /\ i - 1 \in 0..n
      BY <1>1
    <3> QED BY <1>3, <1>4, <1>5, <3>1
  <2>2. DOMAIN h = 0..n
    OBVIOUS
  <2>3. h = [i \in 0..n |-> h[i]]
    OBVIOUS
  <2> HIDE DEF h
  <2> QED BY <2>1, <2>3
<1> DEFINE w == CHOOSE g : Walk(g)
<1>7. Walk(w)
  <2> HIDE DEF h, Walk
  <2> QED BY <1>6
<1>8. w[n] = h[n]
  <2> HIDE DEF w
  <2> DEFINE G == {k \in Nat : k <= n => w[k] = h[k]}
  <2>1. 0 \in G
    BY <1>3, <1>7, <1>1
  <2>2. ASSUME NEW k \in Nat, k \in G PROVE k + 1 \in G
    <3> SUFFICES ASSUME k + 1 <= n PROVE w[k + 1] = h[k + 1]
      OBVIOUS
    <3>1. k + 1 \in 0..n /\ k + 1 # 0 /\ (k + 1) - 1 = k /\ k \in 0..n
      BY <1>1
    <3>2. w[k] = h[k]
      BY <2>2, <3>1
    <3>3. \A g : Walk(g) => g[k + 1] = IF k + 1 \notin chosen THEN g[k] ELSE next(k + 1, g[k])
      BY <3>1
    <3> HIDE DEF h, Walk
    <3> QED BY <1>6, <1>7, <3>2, <3>3
  <2>3. n \in G
    <3> HIDE DEF G
    <3> QED BY <1>1, <2>1, <2>2, NatByInduction
  <2> QED BY <2>3
<1>9. Written(start, rows, chosen) = w[n]
  <2>1. \A rs : Len(rs) = n => Written(start, rs, chosen) =
          (CHOOSE g : g = [i \in 0..n |-> IF i = 0 THEN start
                                          ELSE IF i \notin chosen THEN g[i - 1]
                                          ELSE IF g[i - 1] # Refused /\ WriteAccepted(g[i - 1], rs[i])
                                               THEN Write(g[i - 1], rs[i]) ELSE Refused])[n]
    BY DEF Written
  <2> QED BY <1>2, <2>1 DEF next
<1>10. h[n] = Halfway(old, new, done \cup chosen)
  <2>1. n \in 0..n
    BY <1>1
  <2> HIDE DEF n
  <2>2. h[n] = Halfway(old, new, So(n))
    BY <2>1
  <2> QED BY <1>3, <2>2
<1> HIDE DEF w, h
<1> QED BY <1>8, <1>9, <1>10 DEF rows

(* addMemberToPool: nothing is refused, and the plan is what is stored. *)
LEMMA RewriteIs ==
  ASSUME NEW old, NEW new, Rewritable(old, new), NEW r
  PROVE  Rewrite(RowsOf(old), new, r) = RowsOf(new)
<1> DEFINE rows == [i \in DOMAIN new |-> Row(new[i], i)]
           first == NewRows(rows, r)
           moved == {[w EXCEPT !.sequence = @ + SequenceOffset] : w \in RowsOf(old)}
<1>1. \A s, i : [Row(s, i) EXCEPT !.sequence = @ + SequenceOffset] = Row(s, i + SequenceOffset)
  BY DEF Row
<1>2. moved = Halfway(old, new, {})
  <2>1. Halfway(old, new, {}) = {Row(old[k], k + SequenceOffset) : k \in DOMAIN old}
    BY DEF Halfway, Away
  <2> DEFINE put(w) == [w EXCEPT !.sequence = @ + SequenceOffset]
  <2>2. moved = {put(Row(old[k], k)) : k \in DOMAIN old}
    BY DEF RowsOf
  <2>3. \A k : put(Row(old[k], k)) = Row(old[k], k + SequenceOffset)
    BY <1>1
  <2> HIDE DEF put, moved
  <2> QED BY <2>1, <2>2, <2>3
<1>3. DOMAIN rows = DOMAIN new /\ \A i \in DOMAIN new : rows[i].member = new[i].member
  BY DEF Row
<1>4. first = {i \in DOMAIN new : new[i].member = r} /\ OldRows(rows, r) = DOMAIN new \ first
  BY <1>3 DEF NewRows, OldRows
<1>5. \A i \in DOMAIN new : ~new[i].pickup =>
        \E j \in DOMAIN new : j < i /\ new[j].member = new[i].member /\ new[j].pickup
  BY DEF Rewritable
<1> HIDE DEF first
<1>6. Written(Halfway(old, new, {}), rows, first) = Halfway(old, new, first)
  <2>1. \A i \in first : ~new[i].pickup =>
          \E j \in {} \cup first : j < i /\ new[j].member = new[i].member /\ new[j].pickup
    BY <1>4, <1>5
  <2>2. {} \in SUBSET DOMAIN new /\ first \in SUBSET DOMAIN new /\ {} \cap first = {} /\ {} \cup first = first
    BY <1>4
  <2>3. Written(Halfway(old, new, {}), rows, first) = Halfway(old, new, {} \cup first)
    BY <2>1, <2>2, WrittenIs
  <2> QED BY <2>2, <2>3
<1>7. Written(Halfway(old, new, first), rows, DOMAIN new \ first) = Halfway(old, new, DOMAIN new)
  <2> DEFINE rest == DOMAIN new \ first
  <2>1. \A i \in rest : ~new[i].pickup =>
          \E j \in first \cup rest : j < i /\ new[j].member = new[i].member /\ new[j].pickup
    BY <1>5
  <2>2. first \in SUBSET DOMAIN new /\ rest \in SUBSET DOMAIN new /\ first \cap rest = {}
        /\ first \cup rest = DOMAIN new
    BY <1>4
  <2> HIDE DEF rest
  <2>3. Written(Halfway(old, new, first), rows, rest) = Halfway(old, new, first \cup rest)
    BY <2>1, <2>2, WrittenIs
  <2> QED BY <2>2, <2>3 DEF rest
<1>8. Away(old, new, DOMAIN new) = {}
  BY DEF Rewritable, Away
<1>9. Halfway(old, new, DOMAIN new) = RowsOf(new)
  BY <1>8 DEF Halfway, RowsOf
<1> HIDE DEF rows, moved
<1>10. Rewrite(RowsOf(old), new, r) = Written(Written(moved, rows, first), rows, OldRows(rows, r))
  BY DEF Rewrite, rows, moved, first
<1> QED BY <1>2, <1>4, <1>6, <1>7, <1>9, <1>10

(* lockPoolStops reads back what was written. *)
LEMMA OrderedStopsAre ==
  ASSUME NEW stops \in Seq(AnyStop)
  PROVE  OrderedStops(RowsOf(stops)) = stops
<1> DEFINE n == Len(stops)
           table == RowsOf(stops)
           Below(i) == {v \in table : v.sequence <= i}
<1>1. n \in Nat /\ DOMAIN stops = 1..n /\ \A i \in 1..n : stops[i] \in AnyStop
  <2> DEFINE stop == AnyStop
  <2> HIDE DEF stop
  <2>1. stops \in Seq(stop)
    BY DEF stop
  <2> QED BY <2>1, LenProperties, ElementOfSeq DEF stop
<1>2. \A s, i : Row(s, i).sequence = i
  BY DEF Row
<1> HIDE DEF n
<1>3. table = {Row(stops[i], i) : i \in 1..n}
  BY <1>1 DEF RowsOf
<1> HIDE DEF table
<1>4. ASSUME NEW i \in 0..n PROVE Cardinality(Below(i)) = i
  <2> DEFINE f == [j \in 1..i |-> Row(stops[j], j)]
  <2>1. ExistsBijection(1..i, Below(i))
    <3>1. \A j \in 1..i : f[j] \in Below(i)
      BY <1>1, <1>2, <1>3
    <3>2. \A j, k \in 1..i : f[j] = f[k] => j = k
      BY <1>2
    <3>3. \A w \in Below(i) : \E j \in 1..i : f[j] = w
      <4> TAKE w \in Below(i)
      <4>1. PICK j \in 1..n : w = Row(stops[j], j)
        BY <1>3
      <4>2. j <= i
        BY <1>2, <4>1
      <4>3. j \in 1..i
        BY <1>1, <4>2
      <4> QED BY <4>1, <4>3
    <3>4. DOMAIN f = 1..i
      OBVIOUS
    <3>5. f \in [1..i -> Below(i)]
      BY <3>1
    <3> HIDE DEF f, Below
    <3> QED BY <3>2, <3>3, <3>4, <3>5
            DEF ExistsBijection, Bijection, Injection, Surjection, IsInjective
  <2>2. IsFiniteSet(1..i) /\ Cardinality(1..i) = i
    <3>1. i \in Int /\ 1 \in Int /\ i \in Nat
      BY <1>1
    <3>2. Cardinality(1..i) = IF 1 > i THEN 0 ELSE i - 1 + 1
      BY <3>1, FS_Interval
    <3> QED BY <3>1, <3>2, FS_Interval
  <2>3. Cardinality(1..i) = Cardinality(Below(i))
    <3> HIDE DEF Below, f
    <3> QED BY <2>1, <2>2, FS_Bijection
  <2> QED BY <2>2, <2>3
<1>5. Cardinality(table) = n
  <2>1. Below(n) = table
    BY <1>1, <1>2, <1>3
  <2>2. n \in 0..n
    BY <1>1
  <2> QED BY <1>4, <2>1, <2>2
<1>6. ASSUME NEW i \in 1..n
      PROVE  (CHOOSE w \in table : Cardinality({v \in table : v.sequence <= w.sequence}) = i)
               = Row(stops[i], i)
  <2>1. ASSUME NEW w \in table PROVE Cardinality({v \in table : v.sequence <= w.sequence}) = w.sequence
    <3>1. w.sequence \in 0..n
      BY <1>1, <1>2, <1>3
    <3> QED BY <1>4, <3>1
  <2>2. \A w \in table : w.sequence = i => w = Row(stops[i], i)
    BY <1>2, <1>3
  <2>3. Row(stops[i], i) \in table /\ Row(stops[i], i).sequence = i
    BY <1>2, <1>3
  <2> QED BY <2>1, <2>2, <2>3
<1>7. \A i \in 1..n : LET w == Row(stops[i], i) IN Stop(w.member, w.pickup, w.point) = stops[i]
  BY <1>1 DEF AnyStop, Row, Stop
<1>8. OrderedStops(table) = [i \in 1..n |-> stops[i]]
  BY <1>5, <1>6, <1>7 DEF OrderedStops
<1>9. stops = [i \in 1..n |-> stops[i]]
  <2> DEFINE stop == AnyStop
  <2> HIDE DEF stop
  <2>1. stops \in Seq(stop) /\ n = Len(stops)
    BY DEF stop, n
  <2> QED BY <2>1, LenProperties
<1> QED BY <1>8, <1>9 DEF table

-----------------------------------------------------------------------------
(* Plans.                                                                  *)
LEMMA ImageFinite ==
  ASSUME NEW S, IsFiniteSet(S), NEW T, NEW f \in [S -> T]
  PROVE  IsFiniteSet({f[x] : x \in S})
<1> DEFINE U == {f[x] : x \in S}
<1>1. f \in [S -> U] /\ \A u \in U : \E x \in S : f[x] = u
  OBVIOUS
<1> HIDE DEF U
<1>2. f \in Surjection(S, U)
  BY <1>1 DEF Surjection
<1>3. IsFiniteSet(U)
  BY <1>2, FS_Surjection
<1> QED BY <1>3 DEF U

RideStop == [member : Rides, pickup : BOOLEAN, point : Points]
PlanStop == [member : Rides \cup {NewMember}, pickup : BOOLEAN, point : Points]

(* Everybody gets in once and out once, in that order. *)
Paired(stops) ==
  /\ \A i, j \in DOMAIN stops : SameKey(stops[i], stops[j]) => i = j
  /\ \A i \in DOMAIN stops : ~stops[i].pickup =>
       \E j \in DOMAIN stops : j < i /\ stops[j].member = stops[i].member /\ stops[j].pickup
  /\ \A i \in DOMAIN stops : stops[i].pickup =>
       \E j \in DOMAIN stops : i < j /\ stops[j].member = stops[i].member /\ ~stops[j].pickup

LEMMA SequenceParts ==
  ASSUME NEW S, NEW s \in Seq(S)
  PROVE  /\ Len(s) \in Nat /\ DOMAIN s = 1..Len(s) /\ \A i \in DOMAIN s : s[i] \in S
         /\ s = [i \in 1..Len(s) |-> s[i]]
  BY LenProperties, ElementOfSeq

LEMMA StopSets ==
  /\ RideStop \subseteq PlanStop /\ PlanStop \subseteq AnyStop
  /\ NewMember \notin Rides /\ Rides \subseteq Nat /\ Points \subseteq Nat
  /\ \A s \in RideStop : s.member \in Rides /\ s.pickup \in BOOLEAN /\ s.point \in Points
  /\ \A s \in PlanStop : /\ s.member \in Rides \cup {NewMember} /\ s.pickup \in BOOLEAN
                         /\ s.point \in Points
<1>1. NewMember \notin Rides /\ Rides \subseteq Nat /\ Points \subseteq Nat /\ NewMember \in Nat
  BY JoinSearchAssumption DEF NewMember
<1> HIDE DEF Points
<1> QED BY <1>1 DEF RideStop, PlanStop, AnyStop

LEMMA FitsIsPaired ==
  ASSUME NEW stops \in Seq(PlanStop), NEW capacity, Fits(stops, capacity)
  PROVE  Paired(stops)
<1>1. DOMAIN stops \subseteq Nat /\ \A i \in DOMAIN stops : stops[i].pickup \in BOOLEAN
  BY SequenceParts, StopSets
<1>2. ASSUME NEW i \in DOMAIN stops
      PROVE  \E j \in DOMAIN stops \ {i} :
               /\ {k \in DOMAIN stops \ {i} : stops[k].member = stops[i].member} = {j}
               /\ stops[j].pickup = ~stops[i].pickup
               /\ IF stops[i].pickup THEN i < j ELSE j < i
  BY DEF Fits
<1>3. ASSUME NEW i \in DOMAIN stops, NEW k \in DOMAIN stops, SameKey(stops[i], stops[k])
      PROVE  i = k
  <2> SUFFICES ASSUME i # k PROVE FALSE
    OBVIOUS
  <2>1. PICK j \in DOMAIN stops \ {i} :
          /\ {l \in DOMAIN stops \ {i} : stops[l].member = stops[i].member} = {j}
          /\ stops[j].pickup = ~stops[i].pickup
    BY <1>2
  <2>2. k = j
    BY <1>3, <2>1 DEF SameKey
  <2> QED BY <1>1, <1>3, <2>1, <2>2 DEF SameKey
<1>4. ASSUME NEW i \in DOMAIN stops
      PROVE  \E j \in DOMAIN stops : /\ stops[j].member = stops[i].member
                                     /\ stops[j].pickup = ~stops[i].pickup
                                     /\ IF stops[i].pickup THEN i < j ELSE j < i
  BY <1>2
<1>5. ASSUME NEW i \in DOMAIN stops, ~stops[i].pickup
      PROVE  \E j \in DOMAIN stops : j < i /\ stops[j].member = stops[i].member /\ stops[j].pickup
  BY <1>4, <1>5
<1>6. ASSUME NEW i \in DOMAIN stops, stops[i].pickup
      PROVE  \E j \in DOMAIN stops : i < j /\ stops[j].member = stops[i].member /\ ~stops[j].pickup
  BY <1>4, <1>6
<1> QED BY <1>3, <1>5, <1>6 DEF Paired

LEMMA PlaceIs ==
  ASSUME NEW stops, Paired(stops), NEW m \in MembersOf(stops), NEW b \in BOOLEAN,
         \A i \in DOMAIN stops : stops[i].pickup \in BOOLEAN
  PROVE  /\ PlaceOf(stops, m, b) \in DOMAIN stops
         /\ stops[PlaceOf(stops, m, b)].member = m /\ stops[PlaceOf(stops, m, b)].pickup = b
         /\ \A i \in DOMAIN stops :
              stops[i].member = m /\ stops[i].pickup = b => PlaceOf(stops, m, b) = i
<1>1. PICK i \in DOMAIN stops : stops[i].member = m
  BY DEF MembersOf
<1>2. \E j \in DOMAIN stops : stops[j].member = m /\ stops[j].pickup = b
  BY <1>1 DEF Paired
<1>3. /\ PlaceOf(stops, m, b) \in DOMAIN stops
      /\ stops[PlaceOf(stops, m, b)].member = m /\ stops[PlaceOf(stops, m, b)].pickup = b
  BY <1>2 DEF PlaceOf
<1> QED BY <1>3 DEF Paired, SameKey

(* The proposal's stops under the newcomer's name. *)
LEMMA NamedIs ==
  ASSUME NEW stops \in Seq(PlanStop), Paired(stops), NEW r \in Rides, r \notin MembersOf(stops),
         NewMember \in MembersOf(stops)
  PROVE  /\ Named(stops, r) \in Seq(RideStop) /\ Len(Named(stops, r)) = Len(stops)
         /\ Paired(Named(stops, r))
         /\ MembersOf(Named(stops, r)) = (MembersOf(stops) \ {NewMember}) \cup {r}
         /\ \A b \in BOOLEAN :
              /\ PlaceOf(Named(stops, r), r, b) = PlaceOf(stops, NewMember, b)
              /\ \A m \in MembersOf(stops) \ {NewMember} :
                   PlaceOf(Named(stops, r), m, b) = PlaceOf(stops, m, b)
         /\ \A i \in DOMAIN stops : stops[i].member # NewMember => Named(stops, r)[i] = stops[i]
<1> DEFINE n == Len(stops)
           named == Named(stops, r)
           Name(m) == IF m = NewMember THEN r ELSE m
<1>1. n \in Nat /\ DOMAIN stops = 1..n /\ \A i \in 1..n : stops[i] \in PlanStop
  BY SequenceParts
<1>2. \A s \in PlanStop : s.member = NewMember =>
        /\ [s EXCEPT !.member = r] \in RideStop /\ [s EXCEPT !.member = r].member = r
        /\ [s EXCEPT !.member = r].pickup = s.pickup
  BY DEF PlanStop, RideStop
<1>3. \A s \in PlanStop : s.member # NewMember => s \in RideStop
  BY DEF PlanStop, RideStop
<1> HIDE DEF n
<1>4. /\ DOMAIN named = 1..n
      /\ \A i \in 1..n : /\ named[i] \in RideStop
                         /\ named[i].member = Name(stops[i].member)
                         /\ named[i].pickup = stops[i].pickup
                         /\ stops[i].member # NewMember => named[i] = stops[i]
  BY <1>1, <1>2, <1>3 DEF Named
<1>5. named \in Seq(RideStop) /\ Len(named) = n
  <2>1. named = [i \in 1..n |-> named[i]]
    BY <1>1 DEF Named
  <2> DEFINE stop == RideStop
  <2> HIDE DEF named, stop
  <2>2. named \in [1..n -> stop]
    BY <1>4, <2>1 DEF stop
  <2> QED BY <1>1, <2>2 DEF stop
<1>6. \A m, o \in MembersOf(stops) : Name(m) = Name(o) => m = o
  OBVIOUS
<1>7. \A i \in 1..n : stops[i].member \in MembersOf(stops)
  BY <1>1 DEF MembersOf
<1> HIDE DEF named
<1>8. \A i, j \in 1..n : named[i].member = named[j].member <=> stops[i].member = stops[j].member
  BY <1>4, <1>6, <1>7
<1> HIDE DEF Name
<1>9. Paired(named)
  <2>1. /\ \A i, j \in 1..n : SameKey(stops[i], stops[j]) => i = j
        /\ \A i \in 1..n : ~stops[i].pickup =>
             \E j \in 1..n : j < i /\ stops[j].member = stops[i].member /\ stops[j].pickup
        /\ \A i \in 1..n : stops[i].pickup =>
             \E j \in 1..n : i < j /\ stops[j].member = stops[i].member /\ ~stops[j].pickup
    BY <1>1 DEF Paired
  <2>2. \A i, j \in 1..n : SameKey(named[i], named[j]) => i = j
    BY <1>4, <1>8, <2>1 DEF SameKey
  <2>3. ASSUME NEW i \in 1..n, ~named[i].pickup
        PROVE  \E j \in 1..n : j < i /\ named[j].member = named[i].member /\ named[j].pickup
    <3>1. ~stops[i].pickup
      BY <1>4, <2>3
    <3>2. PICK j \in 1..n : j < i /\ stops[j].member = stops[i].member /\ stops[j].pickup
      BY <2>1, <3>1
    <3>3. named[j].member = named[i].member /\ named[j].pickup
      BY <1>4, <1>8, <3>2
    <3> QED BY <3>2, <3>3
  <2>4. \A i \in 1..n : named[i].pickup =>
          \E j \in 1..n : i < j /\ named[j].member = named[i].member /\ ~named[j].pickup
    BY <1>4, <1>8, <2>1
  <2> QED BY <1>4, <2>2, <2>3, <2>4 DEF Paired
<1>10. MembersOf(named) = {Name(m) : m \in MembersOf(stops)}
  BY <1>1, <1>4 DEF MembersOf
<1>11. MembersOf(named) = (MembersOf(stops) \ {NewMember}) \cup {r}
  BY <1>10 DEF Name
<1>12. ASSUME NEW b \in BOOLEAN, NEW m \in MembersOf(stops)
       PROVE  PlaceOf(named, Name(m), b) = PlaceOf(stops, m, b)
  <2> DEFINE i == PlaceOf(stops, m, b)
  <2>1. i \in 1..n /\ stops[i].member = m /\ stops[i].pickup = b
    <3>1. \A k \in DOMAIN stops : stops[k].pickup \in BOOLEAN
      BY <1>1, StopSets
    <3> QED BY <1>1, <3>1, PlaceIs
  <2> HIDE DEF i
  <2>2. named[i].member = Name(m) /\ named[i].pickup = b
    BY <1>4, <2>1
  <2>3. Name(m) \in MembersOf(named)
    BY <1>10
  <2>4. \A k \in DOMAIN named : named[k].pickup \in BOOLEAN
    BY <1>4, StopSets
  <2>5. PlaceOf(named, Name(m), b) = i
    <3> DEFINE o == Name(m)
    <3>1. o \in MembersOf(named) /\ i \in DOMAIN named /\ named[i].member = o /\ named[i].pickup = b
      BY <1>4, <2>1, <2>2, <2>3
    <3> HIDE DEF o
    <3> QED BY <1>9, <2>4, <3>1, PlaceIs DEF o
  <2> QED BY <2>5 DEF i
<1>13. Name(NewMember) = r /\ \A m \in MembersOf(stops) \ {NewMember} : Name(m) = m
  BY DEF Name
<1>14. ASSUME NEW b \in BOOLEAN
       PROVE  /\ PlaceOf(named, r, b) = PlaceOf(stops, NewMember, b)
              /\ \A m \in MembersOf(stops) \ {NewMember} : PlaceOf(named, m, b) = PlaceOf(stops, m, b)
  BY <1>12, <1>13
<1> QED BY <1>1, <1>4, <1>5, <1>9, <1>11, <1>14 DEF named, n

(* What division means. *)
LEMMA DividingUp ==
  ASSUME NEW n \in Int, NEW d \in Nat \ {0}
  PROVE  n \div d \in Int /\ n >= d * (n \div d)
<1>1. n \div d \in Int /\ n = d * (n \div d) + (n % d) /\ n % d \in 0..(d - 1)
  OBVIOUS
<1>2. d * (n \div d) \in Int
  BY <1>1
<1> QED BY <1>1, <1>2

(* A ratio within a limit, rounded up, is within it before the rounding.   *)
LEMMA RatioBounds ==
  ASSUME NEW promised \in Nat \ {0}, NEW time \in Int, NEW limit \in Int
  PROVE  /\ Ratio(promised, time) \in Int
         /\ Ratio(promised, time) <= limit => 100 * time <= limit * promised
<1> DEFINE n == -100 * time
           q == n \div promised
<1>1. n \in Int /\ q \in Int /\ n >= promised * q
  <2>1. n \in Int
    OBVIOUS
  <2> HIDE DEF n
  <2> QED BY <2>1, DividingUp
<1>2. Ratio(promised, time) = -q
  BY DEF Ratio
<1> HIDE DEF q
<1>3. ASSUME -q <= limit PROVE 100 * time <= limit * promised
  <2>1. q + limit \in Nat
    BY <1>1, <1>3
  <2>2. promised * (q + limit) >= 0
    BY <2>1
  <2>3. promised * (q + limit) = promised * q + limit * promised
    BY <1>1
  <2>4. promised * q \in Int /\ limit * promised \in Int /\ n = -(100 * time)
    BY <1>1
  <2> QED BY <1>1, <2>2, <2>3, <2>4
<1> QED BY <1>1, <1>2, <1>3

LEMMA LegTimeType ==
  ASSUME NEW at, NEW a \in Points, NEW b \in Points
  PROVE  /\ LegTime(TravelAt(at), a, b) \in Nat \cup {Unroutable}
         /\ LegTime(TravelAt(at), a, b) \in Int
         /\ a # b => TravelAt(at)[<<a, b>>] \in (Nat \ {0}) \cup {Unroutable}
<1>1. (at \in Rush) \in BOOLEAN
  OBVIOUS
<1>2. a # b => TravelAt(at)[<<a, b>>] \in (Nat \ {0}) \cup {Unroutable}
  BY <1>1, TravelAssumption DEF TravelAt
<1> QED BY <1>2 DEF LegTime, Unroutable

LEMMA LegsType ==
  ASSUME NEW at, NEW stops \in Seq(PlanStop)
  PROVE  Legs(TravelAt(at), stops) \in [1..(Len(stops) - 1) -> Int]
<1>1. Len(stops) \in Nat /\ \A i \in 1..Len(stops) : stops[i].point \in Points
  BY SequenceParts, StopSets
<1>2. \A i \in 1..(Len(stops) - 1) : i \in 1..Len(stops) /\ i + 1 \in 1..Len(stops)
  BY <1>1
<1>3. \A i \in 1..(Len(stops) - 1) : LegTime(TravelAt(at), stops[i].point, stops[i + 1].point) \in Int
  BY <1>1, <1>2, LegTimeType
<1> QED BY <1>3 DEF Legs

LEMMA ArrivalsAre ==
  ASSUME NEW n \in Nat, NEW legs \in [1..n -> Int], NEW approach \in Int, NEW at \in Int
  PROVE  /\ Arrivals(approach, legs, at) \in [1..(n + 1) -> Int]
         /\ \A i \in 1..(n + 1) :
              /\ Elapsed(legs)[i - 1] \in Int
              /\ Arrivals(approach, legs, at)[i] = at + approach + Elapsed(legs)[i - 1]
<1> DEFINE e == Elapsed(legs)
<1>1. e \in [0..n -> Int]
  BY ElapsedIs
<1>2. Len(legs) = n
  OBVIOUS
<1> HIDE DEF e
<1>3. \A i \in 1..(n + 1) : i - 1 \in 0..n
  OBVIOUS
<1>4. \A i \in 1..(n + 1) : e[i - 1] \in Int
  BY <1>1, <1>3
<1>5. Arrivals(approach, legs, at) = [i \in 1..(n + 1) |-> at + approach + e[i - 1]]
  BY <1>2 DEF Arrivals, e
<1> QED BY <1>4, <1>5 DEF e

LEMMA FunctionIsSequence ==
  ASSUME NEW S, NEW n \in Nat, NEW f \in [1..n -> S]
  PROVE  f \in Seq(S) /\ Len(f) = n /\ DOMAIN f = 1..n
  OBVIOUS

(* How long a passenger rides does not depend on when the plan starts.     *)
LEMMA PlaceIsThere ==
  ASSUME NEW stops \in Seq(PlanStop), Paired(stops), NEW m \in MembersOf(stops), NEW b \in BOOLEAN
  PROVE  Len(stops) - 1 \in Nat /\ PlaceOf(stops, m, b) \in 1..((Len(stops) - 1) + 1)
<1>1. \A k \in DOMAIN stops : stops[k].pickup \in BOOLEAN
  BY SequenceParts, StopSets
<1>2. PlaceOf(stops, m, b) \in DOMAIN stops
  BY <1>1, PlaceIs
<1>3. Len(stops) \in Nat /\ DOMAIN stops = 1..Len(stops)
  BY SequenceParts
<1> DEFINE n == Len(stops)
           i == PlaceOf(stops, m, b)
<1>4. n \in Nat /\ i \in 1..n
  BY <1>2, <1>3
<1> HIDE DEF n, i
<1>5. n - 1 \in Nat /\ i \in 1..((n - 1) + 1)
  BY <1>4
<1> QED BY <1>5 DEF n, i

LEMMA RideTimeIs ==
  ASSUME NEW stops \in Seq(PlanStop), Paired(stops), NEW m \in MembersOf(stops),
         NEW legs \in [1..(Len(stops) - 1) -> Int], NEW approach \in Int,
         NEW at \in Int, NEW later \in Int
  PROVE  /\ RideTime(stops, Arrivals(approach, legs, at), m) \in Int
         /\ RideTime(stops, Arrivals(approach, legs, later), m)
              = RideTime(stops, Arrivals(approach, legs, at), m)
<1> DEFINE n == Len(stops) - 1
           i == PlaceOf(stops, m, FALSE)
           j == PlaceOf(stops, m, TRUE)
           e == Elapsed(legs)
<1>1. n \in Nat /\ i \in 1..(n + 1) /\ j \in 1..(n + 1) /\ legs \in [1..n -> Int]
  BY PlaceIsThere
<1> HIDE DEF n, i, j
<1>2. \A k \in 1..(n + 1) : e[k - 1] \in Int /\ Arrivals(approach, legs, at)[k] = at + approach + e[k - 1]
  BY <1>1, ArrivalsAre
<1>3. \A k \in 1..(n + 1) : Arrivals(approach, legs, later)[k] = later + approach + e[k - 1]
  BY <1>1, ArrivalsAre
<1> HIDE DEF e
<1>4. e[i - 1] \in Int /\ e[j - 1] \in Int
  BY <1>1, <1>2
<1> DEFINE u == Arrivals(approach, legs, at)
           v == Arrivals(approach, legs, later)
<1>5. /\ RideTime(stops, u, m) = u[i] - u[j]
      /\ RideTime(stops, v, m) = v[i] - v[j]
  BY DEF RideTime, i, j
<1> HIDE DEF u, v
<1>6. /\ u[i] = at + approach + e[i - 1] /\ u[j] = at + approach + e[j - 1]
      /\ v[i] = later + approach + e[i - 1] /\ v[j] = later + approach + e[j - 1]
  BY <1>1, <1>2, <1>3 DEF u, v
<1> DEFINE x == e[i - 1]
           y == e[j - 1]
<1>7. x \in Int /\ y \in Int
  BY <1>4
<1> HIDE DEF x, y
<1>8. u[i] - u[j] = x - y /\ v[i] - v[j] = x - y
  BY <1>6, <1>7 DEF x, y
<1> QED BY <1>5, <1>7, <1>8 DEF u, v

(* Worst cases, over the passengers a plan knows of.                       *)
LEMMA WorstIs ==
  ASSUME NEW S, IsFiniteSet(S), NEW f \in [S -> Int]
  PROVE  LET worst == Greatest({0} \cup {f[m] : m \in S})
         IN  worst \in Int /\ 0 <= worst /\ \A m \in S : f[m] <= worst
<1> DEFINE T == {f[m] : m \in S}
           all == {0} \cup T
<1>1. IsFiniteSet(T)
  BY ImageFinite
<1>2. T \subseteq Int /\ \A m \in S : f[m] \in T
  OBVIOUS
<1> HIDE DEF T
<1>3. IsFiniteSet(T \cup {0}) /\ T \cup {0} = all
  BY <1>1, FS_AddElement
<1>4. all # {} /\ all \subseteq Int /\ 0 \in all /\ \A m \in S : f[m] \in all
  BY <1>2
<1> HIDE DEF all
<1>5. Greatest(all) \in all /\ \A x \in all : x <= Greatest(all)
  BY <1>3, <1>4, GreatestIs
<1> QED BY <1>4, <1>5 DEF all, T

LEMMA MembersFinite ==
  ASSUME NEW S, NEW stops \in Seq(S)
  PROVE  IsFiniteSet(MembersOf(stops))
<1> DEFINE f == [i \in DOMAIN stops |-> stops[i].member]
           T == {stops[i].member : i \in DOMAIN stops}
           D == DOMAIN stops
<1>1. f \in [D -> T] /\ MembersOf(stops) = {f[i] : i \in D}
  BY DEF MembersOf
<1>2. IsFiniteSet(D)
  <2>1. 1 \in Int /\ Len(stops) \in Int /\ D = 1..Len(stops)
    BY SequenceParts
  <2> QED BY <2>1, FS_Interval
<1> HIDE DEF f, T, D
<1>3. IsFiniteSet({f[i] : i \in D})
  BY <1>1, <1>2, ImageFinite
<1> QED BY <1>1, <1>3

(* planMetrics: whole seconds, and nobody fares worse than they say.       *)
KnownTo(stops, D) == (MembersOf(stops) \ {NewMember}) \cap D

LEMMA MetricsAre ==
  ASSUME NEW stops \in Seq(PlanStop), Paired(stops), NewMember \in MembersOf(stops),
         NEW legs \in [1..(Len(stops) - 1) -> Int], NEW approach \in Int, NEW existing \in Int,
         NEW requested \in Int, NEW at \in Int, NEW D, NEW promises \in [D -> Nat \ {0}]
  PROVE  LET metrics == Metrics(stops, approach, legs, existing, promises, requested, at)
             arrivals == Arrivals(approach, legs, at)
         IN  /\ metrics = [added |-> metrics.added, wait |-> metrics.wait,
                           detour |-> metrics.detour, ratio |-> metrics.ratio]
             /\ metrics.added \in Int /\ metrics.wait \in Int
             /\ metrics.detour \in Int /\ metrics.ratio \in Int
             /\ \A m \in KnownTo(stops, D) :
                  /\ RideTime(stops, arrivals, m) - promises[m] <= metrics.detour
                  /\ Ratio(promises[m], RideTime(stops, arrivals, m)) <= metrics.ratio
<1> DEFINE metrics == Metrics(stops, approach, legs, existing, promises, requested, at)
           arrivals == Arrivals(approach, legs, at)
           known == KnownTo(stops, D)
           n == Len(stops) - 1
           Time(m) == RideTime(stops, arrivals, m)
           detours == [m \in known |-> Detour(promises[m], Time(m))]
           ratios == [m \in known |-> Ratio(promises[m], Time(m))]
           longest == Greatest({0} \cup {detours[m] : m \in known})
           worst == Greatest({0} \cup {ratios[m] : m \in known})
           start == arrivals[PlaceOf(stops, NewMember, TRUE)]
<1>1. n \in Nat /\ PlaceOf(stops, NewMember, TRUE) \in 1..(n + 1)
  BY PlaceIsThere
<1>2. IsFiniteSet(known)
  BY MembersFinite, FS_Subset DEF KnownTo
<1>3. \A m \in known : Time(m) \in Int /\ promises[m] \in Nat \ {0}
  BY RideTimeIs DEF KnownTo
<1>4. Sum(legs) \in Int
  BY <1>1, ElapsedIs
<1>5. start \in Int
  <2>1. arrivals \in [1..(n + 1) -> Int]
    BY <1>1, ArrivalsAre
  <2> HIDE DEF arrivals, n
  <2> QED BY <1>1, <2>1
<1>6. metrics = [added |-> Sum(legs) - existing, wait |-> Larger(0, start - requested),
                 detour |-> longest, ratio |-> worst]
  <2> DEFINE lasts == [m \in known |-> Time(m)]
  <2>1. DOMAIN promises = D
    OBVIOUS
  <2>2. metrics = [added |-> Sum(legs) - existing, wait |-> Larger(0, start - requested),
                   detour |-> Greatest({0} \cup {Detour(promises[m], lasts[m]) : m \in known}),
                   ratio |-> Greatest({0} \cup {Ratio(promises[m], lasts[m]) : m \in known})]
    BY <2>1 DEF Metrics, KnownTo
  <2>3. \A m \in known : lasts[m] = Time(m)
    OBVIOUS
  <2>4. \A m \in known : Detour(promises[m], lasts[m]) = detours[m] /\ Ratio(promises[m], lasts[m]) = ratios[m]
    BY <2>3
  <2> HIDE DEF lasts, known, detours, ratios, metrics, start
  <2>5. {Detour(promises[m], lasts[m]) : m \in known} = {detours[m] : m \in known}
    BY <2>4
  <2>6. {Ratio(promises[m], lasts[m]) : m \in known} = {ratios[m] : m \in known}
    BY <2>4
  <2> QED BY <2>2, <2>5, <2>6
<1>7. \A m \in known : detours[m] = Time(m) - promises[m] /\ detours[m] \in Int
  <2> HIDE DEF Time, known
  <2> QED BY <1>3 DEF Detour
<1>8. \A m \in known : ratios[m] = Ratio(promises[m], Time(m)) /\ ratios[m] \in Int
  <2> HIDE DEF Time, known
  <2>1. ASSUME NEW m \in known PROVE Ratio(promises[m], Time(m)) \in Int
    <3>1. promises[m] \in Nat \ {0} /\ Time(m) \in Int /\ 0 \in Int
      BY <1>3
    <3> DEFINE q == promises[m]
               x == Time(m)
    <3> HIDE DEF q, x
    <3>2. Ratio(q, x) \in Int
      BY <3>1, RatioBounds DEF q, x
    <3> QED BY <3>2 DEF q, x
  <2> QED BY <2>1
<1>9. detours \in [known -> Int] /\ ratios \in [known -> Int]
  BY <1>7, <1>8
<1> HIDE DEF detours, ratios, known, Time, start, arrivals, metrics
<1>10. longest \in Int /\ \A m \in known : detours[m] <= longest
  BY <1>2, <1>9, WorstIs
<1>11. worst \in Int /\ \A m \in known : ratios[m] <= worst
  BY <1>2, <1>9, WorstIs
<1> HIDE DEF longest, worst
<1>12. /\ metrics = [added |-> metrics.added, wait |-> metrics.wait,
                     detour |-> metrics.detour, ratio |-> metrics.ratio]
       /\ metrics.added = Sum(legs) - existing /\ metrics.wait = Larger(0, start - requested)
       /\ metrics.detour = longest /\ metrics.ratio = worst
  BY <1>6
<1>13. metrics.added \in Int /\ metrics.wait \in Int
  <2> DEFINE sum == Sum(legs)
             wait == start - requested
  <2>1. sum \in Int /\ wait \in Int
    BY <1>4, <1>5
  <2> HIDE DEF sum, wait
  <2>2. sum - existing \in Int /\ Larger(0, wait) \in Int
    BY <2>1 DEF Larger
  <2> QED BY <1>12, <2>2 DEF sum, wait
<1>14. \A m \in known : /\ Time(m) - promises[m] <= metrics.detour
                        /\ Ratio(promises[m], Time(m)) <= metrics.ratio
  BY <1>7, <1>8, <1>10, <1>11, <1>12
<1> QED BY <1>10, <1>11, <1>12, <1>13, <1>14 DEF metrics, known, arrivals, Time


-----------------------------------------------------------------------------
(* What a search knows of a pool, and the plans it weighs.                 *)
Placed(view, r, p, ij) ==
  LET travel == TravelAt(view.at)
      stops == Proposed(view.stops, From[r], To[r], ij)
      approach == LegTime(travel, DriverAt[p], stops[1].point)
      legs == Legs(travel, stops)
      alone == Legs(travel, view.stops)
      metrics == Metrics(stops, approach, legs,
                         IF Drivable(0, alone) THEN Sum(alone) ELSE view.planned,
                         view.promises, view.requested, view.at)
  IN  [pool |-> p, version |-> view.version, created |-> view.created,
       stops |-> stops, approach |-> approach, legs |-> legs,
       metrics |-> metrics, score |-> Score(metrics, Weights)]

Weighed(view, r, p) ==
  {plan \in {Placed(view, r, p, ij) : ij \in Positions(Len(view.stops))} :
     /\ Drivable(plan.approach, plan.legs)
     /\ Allowed(Fits(plan.stops, Capacity), plan.metrics, Limits)}

View(at, candidate, stops, members, rides, r) ==
  [at |-> at, stops |-> stops, version |-> candidate.version, created |-> candidate.created,
   planned |-> candidate.planned, promises |-> [m \in members |-> rides[m].promised],
   requested |-> rides[r].requested]

Clear(view) ==
  /\ view.at \in Nat /\ view.stops \in Seq(RideStop) /\ view.version \in Nat
  /\ view.created \in Int /\ view.planned \in Int /\ view.requested \in Int
  /\ view.promises \in [DOMAIN view.promises -> Nat \ {0}]

LEMMA FeasibleAreWeighed ==
  \A s, r, p : FeasiblePlans(s, r, p) =
                 Weighed(View(s.at, s.candidate[p], s.stops[p], s.members[p], ride, r), r, p)
  BY DEF FeasiblePlans, PlanOf, Weighed, Placed, View

(* What is known of a plan that was weighed. *)
IsPlan(plan, view, p) ==
  /\ plan.pool = p /\ plan.version = view.version
  /\ Comparable(plan)
  /\ plan.stops \in Seq(PlanStop) /\ Paired(plan.stops)
  /\ Len(plan.stops) = Len(view.stops) + 2
  /\ NewMember \in MembersOf(plan.stops)
  /\ MembersOf(plan.stops) = MembersOf(view.stops) \cup {NewMember}
  /\ \A k \in DOMAIN view.stops : \E i \in DOMAIN plan.stops : plan.stops[i] = view.stops[k]
  /\ plan.approach \in Int /\ plan.legs \in [1..(Len(plan.stops) - 1) -> Int]
  /\ plan.metrics = [added |-> plan.metrics.added, wait |-> plan.metrics.wait,
                     detour |-> plan.metrics.detour, ratio |-> plan.metrics.ratio]
  /\ plan.metrics.detour \in Int /\ plan.metrics.ratio \in Int
  /\ \A m \in KnownTo(plan.stops, DOMAIN view.promises) :
       LET time == RideTime(plan.stops, Arrivals(plan.approach, plan.legs, view.at), m)
       IN  /\ time - view.promises[m] <= plan.metrics.detour
           /\ Ratio(view.promises[m], time) <= plan.metrics.ratio

LEMMA ProposedIs ==
  ASSUME NEW old \in Seq(RideStop), NEW r \in Rides, NEW ij \in Positions(Len(old))
  PROVE  LET stops == Proposed(old, From[r], To[r], ij)
         IN  /\ stops \in Seq(PlanStop) /\ Len(stops) = Len(old) + 2
             /\ MembersOf(stops) = MembersOf(old) \cup {NewMember}
             /\ \A k \in DOMAIN old : \E i \in DOMAIN stops : stops[i] = old[k]
<1> DEFINE stop == PlanStop
           stops == Proposed(old, From[r], To[r], ij)
           in == Stop(NewMember, TRUE, From[r])
           out == Stop(NewMember, FALSE, To[r])
           n == Len(old)
<1>1. From[r] \in Points /\ To[r] \in Points
  BY DEF Points
<1>2. in \in stop /\ out \in stop
  <2> HIDE DEF Points
  <2> QED BY <1>1 DEF PlanStop, Stop
<1>3. old \in Seq(stop) /\ n \in Nat /\ DOMAIN old = 1..n
  <2>1. \A i \in DOMAIN old : old[i] \in stop
    BY SequenceParts, StopSets
  <2>2. n \in Nat /\ DOMAIN old = 1..n /\ old = [i \in 1..n |-> old[i]]
    BY SequenceParts
  <2> HIDE DEF stop, n
  <2>3. old \in [1..n -> stop]
    BY <2>1, <2>2
  <2> QED BY <2>2, <2>3
<1>4. in.member = NewMember /\ out.member = NewMember
  BY DEF Stop
<1> HIDE DEF stop, in, out
<1>5. /\ stops \in Seq(stop) /\ Len(stops) = n + 2
      /\ ij[1] \in 1..(n + 2) /\ ij[2] \in 1..(n + 2)
      /\ stops[ij[1]] = in /\ stops[ij[2]] = out
      /\ \A k \in 1..n : Shifted(ij, k) \in 1..(n + 2) /\ stops[Shifted(ij, k)] = old[k]
      /\ \A j \in 1..(n + 2) : j = ij[1] \/ j = ij[2] \/ \E k \in 1..n : j = Shifted(ij, k)
  <2> DEFINE from == From[r]
             to == To[r]
  <2>1. Stop(NewMember, TRUE, from) \in stop /\ Stop(NewMember, FALSE, to) \in stop
    BY <1>2 DEF in, out
  <2> HIDE DEF from, to
  <2> DEFINE q == Proposed(old, from, to, ij)
  <2>2. q \in Seq(stop) /\ PutInto(q, old, Stop(NewMember, TRUE, from), Stop(NewMember, FALSE, to), ij)
    BY <1>3, <2>1, ProposedShape
  <2>3. Proposed(old, from, to, ij) = stops
    BY DEF from, to
  <2> HIDE DEF stops, q
  <2> QED BY <2>2, <2>3 DEF PutInto, from, to, in, out, q
<1> HIDE DEF stops
<1>6. DOMAIN stops = 1..(n + 2)
  BY <1>5, SequenceParts
<1>7. \A k \in DOMAIN old : \E i \in DOMAIN stops : stops[i] = old[k]
  BY <1>3, <1>5, <1>6
<1>8. MembersOf(stops) \subseteq MembersOf(old) \cup {NewMember}
  <2>1. ASSUME NEW j \in DOMAIN stops PROVE stops[j].member \in MembersOf(old) \cup {NewMember}
    <3>1. CASE j = ij[1] \/ j = ij[2]
      BY <1>4, <1>5, <3>1
    <3>2. CASE \E k \in 1..n : j = Shifted(ij, k)
      BY <1>3, <1>5, <3>2 DEF MembersOf
    <3> QED BY <1>5, <1>6, <3>1, <3>2
  <2> QED BY <2>1 DEF MembersOf
<1>9. MembersOf(old) \cup {NewMember} \subseteq MembersOf(stops)
  BY <1>4, <1>5, <1>6, <1>7 DEF MembersOf
<1> QED BY <1>5, <1>7, <1>8, <1>9 DEF stops, stop

LEMMA PositionsFinite == \A n \in Nat : IsFiniteSet(Positions(n))
<1> TAKE n \in Nat
<1> DEFINE P == 1..(n + 2)
<1>1. IsFiniteSet(P)
  <2>1. 1 \in Int /\ n + 2 \in Int
    OBVIOUS
  <2> QED BY <2>1, FS_Interval
<1>2. Positions(n) \subseteq P \X P
  BY DEF Positions
<1> HIDE DEF P
<1> QED BY <1>1, <1>2, FS_Product, FS_Subset

LEMMA ScoreIs ==
  ASSUME NEW metrics, metrics.added \in Int, metrics.wait \in Int, metrics.detour \in Int
  PROVE  Score(metrics, Weights) \in Int
<1>1. Weights.wait \in Nat /\ Weights.detour \in Nat
  BY JoinSearchAssumption
<1>2. metrics.wait * Weights.wait \in Int /\ metrics.detour * Weights.detour \in Int
  BY <1>1
<1> QED BY <1>2 DEF Score, Larger


(* The time of a plan already stored, if it has a leg at all. *)
LEMMA SumIs ==
  ASSUME NEW m \in Nat, NEW legs \in [1..(m - 1) -> Int]
  PROVE  Sum(legs) \in Int
<1>1. CASE m = 0
  <2>1. legs \in [1..0 -> Int]
    <3>1. 1..(m - 1) = 1..0
      BY <1>1
    <3> QED BY <3>1
  <2> QED BY <2>1, ElapsedIs
<1>2. CASE m # 0
  <2> DEFINE n == m - 1
  <2>1. n \in Nat /\ legs \in [1..n -> Int]
    BY <1>2
  <2> HIDE DEF n
  <2> QED BY <2>1, ElapsedIs
<1> QED BY <1>1, <1>2

LEMMA PlacedIsPlan ==
  ASSUME NEW view, Clear(view), NEW r \in Rides, NEW p \in Pools,
         NEW ij \in Positions(Len(view.stops)),
         Fits(Placed(view, r, p, ij).stops, Capacity)
  PROVE  IsPlan(Placed(view, r, p, ij), view, p)
<1> DEFINE plan == Placed(view, r, p, ij)
           old == view.stops
           stops == Proposed(old, From[r], To[r], ij)
           travel == TravelAt(view.at)
           approach == LegTime(travel, DriverAt[p], stops[1].point)
           legs == Legs(travel, stops)
           alone == Legs(travel, old)
           existing == IF Drivable(0, alone) THEN Sum(alone) ELSE view.planned
           metrics == Metrics(stops, approach, legs, existing, view.promises, view.requested, view.at)
           n == Len(stops) - 1
           D == DOMAIN view.promises
<1>1. plan = [pool |-> p, version |-> view.version, created |-> view.created,
              stops |-> stops, approach |-> approach, legs |-> legs,
              metrics |-> metrics, score |-> Score(metrics, Weights)]
  BY DEF Placed
<1>2. old \in Seq(RideStop) /\ ij \in Positions(Len(old))
  BY DEF Clear
<1>3. /\ stops \in Seq(PlanStop) /\ Len(stops) = Len(old) + 2
      /\ MembersOf(stops) = MembersOf(old) \cup {NewMember}
      /\ \A k \in DOMAIN old : \E i \in DOMAIN stops : stops[i] = old[k]
  <2> HIDE DEF old
  <2> QED BY <1>2, ProposedIs
<1>4. Fits(stops, Capacity) /\ Paired(stops)
  <2>1. Fits(stops, Capacity)
    BY <1>1
  <2> QED BY <1>3, <2>1, FitsIsPaired
<1>5. approach \in Int
  <2>1. DriverAt[p] \in Points
    BY DEF Points
  <2>2. stops[1].point \in Points
    <3>1. Len(old) \in Nat
      BY <1>2, SequenceParts
    <3>2. 1 \in DOMAIN stops
      <4> DEFINE m == Len(stops)
                 k == Len(old)
      <4>1. DOMAIN stops = 1..m /\ m = k + 2 /\ k \in Nat
        BY <1>3, <3>1, SequenceParts
      <4> HIDE DEF m, k
      <4> QED BY <4>1
    <3>3. stops[1] \in PlanStop
      BY <1>3, <3>2, SequenceParts
    <3> QED BY <3>3, StopSets
  <2> QED BY <2>1, <2>2, LegTimeType
<1>6. legs \in [1..n -> Int]
  BY <1>3, LegsType
<1>7. existing \in Int
  <2>1. view.planned \in Int
    BY DEF Clear
  <2>2. Sum(alone) \in Int
    <3>1. old \in Seq(PlanStop) /\ Len(old) \in Nat
      <4> DEFINE stop == PlanStop
                 m == Len(old)
      <4>1. \A i \in DOMAIN old : old[i] \in stop
        BY <1>2, SequenceParts, StopSets
      <4>2. m \in Nat /\ DOMAIN old = 1..m /\ old = [i \in 1..m |-> old[i]]
        BY <1>2, SequenceParts
      <4> HIDE DEF stop, m, old
      <4>3. old \in [1..m -> stop]
        BY <4>1, <4>2
      <4> QED BY <4>2, <4>3 DEF stop, m
    <3> QED BY <3>1, LegsType, SumIs
  <2> HIDE DEF alone
  <2> QED BY <2>1, <2>2
<1>8. view.requested \in Int /\ view.at \in Int /\ view.promises \in [D -> Nat \ {0}]
  BY DEF Clear
<1> HIDE DEF approach, legs, existing, stops, alone, travel, n, D, plan
<1>9. /\ metrics = [added |-> metrics.added, wait |-> metrics.wait,
                    detour |-> metrics.detour, ratio |-> metrics.ratio]
      /\ metrics.added \in Int /\ metrics.wait \in Int
      /\ metrics.detour \in Int /\ metrics.ratio \in Int
      /\ \A m \in KnownTo(stops, D) :
           LET time == RideTime(stops, Arrivals(approach, legs, view.at), m)
           IN  /\ time - view.promises[m] <= metrics.detour
               /\ Ratio(view.promises[m], time) <= metrics.ratio
  <2>1. NewMember \in MembersOf(stops) /\ legs \in [1..(Len(stops) - 1) -> Int]
    BY <1>3, <1>6 DEF n
  <2> QED BY <1>3, <1>4, <1>5, <1>7, <1>8, <2>1, MetricsAre
<1> HIDE DEF metrics
<1>10. Comparable(plan)
  <2>1. stops \in Seq(AnyStop)
    <3> DEFINE stop == AnyStop
               m == Len(stops)
    <3>1. \A i \in DOMAIN stops : stops[i] \in stop
      BY <1>3, SequenceParts, StopSets
    <3>2. m \in Nat /\ DOMAIN stops = 1..m /\ stops = [i \in 1..m |-> stops[i]]
      BY <1>3, SequenceParts
    <3> HIDE DEF stop, m
    <3>3. stops \in [1..m -> stop]
      BY <3>1, <3>2
    <3> QED BY <3>2, <3>3 DEF stop
  <2>2. p \in Int
    BY JoinSearchAssumption
  <2>3. Score(metrics, Weights) \in Int
    BY <1>9, ScoreIs
  <2>4. view.created \in Int
    BY DEF Clear
  <2> QED BY <1>1, <1>9, <2>1, <2>2, <2>3, <2>4 DEF Comparable
<1> QED BY <1>1, <1>3, <1>4, <1>5, <1>6, <1>9, <1>10 DEF IsPlan, n, D, plan, old

LEMMA WeighedAre ==
  ASSUME NEW view, Clear(view), NEW r \in Rides, NEW p \in Pools
  PROVE  /\ IsFiniteSet(Weighed(view, r, p))
         /\ \A plan \in Weighed(view, r, p) :
              /\ IsPlan(plan, view, p)
              /\ Allowed(Fits(plan.stops, Capacity), plan.metrics, Limits)
<1> DEFINE P == Positions(Len(view.stops))
           f == [ij \in P |-> Placed(view, r, p, ij)]
           T == {f[ij] : ij \in P}
<1>1. IsFiniteSet(P)
  <2>1. Len(view.stops) \in Nat
    BY SequenceParts DEF Clear
  <2> QED BY <2>1, PositionsFinite
<1>2. f \in [P -> T]
  OBVIOUS
<1>3. T = {Placed(view, r, p, ij) : ij \in P}
  <2>1. \A ij \in P : f[ij] = Placed(view, r, p, ij)
    OBVIOUS
  <2> HIDE DEF f, P
  <2> QED BY <2>1
<1>4. IsFiniteSet(T)
  <2> HIDE DEF f, P
  <2> DEFINE U == T
  <2>1. f \in [P -> U]
    BY <1>2
  <2> HIDE DEF U
  <2> QED BY <1>1, <2>1, ImageFinite
<1>5. Weighed(view, r, p) \subseteq T
  BY <1>3 DEF Weighed
<1>6. ASSUME NEW plan \in Weighed(view, r, p)
      PROVE  /\ IsPlan(plan, view, p)
             /\ Allowed(Fits(plan.stops, Capacity), plan.metrics, Limits)
  <2>1. PICK ij \in P : plan = Placed(view, r, p, ij)
    BY DEF Weighed
  <2>2. Allowed(Fits(plan.stops, Capacity), plan.metrics, Limits)
    BY DEF Weighed
  <2>3. Fits(Placed(view, r, p, ij).stops, Capacity)
    BY <2>1, <2>2 DEF Allowed
  <2> QED BY <2>1, <2>2, <2>3, PlacedIsPlan
<1> HIDE DEF T
<1> QED BY <1>4, <1>5, <1>6, FS_Subset


-----------------------------------------------------------------------------
(* The inductive invariant.                                                *)
JoinedIn(q) == {q.joined[i] : i \in DOMAIN q.joined}
CandidateOf(q) ==
  [version |-> q.version, created |-> q.created, planned |-> Last(q.arrivals) - Head(q.arrivals)]
ViewNow(at, q, rides, r) == View(at, CandidateOf(q), q.stops, JoinedIn(q), rides, r)

Best(plan, view, r, p) ==
  /\ plan \in Weighed(view, r, p)
  /\ \A other \in Weighed(view, r, p) : plan.score <= other.score

(* A plan found at an earlier moment is the best of its pool, unless       *)
(* somebody has joined the pool since.                                     *)
StillBest(plan, version, at, r, p, q, rides) ==
  /\ r \in Rides /\ rides[r].status # "NONE" /\ at \in Nat /\ q # NoPool
  /\ version \in Nat /\ version <= q.version
  /\ version = q.version => Best(plan, ViewNow(at, q, rides, r), r, p)

RideRecord == [status : {"NONE", "WAITING", "CANCELLED", "MATCHED"}, requested : Nat, promised : Nat]
RidesAre(rides) ==
  /\ rides \in [Rides -> RideRecord]
  /\ \A r \in Rides : rides[r].status # "NONE" => rides[r].promised > 0

PoolRecord == [status : {"NONE", "FORMING", "DEPARTED"}, version : Nat, created : Nat,
               stops : Seq(RideStop), joined : Seq(Rides), arrivals : Seq(Int)]

(* Everybody who joined gets in and out of the plan, and nobody else.      *)
PoolIs(q, rides) ==
  q # NoPool =>
    /\ q.joined # << >> /\ MembersOf(q.stops) = JoinedIn(q) /\ Paired(q.stops)
    /\ Len(q.stops) = 2 * Len(q.joined) /\ Len(q.arrivals) = Len(q.stops)
    /\ \A m \in JoinedIn(q) : rides[m].status # "NONE"

KindIn(q, rides) ==
  Len(q.joined) > 1 =>
    \A m \in JoinedIn(q) \ {Last(q.joined)} :
      LET time == RideTime(q.stops, q.arrivals, m)
      IN  /\ time - rides[m].promised <= Limits.detour
          /\ 100 * time <= Limits.ratio * rides[m].promised

WaitIn(q, rides) ==
  Len(q.joined) > 1 =>
    q.arrivals[PlaceOf(q.stops, Last(q.joined), TRUE)] - rides[Last(q.joined)].requested
      <= Limits.wait

(* What a search has read is what is there, unless the version has moved   *)
(* on: what it read of the pool since then is of that version or a later.  *)
ReadStopsAre(s, p, q) ==
  /\ s.stops[p] \in Seq(RideStop)
  /\ s.candidate[p].version = q.version => s.stops[p] = q.stops

ReadMembersAre(s, p, q, rides) ==
  /\ s.members[p] \subseteq {m \in Rides : rides[m].status # "NONE"}
  /\ s.candidate[p].version = q.version => s.members[p] = JoinedIn(q)

ReadCandidateIs(s, p, q) ==
  /\ q # NoPool
  /\ s.candidate[p].version \in Nat /\ s.candidate[p].version <= q.version
  /\ s.candidate[p].created \in Nat /\ s.candidate[p].planned \in Int
  /\ s.candidate[p].version = q.version => s.candidate[p] = CandidateOf(q)

ReadingIs(s, pools, rides) ==
  /\ s.stage = "reading"
  /\ s = [stage |-> "reading", ride |-> s.ride, at |-> s.at, candidate |-> s.candidate,
          stops |-> s.stops, members |-> s.members]
  /\ s.ride \in Rides /\ rides[s.ride].status # "NONE" /\ s.at \in Nat
  /\ DOMAIN s.candidate \subseteq Pools
  /\ \A p \in DOMAIN s.candidate :
       /\ ReadCandidateIs(s, p, pools[p])
       /\ s.stops # << >> => ReadStopsAre(s, p, pools[p])
       /\ s.members # << >> => ReadMembersAre(s, p, pools[p], rides)

FoundIs(s, pools, rides) ==
  /\ s.stage = "found" /\ s.plan.pool \in Pools
  /\ StillBest(s.plan, s.plan.version, s.at, s.ride, s.plan.pool, pools[s.plan.pool], rides)

OfferIs(o, p, q, rides) == StillBest(o.plan, o.version, o.at, o.ride, p, q, rides)

(* A pool: its plan, and what its passengers were promised.                *)
Good(q, rides) == PoolIs(q, rides) /\ KindIn(q, rides) /\ WaitIn(q, rides)

SearchIs(s, pools, rides) == s = Idle \/ ReadingIs(s, pools, rides) \/ FoundIs(s, pools, rides)
PendingIs(o, p, q, rides) == o = NoOffer \/ OfferIs(o, p, q, rides)

Holds(instant, rides, pools, searches, offers, how) ==
  /\ instant \in Nat /\ RidesAre(rides) /\ pools \in [Pools -> PoolRecord]
  /\ \A p \in Pools : Good(pools[p], rides)
  /\ searches = [w \in Workers |-> searches[w]]
  /\ \A w \in Workers : SearchIs(searches[w], pools, rides)
  /\ offers = [p \in Pools |-> offers[p]]
  /\ \A p \in Pools : PendingIs(offers[p], p, pools[p], rides)
  /\ how # "rewrite"

Inductive == Holds(now, ride, pool, search, offer, report)

(* What no step takes back. *)
RidesKept(rides, after) ==
  \A m \in Rides : rides[m].status # "NONE" =>
    /\ after[m].status # "NONE" /\ after[m].promised = rides[m].promised
    /\ after[m].requested = rides[m].requested

PoolKept(q, after) ==
  q # NoPool =>
    /\ after # NoPool /\ q.version <= after.version
    /\ after.version = q.version =>
         /\ after.stops = q.stops /\ after.joined = q.joined
         /\ after.arrivals = q.arrivals /\ after.created = q.created

LEMMA JoinedInRides ==
  ASSUME NEW q \in PoolRecord
  PROVE  JoinedIn(q) \subseteq Rides
<1>1. q.joined \in Seq(Rides)
  BY DEF PoolRecord
<1> QED BY <1>1, SequenceParts DEF JoinedIn

LEMMA ViewKept ==
  ASSUME NEW rides, NEW after, RidesKept(rides, after), NEW q \in PoolRecord, NEW q2,
         PoolIs(q, rides), q # NoPool, PoolKept(q, q2), q2.version = q.version,
         NEW at, NEW r \in Rides, rides[r].status # "NONE"
  PROVE  ViewNow(at, q2, after, r) = ViewNow(at, q, rides, r)
<1>1. q2.stops = q.stops /\ q2.joined = q.joined /\ q2.arrivals = q.arrivals /\ q2.created = q.created
  BY DEF PoolKept
<1>2. JoinedIn(q2) = JoinedIn(q) /\ CandidateOf(q2) = CandidateOf(q)
  BY <1>1 DEF JoinedIn, CandidateOf
<1>3. \A m \in JoinedIn(q) : after[m].promised = rides[m].promised
  BY JoinedInRides DEF PoolIs, RidesKept
<1>4. after[r].requested = rides[r].requested
  BY DEF RidesKept
<1>5. [m \in JoinedIn(q) |-> after[m].promised] = [m \in JoinedIn(q) |-> rides[m].promised]
  BY <1>3
<1> QED BY <1>1, <1>2, <1>4, <1>5 DEF ViewNow, View

LEMMA StillBestKept ==
  ASSUME NEW rides, NEW after, RidesKept(rides, after), NEW q \in PoolRecord, NEW q2 \in PoolRecord,
         PoolIs(q, rides), PoolKept(q, q2),
         NEW plan, NEW version, NEW at, NEW r, NEW p, StillBest(plan, version, at, r, p, q, rides)
  PROVE  StillBest(plan, version, at, r, p, q2, after)
<1>1. r \in Rides /\ rides[r].status # "NONE" /\ at \in Nat /\ q # NoPool
      /\ version \in Nat /\ version <= q.version
  BY DEF StillBest
<1>2. after[r].status # "NONE"
  BY <1>1 DEF RidesKept
<1>3. q2 # NoPool /\ version <= q2.version /\ (version = q2.version => version = q.version)
  <2>1. q.version \in Nat /\ q2.version \in Nat
    BY DEF PoolRecord
  <2> QED BY <1>1, <2>1 DEF PoolKept
<1>4. ASSUME version = q2.version PROVE Best(plan, ViewNow(at, q2, after, r), r, p)
  <2>1. Best(plan, ViewNow(at, q, rides, r), r, p)
    BY <1>3, <1>4 DEF StillBest
  <2>2. ViewNow(at, q2, after, r) = ViewNow(at, q, rides, r)
    BY <1>1, <1>3, <1>4, ViewKept
  <2> QED BY <2>1, <2>2
<1> QED BY <1>1, <1>2, <1>3, <1>4 DEF StillBest

LEMMA ReadingKept ==
  ASSUME NEW rides, NEW after, RidesKept(rides, after),
         NEW pools \in [Pools -> PoolRecord], NEW pools2 \in [Pools -> PoolRecord],
         \A p \in Pools : PoolIs(pools[p], rides) /\ PoolKept(pools[p], pools2[p]),
         NEW s, ReadingIs(s, pools, rides)
  PROVE  ReadingIs(s, pools2, after)
<1>1. after[s.ride].status # "NONE"
  BY DEF ReadingIs, RidesKept
<1>2. ASSUME NEW p \in DOMAIN s.candidate
      PROVE  /\ ReadCandidateIs(s, p, pools2[p])
             /\ s.stops # << >> => ReadStopsAre(s, p, pools2[p])
             /\ s.members # << >> => ReadMembersAre(s, p, pools2[p], after)
  <2> DEFINE q == pools[p]
             q2 == pools2[p]
             c == s.candidate[p]
  <2>1. p \in Pools /\ ReadCandidateIs(s, p, q)
        /\ (s.stops # << >> => ReadStopsAre(s, p, q))
        /\ (s.members # << >> => ReadMembersAre(s, p, q, rides))
    BY DEF ReadingIs
  <2>2. q \in PoolRecord /\ q2 \in PoolRecord /\ PoolKept(q, q2)
    BY <2>1
  <2> HIDE DEF q, q2
  <2>3. q # NoPool /\ c.version \in Nat /\ c.version <= q.version
        /\ c.created \in Nat /\ c.planned \in Int
    BY <2>1 DEF ReadCandidateIs
  <2>4. q.version \in Nat /\ q2.version \in Nat
    BY <2>2 DEF PoolRecord
  <2>5. /\ q2 # NoPool /\ c.version <= q2.version
        /\ c.version = q2.version =>
             /\ c.version = q.version
             /\ q2.stops = q.stops /\ q2.joined = q.joined
             /\ q2.arrivals = q.arrivals /\ q2.created = q.created
    BY <2>2, <2>3, <2>4 DEF PoolKept
  <2>6. c.version = q2.version => /\ CandidateOf(q2) = CandidateOf(q)
                                  /\ JoinedIn(q2) = JoinedIn(q)
    BY <2>5 DEF CandidateOf, JoinedIn
  <2>7. ReadCandidateIs(s, p, q2)
    BY <2>1, <2>3, <2>5, <2>6 DEF ReadCandidateIs
  <2>8. s.stops # << >> => ReadStopsAre(s, p, q2)
    BY <2>1, <2>5 DEF ReadStopsAre
  <2>9. s.members # << >> => ReadMembersAre(s, p, q2, after)
    <3> SUFFICES ASSUME s.members # << >> PROVE ReadMembersAre(s, p, q2, after)
      OBVIOUS
    <3>1. s.members[p] \subseteq {m \in Rides : after[m].status # "NONE"}
      BY <2>1 DEF ReadMembersAre, RidesKept
    <3> QED BY <2>1, <2>5, <2>6, <3>1 DEF ReadMembersAre
  <2> QED BY <2>7, <2>8, <2>9 DEF q2
<1> QED BY <1>1, <1>2 DEF ReadingIs

LEMMA SearchKept ==
  ASSUME NEW rides, NEW after, RidesKept(rides, after),
         NEW pools \in [Pools -> PoolRecord], NEW pools2 \in [Pools -> PoolRecord],
         \A p \in Pools : PoolIs(pools[p], rides) /\ PoolKept(pools[p], pools2[p]),
         NEW s, ReadingIs(s, pools, rides) \/ FoundIs(s, pools, rides)
  PROVE  ReadingIs(s, pools2, after) \/ FoundIs(s, pools2, after)
<1>1. CASE ReadingIs(s, pools, rides)
  BY <1>1, ReadingKept
<1>2. CASE FoundIs(s, pools, rides)
  <2> DEFINE p == s.plan.pool
  <2>1. p \in Pools /\ StillBest(s.plan, s.plan.version, s.at, s.ride, p, pools[p], rides)
    BY <1>2 DEF FoundIs
  <2>2. pools[p] \in PoolRecord /\ pools2[p] \in PoolRecord /\ PoolIs(pools[p], rides)
        /\ PoolKept(pools[p], pools2[p])
    BY <2>1
  <2>3. StillBest(s.plan, s.plan.version, s.at, s.ride, p, pools2[p], after)
    BY <2>1, <2>2, StillBestKept
  <2> QED BY <1>2, <2>3 DEF FoundIs
<1> QED BY <1>1, <1>2

(* The pool as it is makes sense to look at. *)
LEMMA CandidateIs ==
  ASSUME NEW rides, NEW q \in PoolRecord, q # NoPool, PoolIs(q, rides)
  PROVE  /\ CandidateOf(q).version = q.version /\ CandidateOf(q).created = q.created
         /\ q.version \in Nat /\ q.created \in Nat /\ CandidateOf(q).planned \in Int
<1>1. q.version \in Nat /\ q.created \in Nat /\ q.arrivals \in Seq(Int) /\ q.joined \in Seq(Rides)
  BY DEF PoolRecord
<1>2. CandidateOf(q).planned \in Int
  <2> DEFINE a == q.arrivals
             n == Len(q.joined)
  <2>1. n \in Nat /\ n # 0
    <3>1. q.joined # << >>
      BY DEF PoolIs
    <3> QED BY <1>1, <3>1, EmptySeq
  <2>2. Len(a) = 2 * n
    BY DEF PoolIs
  <2>3. a # << >> /\ a \in Seq(Int)
    <3> HIDE DEF n
    <3> QED BY <1>1, <2>1, <2>2
  <2> HIDE DEF a
  <2>4. Head(a) \in Int /\ Last(a) \in Int
    <3>1. Head(a) \in Int
      BY <2>3, HeadTailProperties
    <3>2. Len(a) \in Nat \ {0}
      BY <2>3, EmptySeq
    <3>3. Len(a) \in 1..Len(a)
      BY <3>2
    <3>4. a[Len(a)] \in Int
      BY <2>3, <3>3, ElementOfSeq
    <3> QED BY <3>1, <3>4 DEF Last
  <2>5. CandidateOf(q).planned = Last(a) - Head(a)
    BY DEF CandidateOf, a
  <2> QED BY <2>4, <2>5
<1> QED BY <1>1, <1>2 DEF CandidateOf

LEMMA ViewIsClear ==
  ASSUME NEW rides, RidesAre(rides), NEW at \in Nat, NEW candidate, NEW stops \in Seq(RideStop),
         NEW members, members \subseteq {m \in Rides : rides[m].status # "NONE"},
         candidate.version \in Nat, candidate.created \in Nat, candidate.planned \in Int,
         NEW r \in Rides
  PROVE  /\ Clear(View(at, candidate, stops, members, rides, r))
         /\ DOMAIN View(at, candidate, stops, members, rides, r).promises = members
         /\ \A m \in members :
              View(at, candidate, stops, members, rides, r).promises[m] = rides[m].promised
<1>1. rides[r].requested \in Nat
  BY DEF RidesAre, RideRecord
<1>2. \A m \in members : rides[m].promised \in Nat \ {0}
  BY DEF RidesAre, RideRecord
<1>3. [m \in members |-> rides[m].promised] \in [members -> Nat \ {0}]
  BY <1>2
<1> QED BY <1>1, <1>3 DEF Clear, View


LEMMA LastJoined ==
  ASSUME NEW q \in PoolRecord, q.joined # << >>
  PROVE  Last(q.joined) \in JoinedIn(q)
<1>1. q.joined \in Seq(Rides)
  BY DEF PoolRecord
<1>2. Len(q.joined) \in Nat \ {0} /\ DOMAIN q.joined = 1..Len(q.joined)
  BY <1>1, EmptySeq, SequenceParts
<1>3. Len(q.joined) \in DOMAIN q.joined
  BY <1>2
<1> QED BY <1>3 DEF JoinedIn, Last

LEMMA NoPoolIs ==
  /\ Len(NoPool.joined) = 0 /\ NoPool.status = "NONE" /\ NoPool \in PoolRecord
  /\ \A rides : PoolIs(NoPool, rides) /\ KindIn(NoPool, rides) /\ WaitIn(NoPool, rides)
<1>1. NoPool.joined = << >> /\ NoPool.status = "NONE"
  BY DEF NoPool
<1>2. Len(NoPool.joined) = 0
  BY <1>1, EmptySeq
<1>3. NoPool \in PoolRecord
  <2>1. << >> \in Seq(RideStop) /\ << >> \in Seq(Rides) /\ << >> \in Seq(Int)
    BY EmptySeq
  <2>2. 0 \in Nat
    OBVIOUS
  <2> QED BY <2>1, <2>2 DEF NoPool, PoolRecord
<1> QED BY <1>1, <1>2, <1>3 DEF PoolIs, KindIn, WaitIn

(* A pool nobody joins stays as good as it was. *)
LEMMA GoodKept ==
  ASSUME NEW rides, NEW after, RidesKept(rides, after), NEW q \in PoolRecord, Good(q, rides)
  PROVE  Good(q, after)
<1>1. CASE q = NoPool
  BY <1>1, NoPoolIs DEF Good
<1>2. CASE q # NoPool
  <2>1. \A m \in JoinedIn(q) : /\ after[m].status # "NONE"
                               /\ after[m].promised = rides[m].promised
                               /\ after[m].requested = rides[m].requested
    BY <1>2, JoinedInRides DEF Good, PoolIs, RidesKept
  <2>2. Last(q.joined) \in JoinedIn(q)
    BY <1>2, LastJoined DEF Good, PoolIs
  <2>3. PoolIs(q, after)
    BY <2>1 DEF Good, PoolIs
  <2>4. KindIn(q, after)
    <3> SUFFICES ASSUME Len(q.joined) > 1, NEW m \in JoinedIn(q) \ {Last(q.joined)}
                 PROVE  LET time == RideTime(q.stops, q.arrivals, m)
                        IN  /\ time - after[m].promised <= Limits.detour
                            /\ 100 * time <= Limits.ratio * after[m].promised
      BY DEF KindIn
    <3>1. after[m].promised = rides[m].promised
      BY <2>1
    <3>2. LET time == RideTime(q.stops, q.arrivals, m)
          IN  /\ time - rides[m].promised <= Limits.detour
              /\ 100 * time <= Limits.ratio * rides[m].promised
      BY DEF Good, KindIn
    <3> QED BY <3>1, <3>2
  <2>5. WaitIn(q, after)
    <3>1. after[Last(q.joined)].requested = rides[Last(q.joined)].requested
      BY <2>1, <2>2
    <3> QED BY <3>1 DEF Good, WaitIn
  <2> QED BY <2>3, <2>4, <2>5 DEF Good
<1> QED BY <1>1, <1>2

(* What a step has to do to keep the invariant. *)
LEMMA Frame ==
  ASSUME NEW instant, NEW rides, NEW pools, NEW searches, NEW offers, NEW how,
         Holds(instant, rides, pools, searches, offers, how),
         NEW instant2 \in Nat, NEW rides2, NEW pools2, NEW searches2, NEW offers2, NEW how2,
         RidesAre(rides2), RidesKept(rides, rides2), pools2 \in [Pools -> PoolRecord],
         \A p \in Pools : PoolKept(pools[p], pools2[p]) /\ Good(pools2[p], rides2),
         searches2 = [w \in Workers |-> searches2[w]],
         \A w \in Workers : searches2[w] = searches[w] \/ SearchIs(searches2[w], pools, rides),
         offers2 = [p \in Pools |-> offers2[p]],
         \A p \in Pools : offers2[p] = offers[p] \/ PendingIs(offers2[p], p, pools[p], rides),
         how2 # "rewrite"
  PROVE  Holds(instant2, rides2, pools2, searches2, offers2, how2)
<1>1. /\ pools \in [Pools -> PoolRecord]
      /\ \A p \in Pools : PoolIs(pools[p], rides) /\ PoolKept(pools[p], pools2[p])
  BY DEF Holds, Good
<1>2. ASSUME NEW w \in Workers PROVE SearchIs(searches2[w], pools2, rides2)
  <2>1. SearchIs(searches2[w], pools, rides)
    BY DEF Holds
  <2> DEFINE s == searches2[w]
  <2> HIDE DEF s
  <2>2. s = Idle \/ ReadingIs(s, pools, rides) \/ FoundIs(s, pools, rides)
    BY <2>1 DEF SearchIs, s
  <2>3. s = Idle \/ ReadingIs(s, pools2, rides2) \/ FoundIs(s, pools2, rides2)
    BY <1>1, <2>2, SearchKept
  <2> QED BY <2>3 DEF SearchIs, s
<1>3. ASSUME NEW p \in Pools PROVE PendingIs(offers2[p], p, pools2[p], rides2)
  <2>1. PendingIs(offers2[p], p, pools[p], rides)
    BY DEF Holds
  <2> DEFINE o == offers2[p]
             q == pools[p]
             q2 == pools2[p]
  <2>2. q \in PoolRecord /\ q2 \in PoolRecord /\ PoolIs(q, rides) /\ PoolKept(q, q2)
    BY <1>1
  <2> HIDE DEF o, q, q2
  <2>3. o = NoOffer \/ StillBest(o.plan, o.version, o.at, o.ride, p, q, rides)
    BY <2>1 DEF PendingIs, OfferIs, o, q
  <2>4. o = NoOffer \/ StillBest(o.plan, o.version, o.at, o.ride, p, q2, rides2)
    BY <2>2, <2>3, StillBestKept
  <2> QED BY <2>4 DEF PendingIs, OfferIs, o, q2
<1> QED BY <1>2, <1>3 DEF Holds


LEMMA KeptIsKept ==
  /\ \A rides : RidesKept(rides, rides)
  /\ \A q \in PoolRecord : PoolKept(q, q)
<1>1. \A q \in PoolRecord : q.version \in Nat
  BY DEF PoolRecord
<1> QED BY <1>1 DEF RidesKept, PoolKept

(* The steps that leave the rides and the pools alone. *)
LEMMA QuietFrame ==
  ASSUME NEW instant, NEW rides, NEW pools, NEW searches, NEW offers, NEW how,
         Holds(instant, rides, pools, searches, offers, how),
         NEW instant2 \in Nat, NEW searches2, NEW offers2, NEW how2,
         searches2 = [w \in Workers |-> searches2[w]],
         \A w \in Workers : searches2[w] = searches[w] \/ SearchIs(searches2[w], pools, rides),
         offers2 = [p \in Pools |-> offers2[p]],
         \A p \in Pools : offers2[p] = offers[p] \/ PendingIs(offers2[p], p, pools[p], rides),
         how2 # "rewrite"
  PROVE  Holds(instant2, rides, pools, searches2, offers2, how2)
<1>1. /\ RidesAre(rides) /\ pools \in [Pools -> PoolRecord]
      /\ \A p \in Pools : Good(pools[p], rides)
  BY DEF Holds
<1>2. RidesKept(rides, rides) /\ \A p \in Pools : PoolKept(pools[p], pools[p])
  BY <1>1, KeptIsKept
<1> QED BY <1>1, <1>2, Frame

LEMMA NothingPending ==
  /\ \A p, q, rides : PendingIs(NoOffer, p, q, rides)
  /\ \A pools, rides : SearchIs(Idle, pools, rides)
  BY DEF PendingIs, SearchIs

LEMMA InitHolds == Init => Inductive
<1> SUFFICES ASSUME Init PROVE Inductive
  OBVIOUS
<1>1. RidesAre(ride)
  <2>1. NoRide \in RideRecord /\ NoRide.status = "NONE"
    BY DEF NoRide, RideRecord
  <2> QED BY <2>1 DEF Init, RidesAre
<1>2. pool \in [Pools -> PoolRecord] /\ \A p \in Pools : Good(pool[p], ride)
  BY NoPoolIs DEF Init, Good
<1>3. \A w \in Workers : SearchIs(search[w], pool, ride)
  BY NothingPending DEF Init
<1>4. \A p \in Pools : PendingIs(offer[p], p, pool[p], ride)
  BY NothingPending DEF Init
<1>5. search = [w \in Workers |-> search[w]] /\ offer = [p \in Pools |-> offer[p]]
  BY DEF Init
<1> QED BY <1>1, <1>2, <1>3, <1>4, <1>5 DEF Inductive, Holds, Init

LEMMA RequestStep == ASSUME NEW r \in Rides, Inductive, Request(r) PROVE Inductive'
<1>1. RidesAre(ride) /\ now \in Nat /\ pool \in [Pools -> PoolRecord]
      /\ \A p \in Pools : Good(pool[p], ride)
  BY DEF Inductive, Holds
<1> DEFINE promise == TravelAt(now)[<<From[r], To[r]>>]
           new == [status |-> "WAITING", requested |-> now, promised |-> promise]
<1>2. ride' = [ride EXCEPT ![r] = new] /\ ride[r] = NoRide /\ promise # Unroutable
  BY DEF Request
<1>3. promise \in Nat \ {0}
  <2>1. From[r] \in Points /\ To[r] \in Points /\ From[r] # To[r]
    BY JoinSearchAssumption DEF Points
  <2>2. promise \in (Nat \ {0}) \cup {Unroutable}
    BY <2>1, LegTimeType
  <2> QED BY <1>2, <2>2
<1> HIDE DEF promise
<1>4. new \in RideRecord /\ new.promised > 0
  BY <1>1, <1>3 DEF RideRecord
<1> HIDE DEF new
<1>5. RidesAre(ride')
  BY <1>1, <1>2, <1>4 DEF RidesAre
<1>6. RidesKept(ride, ride')
  BY <1>1, <1>2 DEF RidesKept, RidesAre, NoRide
<1>7. \A p \in Pools : PoolKept(pool[p], pool[p]) /\ Good(pool[p], ride')
  BY <1>1, <1>6, KeptIsKept, GoodKept
<1>8. now' = now /\ pool' = pool /\ search' = search /\ offer' = offer /\ report' # "rewrite"
  BY DEF Request
<1>9. search = [w \in Workers |-> search[w]] /\ offer = [p \in Pools |-> offer[p]]
  BY DEF Inductive, Holds
<1>10. Holds(now, ride', pool, search, offer, report')
  BY <1>1, <1>5, <1>6, <1>7, <1>8, <1>9, Frame DEF Inductive
<1> QED BY <1>8, <1>10 DEF Inductive

LEMMA CancelStep == ASSUME NEW r \in Rides, Inductive, Cancel(r) PROVE Inductive'
<1>1. RidesAre(ride) /\ now \in Nat /\ pool \in [Pools -> PoolRecord]
      /\ \A p \in Pools : Good(pool[p], ride)
  BY DEF Inductive, Holds
<1>2. ride' = [ride EXCEPT ![r].status = "CANCELLED"] /\ ride[r].status = "WAITING"
  BY DEF Cancel
<1>3. RidesAre(ride') /\ RidesKept(ride, ride')
  BY <1>1, <1>2 DEF RidesAre, RideRecord, RidesKept
<1>4. \A p \in Pools : PoolKept(pool[p], pool[p]) /\ Good(pool[p], ride')
  BY <1>1, <1>3, KeptIsKept, GoodKept
<1>5. now' = now /\ pool' = pool /\ search' = search /\ report' # "rewrite"
  BY DEF Cancel
<1>6. /\ offer' = [p \in Pools |-> offer'[p]]
      /\ \A p \in Pools : offer'[p] = offer[p] \/ PendingIs(offer'[p], p, pool[p], ride)
  BY NothingPending DEF Cancel
<1>7. search = [w \in Workers |-> search[w]]
  BY DEF Inductive, Holds
<1>8. Holds(now, ride', pool, search, offer', report')
  BY <1>1, <1>3, <1>4, <1>5, <1>6, <1>7, Frame DEF Inductive
<1> QED BY <1>5, <1>8 DEF Inductive

LEMMA DepartStep == ASSUME NEW p \in Pools, Inductive, Depart(p) PROVE Inductive'
<1>1. RidesAre(ride) /\ now \in Nat /\ pool \in [Pools -> PoolRecord]
      /\ \A o \in Pools : Good(pool[o], ride)
  BY DEF Inductive, Holds
<1> DEFINE q == pool[p]
           left == [q EXCEPT !.status = "DEPARTED"]
<1>2. pool' = [pool EXCEPT ![p] = left] /\ q.status = "FORMING"
  BY DEF Depart
<1>3. q \in PoolRecord
  BY <1>1
<1> HIDE DEF q
<1>4. /\ left \in PoolRecord /\ left.status # "NONE" /\ left.version = q.version
      /\ left.stops = q.stops /\ left.joined = q.joined
      /\ left.arrivals = q.arrivals /\ left.created = q.created
  BY <1>3 DEF PoolRecord
<1> HIDE DEF left
<1>5. q # NoPool /\ left # NoPool
  BY <1>2, <1>4, NoPoolIs
<1>6. JoinedIn(left) = JoinedIn(q)
  BY <1>4 DEF JoinedIn
<1>7. Good(left, ride)
  <2>1. Good(q, ride)
    BY <1>1 DEF q
  <2> QED BY <1>4, <1>5, <1>6, <2>1 DEF Good, PoolIs, KindIn, WaitIn
<1>8. PoolKept(q, left)
  <2>1. q.version \in Nat
    BY <1>3 DEF PoolRecord
  <2> QED BY <1>4, <1>5, <2>1 DEF PoolKept
<1>9. pool' \in [Pools -> PoolRecord]
  BY <1>1, <1>2, <1>4
<1>10. \A o \in Pools : PoolKept(pool[o], pool'[o]) /\ Good(pool'[o], ride)
  BY <1>1, <1>2, <1>7, <1>8, KeptIsKept DEF q
<1>11. now' = now /\ ride' = ride /\ search' = search /\ report' # "rewrite"
  BY DEF Depart
<1>12. search = [w \in Workers |-> search[w]] /\ offer = [o \in Pools |-> offer[o]]
  BY DEF Inductive, Holds
<1>13. /\ offer' = [o \in Pools |-> offer'[o]]
       /\ \A o \in Pools : offer'[o] = offer[o] \/ PendingIs(offer'[o], o, pool[o], ride)
  <2>1. offer' = [offer EXCEPT ![p] = NoOffer]
    BY DEF Depart
  <2> QED BY <1>12, <2>1, NothingPending
<1>14. Holds(now, ride, pool', search, offer', report')
  <2>1. RidesKept(ride, ride)
    BY KeptIsKept
  <2> QED BY <1>1, <1>9, <1>10, <1>11, <1>12, <1>13, <2>1, Frame DEF Inductive
<1> QED BY <1>11, <1>14 DEF Inductive


LEMMA TickStep == ASSUME Inductive, Tick PROVE Inductive'
<1>1. now' \in Nat /\ ride' = ride /\ pool' = pool /\ search' = search /\ offer' = offer
      /\ report' # "rewrite"
  BY DEF Inductive, Holds, Tick
<1>2. search = [w \in Workers |-> search[w]] /\ offer = [o \in Pools |-> offer[o]]
  BY DEF Inductive, Holds
<1>3. Holds(now', ride, pool, search, offer, report')
  BY <1>1, <1>2, QuietFrame DEF Inductive
<1> QED BY <1>1, <1>3 DEF Inductive

LEMMA OfferGone ==
  ASSUME NEW p \in Pools, Inductive, offer' = [offer EXCEPT ![p] = NoOffer],
         now' = now, ride' = ride, pool' = pool, search' = search, report' # "rewrite"
  PROVE  Inductive'
<1>1. search = [w \in Workers |-> search[w]] /\ offer = [o \in Pools |-> offer[o]] /\ now \in Nat
  BY DEF Inductive, Holds
<1>2. /\ offer' = [o \in Pools |-> offer'[o]]
      /\ \A o \in Pools : offer'[o] = offer[o] \/ PendingIs(offer'[o], o, pool[o], ride)
  BY <1>1, NothingPending
<1>3. Holds(now, ride, pool, search, offer', report')
  BY <1>1, <1>2, QuietFrame DEF Inductive
<1> QED BY <1>3 DEF Inductive

LEMMA RejectStep == ASSUME NEW p \in Pools, Inductive, Reject(p) PROVE Inductive'
  BY OfferGone DEF Reject

LEMMA LapseStep == ASSUME NEW p \in Pools, Inductive, Lapse(p) PROVE Inductive'
  BY OfferGone DEF Lapse

LEMMA SearchMoves ==
  ASSUME NEW w \in Workers, Inductive, NEW s, SearchIs(s, pool, ride),
         search' = [search EXCEPT ![w] = s],
         now' = now, ride' = ride, pool' = pool, offer' = offer, report' # "rewrite"
  PROVE  Inductive'
<1>1. search = [o \in Workers |-> search[o]] /\ offer = [o \in Pools |-> offer[o]] /\ now \in Nat
  BY DEF Inductive, Holds
<1>2. /\ search' = [o \in Workers |-> search'[o]]
      /\ \A o \in Workers : search'[o] = search[o] \/ SearchIs(search'[o], pool, ride)
  BY <1>1
<1>3. Holds(now, ride, pool, search', offer, report')
  BY <1>1, <1>2, QuietFrame DEF Inductive
<1> QED BY <1>3 DEF Inductive

LEMMA DieStep == ASSUME NEW w \in Workers, Inductive, Die(w) PROVE Inductive'
  BY SearchMoves, NothingPending DEF Die

LEMMA ShortlistStep ==
  ASSUME NEW w \in Workers, NEW r \in Rides, Inductive, Shortlist(w, r) PROVE Inductive'
<1>1. PICK S \in SUBSET Candidates(r) :
        search' = [search EXCEPT ![w] =
            [stage |-> "reading", ride |-> r, at |-> now,
             candidate |-> [p \in S |-> [version |-> pool[p].version,
                                         created |-> pool[p].created,
                                         planned |-> PlannedTime(p)]],
             stops |-> << >>, members |-> << >>]]
  BY DEF Shortlist
<1> DEFINE c == [p \in S |-> [version |-> pool[p].version, created |-> pool[p].created,
                              planned |-> PlannedTime(p)]]
           s == [stage |-> "reading", ride |-> r, at |-> now, candidate |-> c,
                 stops |-> << >>, members |-> << >>]
<1>2. now \in Nat /\ pool \in [Pools -> PoolRecord] /\ \A p \in Pools : Good(pool[p], ride)
  BY DEF Inductive, Holds
<1>3. \A p \in S : p \in Pools /\ pool[p].status = "FORMING"
  BY DEF Candidates
<1>4. DOMAIN c = S /\ \A p \in S : c[p] = CandidateOf(pool[p])
  BY DEF CandidateOf, PlannedTime
<1>5. /\ s.stage = "reading" /\ s.ride = r /\ s.at = now /\ s.candidate = c
      /\ s.stops = << >> /\ s.members = << >>
      /\ s = [stage |-> "reading", ride |-> s.ride, at |-> s.at, candidate |-> s.candidate,
              stops |-> s.stops, members |-> s.members]
  OBVIOUS
<1> HIDE DEF c, s
<1>6. ASSUME NEW p \in S PROVE ReadCandidateIs(s, p, pool[p])
  <2> DEFINE q == pool[p]
  <2>1. q # NoPool /\ q \in PoolRecord /\ PoolIs(q, ride)
    BY <1>2, <1>3, NoPoolIs DEF Good
  <2> HIDE DEF q
  <2>2. /\ CandidateOf(q).version = q.version /\ CandidateOf(q).created = q.created
        /\ q.version \in Nat /\ q.created \in Nat /\ CandidateOf(q).planned \in Int
    BY <2>1, CandidateIs
  <2>3. s.candidate[p] = CandidateOf(q)
    BY <1>4, <1>5 DEF q
  <2>4. q.version <= q.version
    BY <2>2
  <2> QED BY <2>1, <2>2, <2>3, <2>4 DEF ReadCandidateIs, q
<1>7. ride[r].status # "NONE"
  BY DEF Shortlist
<1>8. ReadingIs(s, pool, ride)
  BY <1>2, <1>3, <1>4, <1>5, <1>6, <1>7 DEF ReadingIs
<1>9. /\ search' = [search EXCEPT ![w] = s] /\ now' = now /\ ride' = ride /\ pool' = pool
      /\ offer' = offer /\ report' # "rewrite"
  BY <1>1 DEF Shortlist, s, c
<1>10. SearchIs(s, pool, ride)
  BY <1>8 DEF SearchIs
<1> QED BY <1>9, <1>10, SearchMoves

(* A search that has read a pool weighs what is there, or knows an older   *)
(* version.                                                                *)
LEMMA EvaluatedIs ==
  ASSUME Inductive, NEW s, ReadingIs(s, pool, ride), s.stops # << >>, s.members # << >>
  PROVE  SearchIs(Evaluated(s), pool, ride)
<1> DEFINE S == DOMAIN s.candidate
           r == s.ride
           Of(p) == View(s.at, s.candidate[p], s.stops[p], s.members[p], ride, r)
           In(p) == Weighed(Of(p), r, p)
           joinable == {p \in S : In(p) # {}}
           plans == {BestOf(In(p)) : p \in joinable}
           best == BestOf(plans)
<1>1. Evaluated(s) = IF joinable = {} THEN Idle
                     ELSE [stage |-> "found", ride |-> r, at |-> s.at, plan |-> best]
  <2> DEFINE inPool == [p \in S |-> FeasiblePlans(s, r, p)]
             some == {p \in DOMAIN inPool : inPool[p] # {}}
  <2>1. DOMAIN inPool = S /\ \A p \in S : inPool[p] = In(p)
    BY FeasibleAreWeighed
  <2>2. Evaluated(s) = IF some = {} THEN Idle
                       ELSE [stage |-> "found", ride |-> r, at |-> s.at,
                             plan |-> BestOf({BestOf(inPool[p]) : p \in some})]
    BY DEF Evaluated
  <2> HIDE DEF inPool, In, S
  <2>3. some = joinable
    BY <2>1
  <2>4. {BestOf(inPool[p]) : p \in some} = plans
    <3>1. \A p \in joinable : inPool[p] = In(p)
      BY <2>1
    <3> HIDE DEF some, joinable
    <3> QED BY <2>3, <3>1
  <2> HIDE DEF joinable, some, plans
  <2> QED BY <2>2, <2>3, <2>4
<1>2. r \in Rides /\ ride[r].status # "NONE" /\ s.at \in Nat /\ S \subseteq Pools
  BY DEF ReadingIs
<1>3. ASSUME NEW p \in S
      PROVE  /\ ReadCandidateIs(s, p, pool[p]) /\ ReadStopsAre(s, p, pool[p])
             /\ ReadMembersAre(s, p, pool[p], ride)
  BY DEF ReadingIs
<1>4. ASSUME NEW p \in S PROVE Clear(Of(p)) /\ p \in Pools
  <2>1. RidesAre(ride)
    BY DEF Inductive, Holds
  <2>2. s.stops[p] \in Seq(RideStop) /\ s.members[p] \subseteq {m \in Rides : ride[m].status # "NONE"}
    BY <1>3 DEF ReadStopsAre, ReadMembersAre
  <2> DEFINE c == s.candidate[p]
  <2>3. c.version \in Nat /\ c.created \in Nat /\ c.planned \in Int
    BY <1>3 DEF ReadCandidateIs
  <2> HIDE DEF c
  <2>4. Clear(View(s.at, c, s.stops[p], s.members[p], ride, r))
    BY <1>2, <2>1, <2>2, <2>3, ViewIsClear
  <2> QED BY <1>2, <2>4 DEF c
<1>5. ASSUME NEW p \in S
      PROVE  IsFiniteSet(In(p)) /\ \A plan \in In(p) : IsPlan(plan, Of(p), p)
  <2> HIDE DEF Of
  <2> QED BY <1>2, <1>4, WeighedAre
<1>6. ASSUME NEW p \in joinable
      PROVE  /\ BestOf(In(p)) \in In(p) /\ \A b \in In(p) : BestOf(In(p)).score <= b.score
             /\ IsPlan(BestOf(In(p)), Of(p), p)
  <2>1. p \in S /\ In(p) # {}
    OBVIOUS
  <2> HIDE DEF In, joinable, S
  <2>2. \A plan \in In(p) : Comparable(plan)
    BY <1>5, <2>1 DEF IsPlan
  <2>3. BestOf(In(p)) \in In(p) /\ \A b \in In(p) : BestOf(In(p)).score <= b.score
    BY <1>5, <2>1, <2>2, BestIs
  <2> QED BY <1>5, <2>1, <2>3
<1>7. joinable \subseteq S
  OBVIOUS
<1> HIDE DEF In, Of, S
<1>8. ASSUME joinable # {} PROVE best \in plans
  <2> HIDE DEF joinable
  <2>1. IsFiniteSet(joinable)
    <3>1. IsFiniteSet(Pools)
      BY JoinSearchAssumption
    <3> QED BY <1>2, <1>7, <3>1, FS_Subset
  <2> DEFINE f == [p \in joinable |-> BestOf(In(p))]
  <2>2. f \in [joinable -> plans]
    OBVIOUS
  <2>3. {f[p] : p \in joinable} = plans
    <3>1. \A p \in joinable : f[p] = BestOf(In(p))
      OBVIOUS
    <3> HIDE DEF f
    <3> QED BY <3>1
  <2>4. plans # {}
    BY <1>8
  <2>5. \A a \in plans : Comparable(a)
    BY <1>6 DEF IsPlan
  <2> HIDE DEF f, plans
  <2>6. IsFiniteSet(plans)
    <3>1. IsFiniteSet({f[p] : p \in joinable})
      BY <2>1, <2>2, ImageFinite
    <3> QED BY <2>3, <3>1
  <2> QED BY <2>4, <2>5, <2>6, BestIs
<1>9. ASSUME joinable # {} PROVE FoundIs(Evaluated(s), pool, ride)
  <2>1. PICK p \in joinable : best = BestOf(In(p))
    BY <1>8, <1>9
  <2> HIDE DEF best, joinable
  <2>2. /\ best \in In(p) /\ \A b \in In(p) : best.score <= b.score
        /\ IsPlan(best, Of(p), p)
    BY <1>6, <2>1
  <2>3. best.pool = p /\ best.version = s.candidate[p].version
    BY <2>2 DEF IsPlan, Of, View
  <2> DEFINE q == pool[p]
             c == s.candidate[p]
  <2>4. p \in S /\ p \in Pools
    BY <1>2, <1>7
  <2>5. q # NoPool /\ c.version \in Nat /\ c.version <= q.version
    BY <1>3, <2>4 DEF ReadCandidateIs
  <2>6. ASSUME c.version = q.version PROVE Best(best, ViewNow(s.at, q, ride, r), r, p)
    <3>1. c = CandidateOf(q) /\ s.stops[p] = q.stops /\ s.members[p] = JoinedIn(q)
      BY <1>3, <2>4, <2>6 DEF ReadCandidateIs, ReadStopsAre, ReadMembersAre
    <3>2. Of(p) = ViewNow(s.at, q, ride, r)
      BY <3>1 DEF Of, ViewNow
    <3> QED BY <2>2, <3>2 DEF Best, In
  <2> HIDE DEF q, c
  <2>7. StillBest(best, c.version, s.at, r, p, q, ride)
    BY <1>2, <2>5, <2>6 DEF StillBest
  <2> DEFINE e == Evaluated(s)
  <2>8. e.stage = "found" /\ e.ride = r /\ e.at = s.at /\ e.plan = best
    BY <1>1, <1>9
  <2> HIDE DEF e, r
  <2> QED BY <2>3, <2>4, <2>7, <2>8 DEF FoundIs, q, c, e
<1> QED BY <1>1, <1>9 DEF SearchIs


LEMMA ReadStep ==
  ASSUME NEW w \in Workers, NEW after, ReadingIs(after, pool, ride), Inductive, Read(w, after)
  PROVE  Inductive'
<1> DEFINE s == IF after.stops # << >> /\ after.members # << >> THEN Evaluated(after) ELSE after
<1>1. SearchIs(s, pool, ride)
  <2>1. CASE after.stops # << >> /\ after.members # << >>
    BY <2>1, EvaluatedIs
  <2>2. CASE ~(after.stops # << >> /\ after.members # << >>)
    BY <2>2 DEF SearchIs
  <2> QED BY <2>1, <2>2
<1>2. /\ search' = [search EXCEPT ![w] = s] /\ now' = now /\ ride' = ride /\ pool' = pool
      /\ offer' = offer /\ report' # "rewrite"
  BY DEF Read
<1> HIDE DEF s
<1> QED BY <1>1, <1>2, SearchMoves

LEMMA ReadingSearch ==
  ASSUME NEW w \in Workers, Inductive, search[w].stage = "reading"
  PROVE  ReadingIs(search[w], pool, ride)
<1> DEFINE s == search[w]
<1>1. s = Idle \/ ReadingIs(s, pool, ride) \/ FoundIs(s, pool, ride)
  BY DEF Inductive, Holds, SearchIs
<1> HIDE DEF s
<1>2. Idle.stage = "idle"
  BY DEF Idle
<1> QED BY <1>1, <1>2 DEF FoundIs, s

LEMMA ReadStopsStep == ASSUME NEW w \in Workers, Inductive, ReadStops(w) PROVE Inductive'
<1> DEFINE s == search[w]
           S == DOMAIN s.candidate
           read == [p \in S |-> StopsOf(p)]
           after == [s EXCEPT !.stops = read]
<1>1. ReadingIs(s, pool, ride)
  BY ReadingSearch DEF ReadStops
<1>2. Read(w, after)
  BY DEF ReadStops
<1> HIDE DEF s
<1>3. \A p \in S : read[p] = pool[p].stops /\ read[p] \in Seq(RideStop)
  <2>1. S \subseteq Pools /\ pool \in [Pools -> PoolRecord]
    BY <1>1 DEF ReadingIs, Inductive, Holds
  <2>2. \A p \in S : pool[p] \in PoolRecord
    BY <2>1
  <2>3. \A q \in PoolRecord : q.stops \in Seq(RideStop)
    BY DEF PoolRecord
  <2> QED BY <2>2, <2>3 DEF StopsOf
<1> HIDE DEF read
<1>4. after = [stage |-> "reading", ride |-> s.ride, at |-> s.at, candidate |-> s.candidate,
               stops |-> read, members |-> s.members]
  BY <1>1 DEF ReadingIs
<1> HIDE DEF after
<1>5. /\ after.stage = "reading" /\ after.ride = s.ride /\ after.at = s.at
      /\ after.candidate = s.candidate /\ after.stops = read /\ after.members = s.members
  BY <1>4
<1>6. ASSUME NEW p \in S
      PROVE  /\ ReadCandidateIs(after, p, pool[p]) /\ ReadStopsAre(after, p, pool[p])
             /\ after.members # << >> => ReadMembersAre(after, p, pool[p], ride)
  <2>1. ReadCandidateIs(s, p, pool[p]) /\ (s.members # << >> => ReadMembersAre(s, p, pool[p], ride))
    BY <1>1 DEF ReadingIs
  <2>2. ReadCandidateIs(after, p, pool[p])
    BY <1>5, <2>1 DEF ReadCandidateIs
  <2>3. ReadStopsAre(after, p, pool[p])
    BY <1>3, <1>5 DEF ReadStopsAre
  <2>4. after.members # << >> => ReadMembersAre(after, p, pool[p], ride)
    BY <1>5, <2>1 DEF ReadMembersAre
  <2> QED BY <2>2, <2>3, <2>4
<1>7. ReadingIs(after, pool, ride)
  <2>1. s.ride \in Rides /\ ride[s.ride].status # "NONE" /\ s.at \in Nat /\ S \subseteq Pools
    BY <1>1 DEF ReadingIs
  <2> QED BY <1>4, <1>5, <1>6, <2>1 DEF ReadingIs
<1> QED BY <1>2, <1>7, ReadStep DEF s, after

LEMMA ReadMembersStep == ASSUME NEW w \in Workers, Inductive, ReadMembers(w) PROVE Inductive'
<1> DEFINE s == search[w]
           S == DOMAIN s.candidate
           read == [p \in S |-> Joined(p)]
           after == [s EXCEPT !.members = read]
<1>1. ReadingIs(s, pool, ride)
  BY ReadingSearch DEF ReadMembers
<1>2. Read(w, after)
  BY DEF ReadMembers
<1> HIDE DEF s
<1>3. ASSUME NEW p \in S
      PROVE  read[p] = JoinedIn(pool[p]) /\ read[p] \subseteq {m \in Rides : ride[m].status # "NONE"}
  <2>1. p \in Pools /\ pool[p] # NoPool
    BY <1>1 DEF ReadingIs, ReadCandidateIs
  <2>2. pool[p] \in PoolRecord /\ PoolIs(pool[p], ride)
    BY <2>1 DEF Inductive, Holds, Good
  <2>3. JoinedIn(pool[p]) \subseteq {m \in Rides : ride[m].status # "NONE"}
    BY <2>1, <2>2, JoinedInRides DEF PoolIs
  <2>4. read[p] = JoinedIn(pool[p])
    BY DEF Joined, JoinedIn
  <2> QED BY <2>3, <2>4
<1> HIDE DEF read
<1>4. after = [stage |-> "reading", ride |-> s.ride, at |-> s.at, candidate |-> s.candidate,
               stops |-> s.stops, members |-> read]
  BY <1>1 DEF ReadingIs
<1> HIDE DEF after
<1>5. /\ after.stage = "reading" /\ after.ride = s.ride /\ after.at = s.at
      /\ after.candidate = s.candidate /\ after.stops = s.stops /\ after.members = read
  BY <1>4
<1>6. ASSUME NEW p \in S
      PROVE  /\ ReadCandidateIs(after, p, pool[p]) /\ ReadMembersAre(after, p, pool[p], ride)
             /\ after.stops # << >> => ReadStopsAre(after, p, pool[p])
  <2>1. ReadCandidateIs(s, p, pool[p]) /\ (s.stops # << >> => ReadStopsAre(s, p, pool[p]))
    BY <1>1 DEF ReadingIs
  <2>2. ReadCandidateIs(after, p, pool[p])
    BY <1>5, <2>1 DEF ReadCandidateIs
  <2>3. ReadMembersAre(after, p, pool[p], ride)
    BY <1>3, <1>5 DEF ReadMembersAre
  <2>4. after.stops # << >> => ReadStopsAre(after, p, pool[p])
    BY <1>5, <2>1 DEF ReadStopsAre
  <2> QED BY <2>2, <2>3, <2>4
<1>7. ReadingIs(after, pool, ride)
  <2>1. s.ride \in Rides /\ ride[s.ride].status # "NONE" /\ s.at \in Nat /\ S \subseteq Pools
    BY <1>1 DEF ReadingIs
  <2> QED BY <1>4, <1>5, <1>6, <2>1 DEF ReadingIs
<1> QED BY <1>2, <1>7, ReadStep DEF s, after

(* The version is compared under the locks: what is offered is the best.   *)
LEMMA OfferedIsBest ==
  ASSUME NEW w \in Workers, Inductive, search[w].stage = "found",
         StillOffered(search[w].ride, search[w].plan)
  PROVE  LET s == search[w]
             p == s.plan.pool
         IN  /\ p \in Pools /\ s.ride \in Rides /\ s.at \in Nat
             /\ StillBest(s.plan, pool[p].version, s.at, s.ride, p, pool[p], ride)
             /\ Best(s.plan, ViewNow(s.at, pool[p], ride, s.ride), s.ride, p)
<1> DEFINE s == search[w]
           p == s.plan.pool
<1>1. s = Idle \/ ReadingIs(s, pool, ride) \/ FoundIs(s, pool, ride)
  BY DEF Inductive, Holds, SearchIs
<1>2. s.stage = "found" /\ pool[p].version = s.plan.version
  BY DEF StillOffered
<1> HIDE DEF s
<1>3. FoundIs(s, pool, ride)
  <2>1. Idle.stage = "idle"
    BY DEF Idle
  <2> QED BY <1>1, <1>2, <2>1 DEF ReadingIs
<1>4. /\ p \in Pools /\ s.ride \in Rides /\ s.at \in Nat
      /\ StillBest(s.plan, pool[p].version, s.at, s.ride, p, pool[p], ride)
  BY <1>2, <1>3 DEF FoundIs, StillBest
<1>5. Best(s.plan, ViewNow(s.at, pool[p], ride, s.ride), s.ride, p)
  BY <1>4 DEF StillBest
<1> QED BY <1>4, <1>5 DEF s

LEMMA CreateOfferStep == ASSUME NEW w \in Workers, Inductive, CreateOffer(w) PROVE Inductive'
<1> DEFINE s == search[w]
           p == s.plan.pool
           o == [stage |-> "pending", ride |-> s.ride, plan |-> s.plan, at |-> s.at,
                 version |-> pool[p].version, expires |-> s.at + OfferTtl]
<1>1. /\ s.stage = "found"
      /\ offer' = IF ~StillOffered(s.ride, s.plan) THEN offer ELSE [offer EXCEPT ![p] = o]
      /\ search' = [search EXCEPT ![w] = Idle]
      /\ now' = now /\ ride' = ride /\ pool' = pool /\ report' # "rewrite"
  BY DEF CreateOffer
<1>2. now \in Nat /\ search = [v \in Workers |-> search[v]] /\ offer = [q \in Pools |-> offer[q]]
  BY DEF Inductive, Holds
<1>3. /\ search' = [v \in Workers |-> search'[v]]
      /\ \A v \in Workers : search'[v] = search[v] \/ SearchIs(search'[v], pool, ride)
  BY <1>1, <1>2, NothingPending
<1>4. /\ o.ride = s.ride /\ o.plan = s.plan /\ o.at = s.at /\ o.version = pool[p].version
  OBVIOUS
<1>5. /\ offer' = [q \in Pools |-> offer'[q]]
      /\ \A q \in Pools : offer'[q] = offer[q] \/ PendingIs(offer'[q], q, pool[q], ride)
  <2>1. CASE ~StillOffered(s.ride, s.plan)
    BY <1>1, <1>2, <2>1
  <2>2. CASE StillOffered(s.ride, s.plan)
    <3>1. p \in Pools /\ StillBest(s.plan, pool[p].version, s.at, s.ride, p, pool[p], ride)
      BY <1>1, <2>2, OfferedIsBest
    <3> HIDE DEF s, p, o
    <3>2. PendingIs(o, p, pool[p], ride)
      BY <1>4, <3>1 DEF PendingIs, OfferIs
    <3>3. offer' = [offer EXCEPT ![p] = o]
      BY <1>1, <2>2
    <3> QED BY <1>2, <3>1, <3>2, <3>3
  <2> QED BY <2>1, <2>2
<1>6. Holds(now, ride, pool, search', offer', report')
  <2> HIDE DEF s, p, o
  <2> QED BY <1>1, <1>2, <1>3, <1>5, QuietFrame DEF Inductive
<1> QED BY <1>1, <1>6 DEF Inductive


(* createPoolForAcceptedOffer *)
LEMMA OpenedIs ==
  ASSUME NEW r \in Rides, NEW promised \in Int, NEW approach \in Int, NEW instant \in Nat,
         NEW rides, rides[r].status # "NONE"
  PROVE  LET q == [status |-> "FORMING", version |-> 1, created |-> instant,
                   stops |-> <<Stop(r, TRUE, From[r]), Stop(r, FALSE, To[r])>>,
                   joined |-> <<r>>, arrivals |-> Arrivals(approach, <<promised>>, instant)]
         IN  q \in PoolRecord /\ Good(q, rides)
<1> DEFINE in == Stop(r, TRUE, From[r])
           out == Stop(r, FALSE, To[r])
           stops == <<in, out>>
           joined == <<r>>
           legs == <<promised>>
           arrivals == Arrivals(approach, legs, instant)
           q == [status |-> "FORMING", version |-> 1, created |-> instant,
                 stops |-> stops, joined |-> joined, arrivals |-> arrivals]
<1>1. in \in RideStop /\ out \in RideStop
  <2>1. From[r] \in Points /\ To[r] \in Points
    BY DEF Points
  <2> HIDE DEF Points
  <2> QED BY <2>1 DEF RideStop, Stop
<1>2. in.member = r /\ in.pickup /\ out.member = r /\ ~out.pickup /\ in.pickup = TRUE /\ out.pickup = FALSE
  BY DEF Stop
<1> HIDE DEF in, out
<1>3. stops \in Seq(RideStop) /\ Len(stops) = 2 /\ DOMAIN stops = 1..2
  <2> DEFINE stop == RideStop
  <2>1. in \in stop /\ out \in stop
    BY <1>1
  <2> HIDE DEF stop
  <2> QED BY <2>1 DEF stop
<1>4. joined \in Seq(Rides) /\ Len(joined) = 1 /\ DOMAIN joined = 1..1 /\ joined # << >> /\ joined[1] = r
  OBVIOUS
<1>5. arrivals \in Seq(Int) /\ Len(arrivals) = 2
  <2>1. legs \in [1..1 -> Int] /\ 1 \in Nat /\ instant \in Int
    OBVIOUS
  <2> HIDE DEF legs
  <2>2. arrivals \in [1..(1 + 1) -> Int]
    BY <2>1, ArrivalsAre
  <2> HIDE DEF arrivals
  <2> DEFINE two == 1 + 1
  <2>3. two \in Nat /\ two = 2
    OBVIOUS
  <2>4. arrivals \in [1..two -> Int]
    BY <2>2
  <2> HIDE DEF two
  <2>5. arrivals \in Seq(Int) /\ Len(arrivals) = two
    BY <2>3, <2>4, FunctionIsSequence
  <2> QED BY <2>3, <2>5
<1>6. stops[1] = in /\ stops[2] = out
  OBVIOUS
<1> HIDE DEF stops, joined, arrivals
<1>7. q \in PoolRecord /\ q.stops = stops /\ q.joined = joined /\ q.arrivals = arrivals
  <2>1. 1 \in Nat
    OBVIOUS
  <2> QED BY <1>3, <1>4, <1>5, <2>1 DEF PoolRecord
<1> HIDE DEF q
<1>8. Paired(stops)
  <2>1. \A i \in 1..2 : i = 1 \/ i = 2
    OBVIOUS
  <2>2. 1 \in DOMAIN stops /\ 2 \in DOMAIN stops /\ 1 < 2
    BY <1>3
  <2>3. \A i, j \in DOMAIN stops : SameKey(stops[i], stops[j]) => i = j
    BY <1>2, <1>3, <1>6, <2>1 DEF SameKey
  <2>4. \A i \in DOMAIN stops : ~stops[i].pickup =>
          \E j \in DOMAIN stops : j < i /\ stops[j].member = stops[i].member /\ stops[j].pickup
    BY <1>2, <1>3, <1>6, <2>1, <2>2
  <2>5. \A i \in DOMAIN stops : stops[i].pickup =>
          \E j \in DOMAIN stops : i < j /\ stops[j].member = stops[i].member /\ ~stops[j].pickup
    BY <1>2, <1>3, <1>6, <2>1, <2>2
  <2> QED BY <2>3, <2>4, <2>5 DEF Paired
<1>9. JoinedIn(q) = {r} /\ MembersOf(stops) = {r}
  <2>1. JoinedIn(q) = {r}
    BY <1>4, <1>7 DEF JoinedIn
  <2>2. \A i \in DOMAIN stops : stops[i].member = r
    BY <1>2, <1>3, <1>6
  <2>3. 1 \in DOMAIN stops
    BY <1>3
  <2> QED BY <2>1, <2>2, <2>3 DEF MembersOf
<1>10. PoolIs(q, rides)
  <2>1. Len(q.joined) = 1 /\ Len(q.stops) = 2 /\ Len(q.arrivals) = 2 /\ 2 = 2 * 1
    BY <1>3, <1>4, <1>5, <1>7
  <2>2. Len(q.stops) = 2 * Len(q.joined) /\ Len(q.arrivals) = Len(q.stops)
    BY <2>1
  <2> QED BY <1>4, <1>7, <1>8, <1>9, <2>2 DEF PoolIs
<1>11. KindIn(q, rides) /\ WaitIn(q, rides)
  <2>1. Len(q.joined) = 1 /\ ~(1 > 1)
    BY <1>4, <1>7
  <2> QED BY <2>1 DEF KindIn, WaitIn
<1> QED BY <1>7, <1>10, <1>11 DEF Good, q, stops, joined, arrivals, in, out

LEMMA OpenPoolStep ==
  ASSUME NEW p \in Pools, NEW r \in Rides, Inductive, OpenPool(p, r) PROVE Inductive'
<1>1. RidesAre(ride) /\ now \in Nat /\ pool \in [Pools -> PoolRecord]
      /\ \A o \in Pools : Good(pool[o], ride)
  BY DEF Inductive, Holds
<1> DEFINE approach == LegTime(TravelAt(now), DriverAt[p], From[r])
           promised == ride[r].promised
           q == [status |-> "FORMING", version |-> 1, created |-> now,
                 stops |-> <<Stop(r, TRUE, From[r]), Stop(r, FALSE, To[r])>>,
                 joined |-> <<r>>, arrivals |-> Arrivals(approach, <<promised>>, now)]
<1>2. /\ pool[p] = NoPool /\ ride[r].status = "WAITING"
      /\ pool' = [pool EXCEPT ![p] = q] /\ ride' = [ride EXCEPT ![r].status = "MATCHED"]
      /\ now' = now /\ search' = search /\ offer' = offer /\ report' # "rewrite"
  BY DEF OpenPool
<1>3. approach \in Int
  <2>1. DriverAt[p] \in Points /\ From[r] \in Points
    BY DEF Points
  <2> QED BY <2>1, LegTimeType
<1>4. promised \in Int
  BY <1>1 DEF RidesAre, RideRecord
<1>5. RidesAre(ride') /\ RidesKept(ride, ride') /\ ride'[r].status # "NONE"
  BY <1>1, <1>2 DEF RidesAre, RideRecord, RidesKept
<1> HIDE DEF approach, promised
<1>6. q \in PoolRecord /\ Good(q, ride')
  BY <1>1, <1>3, <1>4, <1>5, OpenedIs
<1> HIDE DEF q
<1>7. pool' \in [Pools -> PoolRecord]
  BY <1>1, <1>2, <1>6
<1>8. ASSUME NEW o \in Pools PROVE PoolKept(pool[o], pool'[o]) /\ Good(pool'[o], ride')
  <2>1. CASE o = p
    BY <1>1, <1>2, <1>6, <2>1 DEF PoolKept
  <2>2. CASE o # p
    <3>1. pool'[o] = pool[o] /\ pool[o] \in PoolRecord /\ Good(pool[o], ride)
      BY <1>1, <1>2, <2>2
    <3> QED BY <1>5, <3>1, KeptIsKept, GoodKept
  <2> QED BY <2>1, <2>2
<1>9. search = [w \in Workers |-> search[w]] /\ offer = [o \in Pools |-> offer[o]]
  BY DEF Inductive, Holds
<1>10. Holds(now, ride', pool', search, offer, report')
  <2> DEFINE rides2 == ride'
             pools2 == pool'
             how2 == report'
  <2>1. /\ RidesAre(rides2) /\ RidesKept(ride, rides2) /\ pools2 \in [Pools -> PoolRecord]
        /\ \A o \in Pools : PoolKept(pool[o], pools2[o]) /\ Good(pools2[o], rides2)
        /\ how2 # "rewrite"
    BY <1>2, <1>5, <1>7, <1>8
  <2>2. Holds(now, ride, pool, search, offer, report)
    BY DEF Inductive
  <2> HIDE DEF rides2, pools2, how2
  <2>3. Holds(now, rides2, pools2, search, offer, how2)
    BY <1>1, <1>9, <2>1, <2>2, Frame
  <2> QED BY <2>3 DEF rides2, pools2, how2
<1> QED BY <1>2, <1>10 DEF Inductive


-----------------------------------------------------------------------------
(* acceptAddPassengerOffer *)
LEMMA AnySequence ==
  ASSUME NEW s \in Seq(RideStop)
  PROVE  s \in Seq(AnyStop)
<1> DEFINE any == AnyStop
           n == Len(s)
<1>1. n \in Nat /\ DOMAIN s = 1..n /\ s = [i \in 1..n |-> s[i]] /\ \A i \in DOMAIN s : s[i] \in any
  BY SequenceParts, StopSets
<1> HIDE DEF any, n
<1>2. s \in [1..n -> any]
  BY <1>1
<1>3. s \in Seq(any)
  BY <1>1, <1>2, FunctionIsSequence
<1> QED BY <1>3 DEF any

LEMMA AppendIs ==
  ASSUME NEW S, NEW s \in Seq(S), NEW e \in S
  PROVE  LET t == Append(s, e)
         IN  /\ t \in Seq(S) /\ Len(t) = Len(s) + 1 /\ t # << >> /\ Last(t) = e
             /\ {t[i] : i \in DOMAIN t} = {s[i] : i \in DOMAIN s} \cup {e}
<1> DEFINE t == Append(s, e)
           n == Len(s)
<1>1. n \in Nat /\ DOMAIN s = 1..n
  BY SequenceParts
<1>2. t \in Seq(S) /\ Len(t) = n + 1 /\ t[n + 1] = e /\ \A i \in 1..n : t[i] = s[i]
  BY AppendProperties
<1>3. DOMAIN t = 1..(n + 1)
  BY <1>2, SequenceParts
<1> HIDE DEF t, n
<1>4. t # << >>
  <2>1. Len(t) # 0
    BY <1>1, <1>2
  <2> QED BY <2>1
<1>5. Last(t) = e
  BY <1>2 DEF Last
<1>6. \A i \in 1..(n + 1) : i \in 1..n \/ i = n + 1
  BY <1>1
<1>7. n + 1 \in 1..(n + 1) /\ \A i \in 1..n : i \in 1..(n + 1)
  BY <1>1
<1>8. {t[i] : i \in DOMAIN t} = {s[i] : i \in DOMAIN s} \cup {e}
  BY <1>1, <1>2, <1>3, <1>6, <1>7
<1> QED BY <1>2, <1>4, <1>5, <1>8 DEF t, n

(* The plan a driver accepts, with the newcomer for one of the members. *)
ShownPlan(plan, q, at, rides, r, p) ==
  /\ IsPlan(plan, ViewNow(at, q, rides, r), p)
  /\ Len(q.joined) < Capacity /\ r \notin JoinedIn(q)
  /\ at \in Nat /\ rides[r].status # "NONE"

LEMMA ShownPlanIs ==
  ASSUME NEW rides, RidesAre(rides), NEW q \in PoolRecord, q # NoPool, PoolIs(q, rides),
         NEW r \in Rides, NEW p \in Pools, NEW at, NEW plan, ShownPlan(plan, q, at, rides, r, p)
  PROVE  /\ plan.stops \in Seq(PlanStop) /\ Paired(plan.stops)
         /\ NewMember \in MembersOf(plan.stops) /\ r \notin MembersOf(plan.stops)
         /\ MembersOf(plan.stops) = JoinedIn(q) \cup {NewMember} /\ NewMember \notin JoinedIn(q)
         /\ Len(plan.stops) = 2 * Len(q.joined) + 2
         /\ \A k \in DOMAIN q.stops : \E i \in DOMAIN plan.stops : plan.stops[i] = q.stops[k]
         /\ plan.approach \in Int /\ plan.legs \in [1..(Len(plan.stops) - 1) -> Int]
         /\ plan.metrics.detour \in Int /\ plan.metrics.ratio \in Int
         /\ \A m \in JoinedIn(q) :
              LET time == RideTime(plan.stops, Arrivals(plan.approach, plan.legs, at), m)
              IN  /\ time - rides[m].promised <= plan.metrics.detour
                  /\ Ratio(rides[m].promised, time) <= plan.metrics.ratio
<1> DEFINE view == ViewNow(at, q, rides, r)
<1>1. JoinedIn(q) \subseteq {m \in Rides : rides[m].status # "NONE"}
  BY JoinedInRides DEF PoolIs
<1>2. /\ view.stops = q.stops /\ view.at = at /\ DOMAIN view.promises = JoinedIn(q)
      /\ \A m \in JoinedIn(q) : view.promises[m] = rides[m].promised
  BY DEF ViewNow, View
<1> HIDE DEF view
<1>3. IsPlan(plan, view, p) /\ r \notin JoinedIn(q)
  BY DEF ShownPlan, view
<1>4. MembersOf(q.stops) = JoinedIn(q) /\ Len(q.stops) = 2 * Len(q.joined)
  BY DEF PoolIs
<1>5. NewMember \notin JoinedIn(q) /\ r # NewMember
  BY <1>1, StopSets
<1>6. /\ plan.stops \in Seq(PlanStop) /\ Paired(plan.stops)
      /\ NewMember \in MembersOf(plan.stops)
      /\ MembersOf(plan.stops) = JoinedIn(q) \cup {NewMember}
      /\ Len(plan.stops) = 2 * Len(q.joined) + 2
      /\ \A k \in DOMAIN q.stops : \E i \in DOMAIN plan.stops : plan.stops[i] = q.stops[k]
      /\ plan.approach \in Int /\ plan.legs \in [1..(Len(plan.stops) - 1) -> Int]
      /\ plan.metrics.detour \in Int /\ plan.metrics.ratio \in Int
  BY <1>2, <1>3, <1>4 DEF IsPlan
<1>7. KnownTo(plan.stops, DOMAIN view.promises) = JoinedIn(q)
  BY <1>2, <1>5, <1>6 DEF KnownTo
<1>8. ASSUME NEW m \in JoinedIn(q)
      PROVE  LET time == RideTime(plan.stops, Arrivals(plan.approach, plan.legs, at), m)
             IN  /\ time - rides[m].promised <= plan.metrics.detour
                 /\ Ratio(rides[m].promised, time) <= plan.metrics.ratio
  <2>1. LET time == RideTime(plan.stops, Arrivals(plan.approach, plan.legs, view.at), m)
        IN  /\ time - view.promises[m] <= plan.metrics.detour
            /\ Ratio(view.promises[m], time) <= plan.metrics.ratio
    BY <1>3, <1>7 DEF IsPlan
  <2> QED BY <1>2, <2>1
<1> QED BY <1>3, <1>5, <1>6, <1>8

LEMMA NamedIsRewritable ==
  ASSUME NEW rides, RidesAre(rides), NEW q \in PoolRecord, q # NoPool, PoolIs(q, rides),
         NEW r \in Rides, NEW p \in Pools, NEW at, NEW plan, ShownPlan(plan, q, at, rides, r, p)
  PROVE  Rewritable(q.stops, Named(plan.stops, r))
<1> DEFINE named == Named(plan.stops, r)
           n == Len(q.joined)
<1>1. /\ plan.stops \in Seq(PlanStop) /\ Paired(plan.stops) /\ Len(plan.stops) = 2 * n + 2
      /\ NewMember \in MembersOf(plan.stops) /\ r \notin MembersOf(plan.stops)
      /\ \A k \in DOMAIN q.stops : \E i \in DOMAIN plan.stops : plan.stops[i] = q.stops[k]
  BY ShownPlanIs
<1>2. /\ named \in Seq(RideStop) /\ Len(named) = Len(plan.stops) /\ Paired(named)
      /\ \A i \in DOMAIN plan.stops : plan.stops[i].member # NewMember => named[i] = plan.stops[i]
  BY <1>1, NamedIs
<1> HIDE DEF named
<1>3. q.stops \in Seq(RideStop) /\ q.joined \in Seq(Rides)
  BY DEF PoolRecord
<1>4. q.stops \in Seq(AnyStop) /\ named \in Seq(AnyStop)
  BY <1>2, <1>3, AnySequence
<1>5. n \in Nat \ {0} /\ n < Capacity /\ Len(q.stops) = 2 * n
  BY <1>3, EmptySeq DEF PoolIs, ShownPlan
<1> HIDE DEF n
<1>6. q.stops # << >>
  <2>1. Len(q.stops) # 0
    BY <1>5
  <2> QED BY <2>1
<1>7. Len(named) <= SequenceOffset
  <2>1. Capacity \in Nat /\ 2 * Capacity <= SequenceOffset
    BY JoinSearchAssumption
  <2>2. 2 * n + 2 <= 2 * Capacity /\ SequenceOffset \in Nat
    BY <1>5, <2>1 DEF SequenceOffset
  <2>3. 2 * n + 2 <= SequenceOffset
    BY <1>5, <2>1, <2>2
  <2> QED BY <1>1, <1>2, <2>3
<1>8. ASSUME NEW k \in DOMAIN q.stops PROVE \E i \in DOMAIN named : SameKey(q.stops[k], named[i])
  <2>1. PICK i \in DOMAIN plan.stops : plan.stops[i] = q.stops[k]
    BY <1>1
  <2>2. q.stops[k] \in RideStop
    BY <1>3, SequenceParts
  <2>3. q.stops[k].member # NewMember
    BY <2>2, StopSets
  <2>4. named[i] = q.stops[k]
    BY <1>2, <2>1, <2>3
  <2>5. DOMAIN named = DOMAIN plan.stops
    BY <1>1, <1>2, SequenceParts
  <2> QED BY <2>1, <2>4, <2>5 DEF SameKey
<1>9. /\ \A i, j \in DOMAIN named : SameKey(named[i], named[j]) => i = j
      /\ \A i \in DOMAIN named : ~named[i].pickup =>
           \E j \in DOMAIN named : j < i /\ named[j].member = named[i].member /\ named[j].pickup
  BY <1>2 DEF Paired
<1> QED BY <1>4, <1>6, <1>7, <1>8, <1>9 DEF Rewritable, named


(* Who has joined rides as the plan said: nobody's ride grows beyond the   *)
(* limits, and the newcomer's wait counts from this instant.               *)
JoinedPool(q, plan, r, instant) ==
  [q EXCEPT !.version = @ + 1, !.stops = Named(plan.stops, r), !.joined = Append(@, r),
            !.arrivals = Arrivals(plan.approach, plan.legs, instant)]

LEMMA JoinedPoolIs ==
  ASSUME NEW rides, RidesAre(rides), NEW after, RidesKept(rides, after),
         NEW q \in PoolRecord, q # NoPool, q.status # "NONE", PoolIs(q, rides),
         NEW r \in Rides, NEW p \in Pools, NEW at, NEW plan, ShownPlan(plan, q, at, rides, r, p),
         NEW instant \in Nat,
         plan.metrics.detour <= Limits.detour, plan.metrics.ratio <= Limits.ratio,
         Larger(0, Arrivals(plan.approach, plan.legs, instant)[PlaceOf(plan.stops, NewMember, TRUE)]
                     - rides[r].requested) <= Limits.wait
  PROVE  LET q2 == JoinedPool(q, plan, r, instant)
         IN  q2 \in PoolRecord /\ Good(q2, after) /\ PoolKept(q, q2)
<1> DEFINE named == Named(plan.stops, r)
           stops == plan.stops
           arrivals == Arrivals(plan.approach, plan.legs, instant)
           earlier == Arrivals(plan.approach, plan.legs, at)
           joined == Append(q.joined, r)
           q2 == JoinedPool(q, plan, r, instant)
           n == Len(q.joined)
           old == JoinedIn(q)
<1>1. /\ stops \in Seq(PlanStop) /\ Paired(stops)
      /\ NewMember \in MembersOf(stops) /\ r \notin MembersOf(stops)
      /\ MembersOf(stops) = old \cup {NewMember} /\ NewMember \notin old
      /\ Len(stops) = 2 * n + 2
      /\ plan.approach \in Int /\ plan.legs \in [1..(Len(stops) - 1) -> Int]
      /\ plan.metrics.detour \in Int /\ plan.metrics.ratio \in Int
      /\ \A m \in old :
           /\ RideTime(stops, earlier, m) - rides[m].promised <= plan.metrics.detour
           /\ Ratio(rides[m].promised, RideTime(stops, earlier, m)) <= plan.metrics.ratio
  BY ShownPlanIs
<1>2. /\ named \in Seq(RideStop) /\ Len(named) = Len(stops) /\ Paired(named)
      /\ MembersOf(named) = (MembersOf(stops) \ {NewMember}) \cup {r}
      /\ PlaceOf(named, r, TRUE) = PlaceOf(stops, NewMember, TRUE)
      /\ \A m \in old : /\ PlaceOf(named, m, TRUE) = PlaceOf(stops, m, TRUE)
                        /\ PlaceOf(named, m, FALSE) = PlaceOf(stops, m, FALSE)
  <2>1. /\ named \in Seq(RideStop) /\ Len(named) = Len(stops) /\ Paired(named)
        /\ MembersOf(named) = (MembersOf(stops) \ {NewMember}) \cup {r}
        /\ \A b \in BOOLEAN :
             /\ PlaceOf(named, r, b) = PlaceOf(stops, NewMember, b)
             /\ \A m \in MembersOf(stops) \ {NewMember} : PlaceOf(named, m, b) = PlaceOf(stops, m, b)
    BY <1>1, NamedIs
  <2>2. \A m \in old : m \in MembersOf(stops) \ {NewMember}
    BY <1>1
  <2> QED BY <2>1, <2>2
<1>3. /\ q.joined \in Seq(Rides) /\ q.version \in Nat /\ n \in Nat
      /\ old \subseteq {m \in Rides : rides[m].status # "NONE"} /\ r \notin old
  <2>1. q.joined \in Seq(Rides) /\ q.version \in Nat
    BY DEF PoolRecord
  <2> QED BY <2>1, SequenceParts, JoinedInRides DEF PoolIs, ShownPlan
<1>4. /\ joined \in Seq(Rides) /\ Len(joined) = n + 1 /\ joined # << >> /\ Last(joined) = r
      /\ {joined[i] : i \in DOMAIN joined} = old \cup {r}
  <2> DEFINE s == q.joined
             u == Append(s, r)
  <2>1. s \in Seq(Rides)
    BY <1>3
  <2> HIDE DEF s
  <2>2. /\ u \in Seq(Rides) /\ Len(u) = Len(s) + 1 /\ u # << >> /\ Last(u) = r
        /\ {u[i] : i \in DOMAIN u} = {s[i] : i \in DOMAIN s} \cup {r}
    BY <2>1, AppendIs
  <2>3. joined = u /\ n = Len(s) /\ old = {s[i] : i \in DOMAIN s}
    BY DEF s, JoinedIn
  <2> HIDE DEF joined, u, n, old
  <2> QED BY <2>2, <2>3
<1>5. arrivals \in Seq(Int) /\ Len(arrivals) = Len(stops)
      /\ arrivals[PlaceOf(stops, NewMember, TRUE)] \in Int
  <2> DEFINE k == Len(stops) - 1
             legs == plan.legs
             m == k + 1
  <2>1. k \in Nat /\ legs \in [1..k -> Int] /\ instant \in Int
        /\ PlaceOf(stops, NewMember, TRUE) \in 1..(k + 1)
    <3> DEFINE list == stops
    <3>1. /\ list \in Seq(PlanStop) /\ Paired(list) /\ NewMember \in MembersOf(list)
          /\ legs \in [1..(Len(list) - 1) -> Int]
      BY <1>1
    <3>2. TRUE \in BOOLEAN
      OBVIOUS
    <3> HIDE DEF list, legs
    <3>3. Len(list) - 1 \in Nat /\ PlaceOf(list, NewMember, TRUE) \in 1..((Len(list) - 1) + 1)
      BY <3>1, <3>2, PlaceIsThere
    <3>4. Len(stops) - 1 \in Nat /\ PlaceOf(stops, NewMember, TRUE) \in 1..((Len(stops) - 1) + 1)
          /\ legs \in [1..(Len(stops) - 1) -> Int]
      BY <3>1, <3>3 DEF list
    <3>5. instant \in Int
      OBVIOUS
    <3> HIDE DEF stops
    <3> QED BY <3>4, <3>5
  <2>2. m = Len(stops)
    <3>1. Len(stops) \in Nat
      BY <1>1, SequenceParts
    <3> DEFINE l == Len(stops)
    <3>2. l \in Nat
      BY <3>1
    <3> HIDE DEF l
    <3>3. (l - 1) + 1 = l
      BY <3>2
    <3> QED BY <3>3 DEF l
  <2> HIDE DEF k, legs
  <2>3. Arrivals(plan.approach, legs, instant) \in [1..(k + 1) -> Int]
    BY <1>1, <2>1, ArrivalsAre
  <2>4. m \in Nat /\ arrivals \in [1..m -> Int] /\ PlaceOf(stops, NewMember, TRUE) \in 1..m
    <3>1. m \in Nat
      BY <2>1
    <3>2. arrivals \in [1..m -> Int]
      BY <2>3 DEF legs
    <3> QED BY <2>1, <3>1, <3>2
  <2> HIDE DEF arrivals, m
  <2>5. arrivals \in Seq(Int) /\ Len(arrivals) = m
    BY <2>4, FunctionIsSequence
  <2> QED BY <2>2, <2>4, <2>5
<1>6. /\ q2 \in PoolRecord /\ q2.status = q.status /\ q2.version = q.version + 1
      /\ q2.stops = named /\ q2.joined = joined /\ q2.arrivals = arrivals
  <2> HIDE DEF named, joined, arrivals
  <2>1. q.version + 1 \in Nat
    BY <1>3
  <2> QED BY <1>2, <1>4, <1>5, <2>1 DEF JoinedPool, PoolRecord, named, joined, arrivals
<1> HIDE DEF named, joined, arrivals, earlier, q2
<1>7. JoinedIn(q2) = old \cup {r}
  BY <1>4, <1>6 DEF JoinedIn
<1>8. q2 # NoPool
  BY <1>6, NoPoolIs
<1>9. PoolKept(q, q2)
  BY <1>3, <1>6, <1>8 DEF PoolKept
<1>10. after[r].status # "NONE" /\ after[r].requested = rides[r].requested
       /\ \A m \in old : after[m].status # "NONE" /\ after[m].promised = rides[m].promised
  BY <1>3 DEF ShownPlan, RidesKept
<1>11. PoolIs(q2, after)
  <2>1. MembersOf(named) = old \cup {r}
    BY <1>1, <1>2
  <2>2. Len(named) = 2 * Len(joined)
    BY <1>1, <1>2, <1>3, <1>4
  <2> QED BY <1>2, <1>4, <1>5, <1>6, <1>7, <1>10, <2>1, <2>2 DEF PoolIs
<1>12. ASSUME NEW m \in old
       PROVE  /\ RideTime(named, arrivals, m) - rides[m].promised <= Limits.detour
              /\ 100 * RideTime(named, arrivals, m) <= Limits.ratio * rides[m].promised
  <2> DEFINE time == RideTime(stops, earlier, m)
  <2>1. m \in MembersOf(stops) /\ at \in Int /\ instant \in Int
    BY <1>1 DEF ShownPlan
  <2>2. time \in Int /\ RideTime(stops, arrivals, m) = time
    BY <1>1, <2>1, RideTimeIs DEF arrivals, earlier
  <2>3. RideTime(named, arrivals, m) = RideTime(stops, arrivals, m)
    BY <1>2 DEF RideTime
  <2>4. rides[m].promised \in Nat \ {0}
    BY <1>3 DEF RidesAre, RideRecord
  <2>5. Limits.detour \in Int /\ Limits.ratio \in Int
    BY JoinSearchAssumption
  <2>6. time - rides[m].promised <= plan.metrics.detour /\ Ratio(rides[m].promised, time) <= plan.metrics.ratio
    BY <1>1
  <2> DEFINE promised == rides[m].promised
             limit == Limits.ratio
             worst == plan.metrics.ratio
             ratio == Ratio(promised, time)
  <2>7. ratio \in Int
    BY <2>2, <2>4, <2>5, RatioBounds
  <2>8. promised \in Nat \ {0} /\ limit \in Int /\ worst \in Int
    BY <1>1, <2>4, <2>5
  <2>9. ratio <= worst /\ worst <= limit
    BY <2>6
  <2> HIDE DEF promised, limit, worst, time, ratio
  <2>10. ratio <= limit
    BY <2>7, <2>8, <2>9
  <2>11. 100 * time <= limit * promised
    BY <2>2, <2>8, <2>10, RatioBounds DEF ratio
  <2>12. time - promised <= Limits.detour
    <3> DEFINE x == plan.metrics.detour
               y == Limits.detour
    <3>1. x \in Int /\ y \in Int /\ x <= y /\ time - promised <= x
      BY <1>1, <2>5, <2>6 DEF time, promised
    <3> HIDE DEF x, y
    <3>2. time - promised <= y
      BY <2>2, <2>8, <3>1
    <3> QED BY <3>2 DEF y
  <2> QED BY <2>2, <2>3, <2>11, <2>12 DEF promised, limit
<1>13. KindIn(q2, after)
  <2>1. ASSUME NEW m \in JoinedIn(q2) \ {Last(q2.joined)} PROVE m \in old
    BY <1>4, <1>6, <1>7
  <2>2. ASSUME NEW m \in JoinedIn(q2) \ {Last(q2.joined)}
        PROVE  LET time == RideTime(q2.stops, q2.arrivals, m)
               IN  /\ time - after[m].promised <= Limits.detour
                   /\ 100 * time <= Limits.ratio * after[m].promised
    <3>1. m \in old /\ after[m].promised = rides[m].promised
      BY <1>10, <2>1
    <3> QED BY <1>6, <1>12, <3>1
  <2> QED BY <2>2 DEF KindIn
<1>14. WaitIn(q2, after)
  <2> DEFINE start == arrivals[PlaceOf(stops, NewMember, TRUE)]
             asked == rides[r].requested
             limit == Limits.wait
  <2>1. start \in Int /\ asked \in Int /\ limit \in Int
    <3>1. asked \in Nat
      BY DEF RidesAre, RideRecord
    <3>2. limit \in Int
      BY JoinSearchAssumption
    <3>3. start \in Int
      BY <1>5
    <3> HIDE DEF start, asked, limit
    <3> QED BY <3>1, <3>2, <3>3
  <2>2. Larger(0, start - asked) <= limit
    BY DEF arrivals
  <2>3. q2.arrivals[PlaceOf(q2.stops, Last(q2.joined), TRUE)] = start
        /\ after[Last(q2.joined)].requested = asked
    BY <1>2, <1>4, <1>6, <1>10
  <2> HIDE DEF start, asked, limit
  <2>4. start - asked <= limit
    BY <2>1, <2>2 DEF Larger
  <2> QED BY <2>3, <2>4 DEF WaitIn, limit
<1> QED BY <1>6, <1>9, <1>11, <1>13, <1>14 DEF Good, q2


(* What the driver answers about, once the pool is found as it was offered. *)
LEMMA OfferedIsShown ==
  ASSUME NEW p \in Pools, Inductive, offer[p] # NoOffer, offer[p].version = pool[p].version,
         Len(pool[p].joined) < Capacity, ~InPool(offer[p].ride)
  PROVE  /\ offer[p].ride \in Rides /\ pool[p] # NoPool
         /\ ShownPlan(offer[p].plan, pool[p], offer[p].at, ride, offer[p].ride, p)
         /\ offer[p].plan.metrics =
              [added |-> offer[p].plan.metrics.added, wait |-> offer[p].plan.metrics.wait,
               detour |-> offer[p].plan.metrics.detour, ratio |-> offer[p].plan.metrics.ratio]
<1> DEFINE o == offer[p]
           q == pool[p]
           r == o.ride
           plan == o.plan
           view == ViewNow(o.at, q, ride, r)
<1>1. OfferIs(o, p, q, ride) /\ q \in PoolRecord /\ PoolIs(q, ride) /\ RidesAre(ride)
  BY DEF Inductive, Holds, PendingIs, Good
<1>2. o.version = q.version /\ Len(q.joined) < Capacity
  OBVIOUS
<1>3. r \notin JoinedIn(q)
  BY DEF InPool, Joined, JoinedIn
<1> HIDE DEF o, q
<1>4. r \in Rides /\ ride[r].status # "NONE" /\ o.at \in Nat /\ q # NoPool
      /\ Best(plan, view, r, p)
  BY <1>1, <1>2 DEF OfferIs, StillBest
<1>5. Clear(view)
  <2> DEFINE c == CandidateOf(q)
  <2>1. c.version \in Nat /\ c.created \in Nat /\ c.planned \in Int
    BY <1>1, <1>4, CandidateIs
  <2>2. q.stops \in Seq(RideStop)
    BY <1>1 DEF PoolRecord
  <2>3. JoinedIn(q) \subseteq {m \in Rides : ride[m].status # "NONE"}
    BY <1>1, <1>4, JoinedInRides DEF PoolIs
  <2> HIDE DEF c, r
  <2>4. Clear(View(o.at, c, q.stops, JoinedIn(q), ride, r))
    BY <1>1, <1>4, <2>1, <2>2, <2>3, ViewIsClear
  <2> QED BY <2>4 DEF ViewNow, c
<1> HIDE DEF r, plan, view
<1>6. IsPlan(plan, view, p)
  BY <1>4, <1>5, WeighedAre DEF Best
<1>7. ShownPlan(plan, q, o.at, ride, r, p)
  BY <1>2, <1>3, <1>4, <1>6 DEF ShownPlan, view
<1>8. plan.metrics = [added |-> plan.metrics.added, wait |-> plan.metrics.wait,
                      detour |-> plan.metrics.detour, ratio |-> plan.metrics.ratio]
  BY <1>6 DEF IsPlan
<1> QED BY <1>4, <1>7, <1>8 DEF o, q, r, plan

(* The rewrite is never refused, and stores the order of the plan.         *)
LEMMA StoredIs ==
  ASSUME NEW p \in Pools, Inductive, offer[p] # NoOffer, offer[p].version = pool[p].version,
         Len(pool[p].joined) < Capacity, ~InPool(offer[p].ride)
  PROVE  LET named == Named(offer[p].plan.stops, offer[p].ride)
             table == Rewrite(RowsOf(StopsOf(p)), named, offer[p].ride)
         IN  table # Refused /\ OrderedStops(table) = named
<1> DEFINE q == pool[p]
           r == offer[p].ride
           plan == offer[p].plan
           at == offer[p].at
           named == Named(plan.stops, r)
<1>1. r \in Rides /\ q # NoPool /\ ShownPlan(plan, q, at, ride, r, p)
  BY OfferedIsShown
<1>2. q \in PoolRecord /\ PoolIs(q, ride) /\ RidesAre(ride)
  BY DEF Inductive, Holds, Good
<1>3. StopsOf(p) = q.stops
  BY DEF StopsOf
<1> HIDE DEF q, r, plan, at
<1>4. Rewritable(q.stops, named)
  BY <1>1, <1>2, NamedIsRewritable
<1> HIDE DEF named
<1>5. Rewrite(RowsOf(q.stops), named, r) = RowsOf(named)
  BY <1>4, RewriteIs
<1>6. OrderedStops(RowsOf(named)) = named
  BY <1>4, OrderedStopsAre DEF Rewritable
<1>7. RowsOf(named) # Refused
  <2>1. q.stops \in Seq(AnyStop) /\ q.stops # << >>
    BY <1>4 DEF Rewritable
  <2>2. Len(q.stops) \in Nat \ {0} /\ DOMAIN q.stops = 1..Len(q.stops)
    BY <2>1, EmptySeq, SequenceParts
  <2>3. 1 \in DOMAIN q.stops
    BY <2>2
  <2>4. DOMAIN named # {}
    BY <1>4, <2>3 DEF Rewritable
  <2> QED BY <2>4 DEF RowsOf, Refused
<1> QED BY <1>3, <1>5, <1>6, <1>7 DEF q, r, plan, named

(* The ways an answer of yes can end. *)
LEMMA AcceptEnds ==
  ASSUME NEW p \in Pools, Inductive, Accept(p)
  PROVE  \/ /\ offer' = offer \/ offer' = [offer EXCEPT ![p] = NoOffer]
            /\ UNCHANGED <<now, ride, pool, search>> /\ report' # "rewrite"
         \/ /\ offer[p] # NoOffer /\ ride[offer[p].ride].status = "WAITING"
            /\ ~InPool(offer[p].ride) /\ pool[p].status = "FORMING"
            /\ pool[p].version = offer[p].version /\ Len(pool[p].joined) < Capacity
            /\ Allowed(Fits(offer[p].plan.stops, Capacity),
                       Reanchored(offer[p].plan, offer[p].ride), Limits)
            /\ pool' = [pool EXCEPT ![p] = JoinedPool(@, offer[p].plan, offer[p].ride, now)]
            /\ ride' = [ride EXCEPT ![offer[p].ride].status = "MATCHED"]
            /\ offer' = [offer EXCEPT ![p] = NoOffer]
            /\ UNCHANGED <<now, search>> /\ report' # "rewrite"
<1> DEFINE r == offer[p].ride
           plan == offer[p].plan
           named == Named(plan.stops, r)
           table == Rewrite(RowsOf(StopsOf(p)), named, r)
           Asked == /\ offer[p] # NoOffer /\ ride[r].status = "WAITING"
                    /\ ~InPool(r) /\ pool[p].status = "FORMING"
                    /\ pool[p].version = offer[p].version /\ ~(Len(pool[p].joined) >= Capacity)
                    /\ Allowed(Fits(plan.stops, Capacity), Reanchored(plan, r), Limits)
           Stored == /\ pool' = [pool EXCEPT
                             ![p].version = @ + 1,
                             ![p].stops = OrderedStops(table),
                             ![p].joined = Append(@, r),
                             ![p].arrivals = Arrivals(plan.approach, plan.legs, now)]
                     /\ ride' = [ride EXCEPT ![r].status = "MATCHED"]
                     /\ offer' = [offer EXCEPT ![p] = NoOffer]
                     /\ report' = "joined"
                     /\ UNCHANGED <<now, search>>
           Quiet == /\ offer' = offer \/ offer' = [offer EXCEPT ![p] = NoOffer]
                    /\ UNCHANGED <<now, ride, pool, search>> /\ report' # "rewrite"
<1>1. \/ Quiet
      \/ Asked /\ table = Refused
      \/ Asked /\ table # Refused /\ Stored
  BY DEF Accept, Pending
<1>2. ASSUME Asked
      PROVE  Len(pool[p].joined) < Capacity /\ table # Refused /\ OrderedStops(table) = named
  <2>1. Len(pool[p].joined) < Capacity
    <3> DEFINE n == Len(pool[p].joined)
    <3>1. n \in Nat /\ Capacity \in Nat
      <4>1. pool[p] \in PoolRecord
        BY DEF Inductive, Holds
      <4>2. pool[p].joined \in Seq(Rides)
        BY <4>1 DEF PoolRecord
      <4> QED BY <4>2, SequenceParts, JoinSearchAssumption
    <3>2. ~(n >= Capacity)
      BY <1>2
    <3> HIDE DEF n
    <3>3. n < Capacity
      BY <3>1, <3>2
    <3> QED BY <3>3 DEF n
  <2> QED BY <1>2, <2>1, StoredIs
<1>3. ASSUME Asked, Stored
      PROVE  pool' = [pool EXCEPT ![p] = JoinedPool(@, plan, r, now)]
  <2> DEFINE arrivals == Arrivals(plan.approach, plan.legs, now)
             q == pool[p]
  <2>1. pool' = [pool EXCEPT ![p].version = @ + 1, ![p].stops = named,
                             ![p].joined = Append(@, r), ![p].arrivals = arrivals]
    BY <1>2, <1>3
  <2>2. pool \in [Pools -> PoolRecord]
    BY DEF Inductive, Holds
  <2>3. JoinedPool(q, plan, r, now) =
          [q EXCEPT !.version = @ + 1, !.stops = named, !.joined = Append(@, r),
                    !.arrivals = arrivals]
    BY DEF JoinedPool
  <2> HIDE DEF named, arrivals, r
  <2>4. pool' = [pool EXCEPT ![p] = [q EXCEPT !.version = @ + 1, !.stops = named,
                                              !.joined = Append(@, r), !.arrivals = arrivals]]
    BY <2>1, <2>2 DEF PoolRecord
  <2> QED BY <2>3, <2>4
<1> HIDE DEF table, named
<1> QED BY <1>1, <1>2, <1>3

LEMMA AcceptStep == ASSUME NEW p \in Pools, Inductive, Accept(p) PROVE Inductive'
<1> DEFINE o == offer[p]
           r == o.ride
           plan == o.plan
           q == pool[p]
           Quiet == /\ offer' = offer \/ offer' = [offer EXCEPT ![p] = NoOffer]
                    /\ UNCHANGED <<now, ride, pool, search>> /\ report' # "rewrite"
           Joining ==
             /\ o # NoOffer /\ ride[r].status = "WAITING"
             /\ ~InPool(r) /\ q.status = "FORMING"
             /\ q.version = o.version /\ Len(q.joined) < Capacity
             /\ Allowed(Fits(plan.stops, Capacity), Reanchored(plan, r), Limits)
             /\ pool' = [pool EXCEPT ![p] = JoinedPool(@, plan, r, now)]
             /\ ride' = [ride EXCEPT ![r].status = "MATCHED"]
             /\ offer' = [offer EXCEPT ![p] = NoOffer]
             /\ UNCHANGED <<now, search>> /\ report' # "rewrite"
<1>1. Quiet \/ Joining
  BY AcceptEnds
<1>2. /\ now \in Nat /\ RidesAre(ride) /\ pool \in [Pools -> PoolRecord]
      /\ \A k \in Pools : Good(pool[k], ride)
      /\ search = [w \in Workers |-> search[w]] /\ offer = [k \in Pools |-> offer[k]]
  BY DEF Inductive, Holds
<1>3. CASE Quiet
  <2>1. CASE offer' = offer
    <3>1. Holds(now, ride, pool, search, offer, report')
      BY <1>2, <1>3, QuietFrame DEF Inductive
    <3> QED BY <1>3, <2>1, <3>1 DEF Inductive
  <2>2. CASE offer' = [offer EXCEPT ![p] = NoOffer]
    BY <1>3, <2>2, OfferGone
  <2> QED BY <1>3, <2>1, <2>2
<1>4. CASE Joining
  <2>1. /\ r \in Rides /\ q # NoPool /\ ShownPlan(plan, q, o.at, ride, r, p)
        /\ plan.metrics = [added |-> plan.metrics.added, wait |-> plan.metrics.wait,
                           detour |-> plan.metrics.detour, ratio |-> plan.metrics.ratio]
    BY <1>4, OfferedIsShown
  <2> DEFINE start == Arrivals(plan.approach, plan.legs, now)[PlaceOf(plan.stops, NewMember, TRUE)]
  <2>2. /\ plan.metrics.detour <= Limits.detour /\ plan.metrics.ratio <= Limits.ratio
        /\ Larger(0, start - ride[r].requested) <= Limits.wait
    <3> DEFINE wait == Larger(0, start - ride[r].requested)
               metrics == plan.metrics
    <3>1. Reanchored(plan, r) = [metrics EXCEPT !.wait = wait]
      BY DEF Reanchored
    <3>2. Allowed(Fits(plan.stops, Capacity), Reanchored(plan, r), Limits)
      BY <1>4
    <3> HIDE DEF wait
    <3>3. metrics = [added |-> metrics.added, wait |-> metrics.wait,
                     detour |-> metrics.detour, ratio |-> metrics.ratio]
      BY <2>1
    <3> HIDE DEF metrics
    <3>4. LET later == [metrics EXCEPT !.wait = wait]
          IN  later.wait = wait /\ later.detour = metrics.detour /\ later.ratio = metrics.ratio
      BY <3>3
    <3>5. wait <= Limits.wait /\ metrics.detour <= Limits.detour /\ metrics.ratio <= Limits.ratio
      BY <3>1, <3>2, <3>4 DEF Allowed
    <3> QED BY <3>5 DEF wait, metrics
  <2>3. q \in PoolRecord /\ PoolIs(q, ride) /\ q.status # "NONE"
    BY <1>2, <1>4 DEF Good
  <2>4. RidesAre(ride') /\ RidesKept(ride, ride')
    <3> HIDE DEF r
    <3>1. ride' = [ride EXCEPT ![r].status = "MATCHED"] /\ ride[r].status = "WAITING" /\ r \in Rides
      BY <1>4, <2>1
    <3>2. RidesAre(ride)
      BY <1>2
    <3> QED BY <3>1, <3>2 DEF RidesAre, RideRecord, RidesKept
  <2> DEFINE at == o.at
             rides2 == ride'
             q2 == JoinedPool(q, plan, r, now)
             pools2 == pool'
             offers2 == offer'
             how2 == report'
  <2>5. pools2 = [pool EXCEPT ![p] = q2] /\ offers2 = [offer EXCEPT ![p] = NoOffer]
        /\ how2 # "rewrite" /\ now' = now /\ search' = search
    BY <1>4
  <2> HIDE DEF r, plan, q, at, o, rides2, pools2, offers2, how2
  <2>6. q2 \in PoolRecord /\ Good(q2, rides2) /\ PoolKept(q, q2)
    BY <1>2, <2>1, <2>2, <2>3, <2>4, JoinedPoolIs DEF rides2, at
  <2> HIDE DEF q2
  <2>7. pools2 \in [Pools -> PoolRecord]
    BY <1>2, <2>5, <2>6
  <2>8. ASSUME NEW k \in Pools PROVE PoolKept(pool[k], pools2[k]) /\ Good(pools2[k], rides2)
    <3>1. CASE k = p
      BY <1>2, <2>5, <2>6, <3>1 DEF q
    <3>2. CASE k # p
      <4>1. pools2[k] = pool[k] /\ pool[k] \in PoolRecord /\ Good(pool[k], ride)
        BY <1>2, <2>5, <3>2
      <4>2. RidesKept(ride, rides2)
        BY <2>4 DEF rides2
      <4> QED BY <4>1, <4>2, KeptIsKept, GoodKept
    <3> QED BY <3>1, <3>2
  <2>9. /\ offers2 = [k \in Pools |-> offers2[k]]
        /\ \A k \in Pools : offers2[k] = offer[k] \/ PendingIs(offers2[k], k, pool[k], ride)
    BY <1>2, <2>5, NothingPending
  <2>10. Holds(now, rides2, pools2, search, offers2, how2)
    <3>1. Holds(now, ride, pool, search, offer, report)
      BY DEF Inductive
    <3>2. RidesAre(rides2) /\ RidesKept(ride, rides2)
      BY <2>4 DEF rides2
    <3>3. \A k \in Pools : PoolKept(pool[k], pools2[k]) /\ Good(pools2[k], rides2)
      BY <2>8
    <3>4. now \in Nat /\ search = [w \in Workers |-> search[w]]
      BY <1>2
    <3>5. how2 # "rewrite"
      BY <2>5
    <3> QED BY <2>7, <2>9, <3>1, <3>2, <3>3, <3>4, <3>5, Frame
  <2> QED BY <2>5, <2>10 DEF Inductive, rides2, pools2, offers2, how2
<1> QED BY <1>1, <1>3, <1>4


-----------------------------------------------------------------------------
(* The theorems.                                                           *)
LEMMA InductiveStep == Inductive /\ [Next]_vars => Inductive'
<1> SUFFICES ASSUME Inductive, [Next]_vars PROVE Inductive'
  OBVIOUS
<1>1. CASE UNCHANGED vars
  BY <1>1 DEF Inductive, vars
<1>2. ASSUME NEW r \in Rides, Request(r) \/ Cancel(r) PROVE Inductive'
  BY <1>2, RequestStep, CancelStep
<1>3. ASSUME NEW p \in Pools, NEW r \in Rides, OpenPool(p, r) PROVE Inductive'
  BY <1>3, OpenPoolStep
<1>4. ASSUME NEW p \in Pools, Depart(p) \/ Reject(p) \/ Accept(p) \/ Lapse(p) PROVE Inductive'
  BY <1>4, DepartStep, RejectStep, AcceptStep, LapseStep
<1>5. ASSUME NEW w \in Workers, NEW r \in Rides, Shortlist(w, r) PROVE Inductive'
  BY <1>5, ShortlistStep
<1>6. ASSUME NEW w \in Workers,
             ReadStops(w) \/ ReadMembers(w) \/ CreateOffer(w) \/ Die(w)
      PROVE  Inductive'
  BY <1>6, ReadStopsStep, ReadMembersStep, CreateOfferStep, DieStep
<1>7. CASE Tick
  BY <1>7, TickStep
<1> QED BY <1>1, <1>2, <1>3, <1>4, <1>5, <1>6, <1>7 DEF Next

(* Every pool is a plan all its passengers can ride; every search and every *)
(* offer knows the pool as it is, or an older version of it.               *)
THEOREM InductiveHolds == Spec => []Inductive
<1>1. Init => Inductive
  BY InitHolds
<1>2. Inductive /\ [Next]_vars => Inductive'
  BY InductiveStep
<1> QED BY <1>1, <1>2, PTL DEF Spec

(* No join makes the ride of a passenger in the pool longer than the       *)
(* limits on their own promise (validatePlan).                             *)
THEOREM KindToAllHolds == Spec => []KindToAll
<1>1. Inductive => KindToAll
  <2> SUFFICES ASSUME Inductive PROVE KindToAll
    OBVIOUS
  <2>1. \A p \in Pools : KindIn(pool[p], ride)
    BY DEF Inductive, Holds, Good
  <2> QED BY <2>1 DEF KindToAll, KindIn, StopsOf, Joined, JoinedIn
<1> QED BY <1>1, InductiveHolds, PTL

(* The newcomer's wait is within the limit from the instant the driver     *)
(* accepted at (acceptAddPassengerOffer).                                  *)
THEOREM WaitHoldsHolds == Spec => []WaitHolds
<1>1. Inductive => WaitHolds
  <2> SUFFICES ASSUME Inductive PROVE WaitHolds
    OBVIOUS
  <2>1. \A p \in Pools : WaitIn(pool[p], ride)
    BY DEF Inductive, Holds, Good
  <2> QED BY <2>1 DEF WaitHolds, WaitIn, StopsOf
<1> QED BY <1>1, InductiveHolds, PTL

(* No statement of addMemberToPool's rewrite meets the unique sequence or  *)
(* the trigger on drop-offs.                                               *)
THEOREM RewriteIsCleanHolds == Spec => []RewriteIsClean
<1>1. Inductive => RewriteIsClean
  BY DEF Inductive, Holds, RewriteIsClean
<1> QED BY <1>1, InductiveHolds, PTL

(* createJoinOffer asks about the pool as it is, and about the place in it *)
(* that does least harm.                                                   *)
THEOREM OfferIsTheBestHolds == Spec => OfferIsTheBest
<1> DEFINE Fair ==
      \A p \in Pools :
        offer'[p] # offer[p] /\ offer'[p] # NoOffer
          => /\ offer'[p].plan.score \in HarmElsewhere(offer'[p], p)
             /\ \A harm \in HarmElsewhere(offer'[p], p) : offer'[p].plan.score <= harm
<1>1. Inductive /\ [Next]_vars => [Fair]_vars
  <2> SUFFICES ASSUME Inductive, Next, NEW p \in Pools, offer'[p] # offer[p], offer'[p] # NoOffer
               PROVE  /\ offer'[p].plan.score \in HarmElsewhere(offer'[p], p)
                      /\ \A harm \in HarmElsewhere(offer'[p], p) : offer'[p].plan.score <= harm
    OBVIOUS
  <2>1. offer = [o \in Pools |-> offer[o]]
    BY DEF Inductive, Holds
  <2>2. PICK w \in Workers : CreateOffer(w)
    <3>1. ASSUME NEW r \in Rides, Request(r) \/ Cancel(r) PROVE FALSE
      BY <3>1 DEF Request, Cancel
    <3>2. ASSUME NEW o \in Pools, NEW r \in Rides, OpenPool(o, r) PROVE FALSE
      BY <3>2 DEF OpenPool
    <3>3. ASSUME NEW o \in Pools, Depart(o) \/ Reject(o) \/ Lapse(o) PROVE FALSE
      BY <2>1, <3>3 DEF Depart, Reject, Lapse
    <3>4. ASSUME NEW o \in Pools, Accept(o) PROVE FALSE
      <4>1. offer' = offer \/ offer' = [offer EXCEPT ![o] = NoOffer]
        BY <3>4, AcceptEnds
      <4> QED BY <2>1, <4>1
    <3>5. ASSUME NEW w \in Workers, NEW r \in Rides, Shortlist(w, r) PROVE FALSE
      BY <3>5 DEF Shortlist
    <3>6. ASSUME NEW w \in Workers, ReadStops(w) \/ ReadMembers(w) \/ Die(w) PROVE FALSE
      BY <3>6 DEF ReadStops, ReadMembers, Read, Die
    <3>7. ~Tick
      BY DEF Tick
    <3> QED BY <3>1, <3>2, <3>3, <3>4, <3>5, <3>6, <3>7 DEF Next
  <2> DEFINE s == search[w]
             k == s.plan.pool
             o == [stage |-> "pending", ride |-> s.ride, plan |-> s.plan, at |-> s.at,
                   version |-> pool[k].version, expires |-> s.at + OfferTtl]
  <2>3. /\ s.stage = "found" /\ StillOffered(s.ride, s.plan)
        /\ offer' = [offer EXCEPT ![k] = o]
    BY <2>2 DEF CreateOffer
  <2>4. /\ k \in Pools /\ s.ride \in Rides /\ s.at \in Nat
        /\ Best(s.plan, ViewNow(s.at, pool[k], ride, s.ride), s.ride, k)
    BY <2>3, OfferedIsBest
  <2>5. o.ride = s.ride /\ o.plan = s.plan /\ o.at = s.at
    OBVIOUS
  <2> HIDE DEF s, k, o
  <2>6. p = k /\ offer'[p] = o
    BY <2>1, <2>3, <2>4
  <2> DEFINE seen == Seen(s.at, k)
             plans == FeasiblePlans(seen, s.ride, k)
             view == ViewNow(s.at, pool[k], ride, s.ride)
  <2>7. plans = Weighed(view, s.ride, k)
    <3>1. /\ seen.at = s.at /\ seen.candidate[k] = CandidateOf(pool[k])
          /\ seen.stops[k] = pool[k].stops /\ seen.members[k] = JoinedIn(pool[k])
      BY DEF Seen, CandidateOf, PlannedTime, StopsOf, Joined, JoinedIn
    <3>2. plans = Weighed(View(seen.at, seen.candidate[k], seen.stops[k], seen.members[k], ride, s.ride),
                          s.ride, k)
      BY FeasibleAreWeighed
    <3> HIDE DEF seen
    <3> QED BY <3>1, <3>2 DEF ViewNow
  <2>8. HarmElsewhere(o, k) = {plan.score : plan \in plans}
    BY <2>5 DEF HarmElsewhere
  <2> HIDE DEF plans, view
  <2>9. s.plan \in plans /\ \A other \in plans : s.plan.score <= other.score
    BY <2>4, <2>7 DEF Best, view
  <2>10. /\ o.plan.score \in HarmElsewhere(o, k)
         /\ \A harm \in HarmElsewhere(o, k) : o.plan.score <= harm
    BY <2>5, <2>8, <2>9
  <2> QED BY <2>6, <2>10
<1>2. Spec => [][Fair]_vars
  BY <1>1, InductiveHolds, PTL DEF Spec
<1> QED BY <1>2 DEF OfferIsTheBest
=============================================================================
