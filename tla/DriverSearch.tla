---------------------------- MODULE DriverSearch ----------------------------
(***************************************************************************)
(* Who is offered a ride: the two stages of dispatch.service.js (a spatial *)
(* shortlist, then the router) and the score of dispatch.rules.js, as      *)
(* operators on the drivers' rows at the instant of the search.            *)
(*                                                                         *)
(* A driver is [status, at, since, seen]: availability, reported service   *)
(* point, availableSince and lastSeenAt.  Every driver here went online    *)
(* with a usable vehicle; the ties the SQL leaves open stay open.          *)
(***************************************************************************)
EXTENDS Integers, FiniteSets, Functions

CONSTANTS
  Drivers,        \* the id is a number: the last key of the order
  StraightLine,   \* StraightLine[a, b]: metres
  Approach,       \* Approach[a, b]: seconds by road, or NoRoute
  Radius,         \* env.dispatch.shortlistRadiusMeters
  MaxCandidates,  \* env.dispatch.maxCandidates
  MaxApproach,    \* env.dispatch.maxApproachDurationSeconds
  Freshness,      \* env.dispatch.locationFreshnessSeconds
  Minute,         \* seconds a minute has: 60, fewer on a coarse clock
  Weights         \* env.dispatch.scoring: [rejection, workload, idle, idleMax]

ASSUME DriverSearchAssumption ==
  /\ Drivers \subseteq Int /\ IsFiniteSet(Drivers)
  /\ MaxCandidates \in Nat
  /\ Minute \in Nat \ {0}
  /\ Weights \in [rejection : Nat, workload : Nat, idle : Nat, idleMax : Nat]

NoRoute == -1

Larger(a, b) == IF a >= b THEN a ELSE b
Smaller(a, b) == IF a <= b THEN a ELSE b

(* The pages ORDER BY key LIMIT n may return: rows in order, none left out *)
(* that comes before one of them.                                          *)
Pages(S, key, n) ==
  LET k == Smaller(n, Cardinality(S))
  IN {page \in [1..k -> S] :
        /\ \A i, j \in 1..k : i < j => page[i] # page[j] /\ key[page[i]] <= key[page[j]]
        /\ \A row \in S : (\E i \in 1..k : page[i] = row) \/ key[page[k]] <= key[row]}

(***************************************************************************)
(* Stage 1: SHORTLIST_SQL.  "busy" are the drivers with an unanswered      *)
(* initial offer or a pool, "spent" those who had this request before.     *)
(***************************************************************************)
Listed(rows, pickup, busy, spent) ==
  {d \in Drivers \ (busy \cup spent) :
     /\ rows[d].status = "AVAILABLE"
     /\ StraightLine[rows[d].at, pickup] <= Radius}

Shortlists(rows, pickup, busy, spent) ==
  {Range(page) : page \in Pages(Listed(rows, pickup, busy, spent),
                                [d \in Drivers |-> StraightLine[rows[d].at, pickup]],
                                MaxCandidates)}

(* isLocationFresh: asked only of drivers already on the shortlist.        *)
Fresh(row, clock) == clock - row.seen <= Freshness

(***************************************************************************)
(* Stage 2: the router, and the score.                                     *)
(***************************************************************************)
ApproachOf(row, pickup) == IF row.at = pickup THEN 0 ELSE Approach[row.at, pickup]

Reaches(row, pickup) ==
  /\ ApproachOf(row, pickup) # NoRoute
  /\ ApproachOf(row, pickup) <= MaxApproach

(* A router that fails is asked only for somebody who is elsewhere.        *)
AsksTheRouter(rows, shortlist, pickup, clock) ==
  \E d \in shortlist : Fresh(rows[d], clock) /\ rows[d].at # pickup

Survivors(rows, shortlist, pickup, clock) ==
  {d \in shortlist : Fresh(rows[d], clock) /\ Reaches(rows[d], pickup)}

IdleTime(row, clock) == Larger(0, clock - row.since)

\* mutant: the credit of a long wait has no cap
UncappedCredit(idle) == (idle \div Minute) * Weights.idle

IdleCredit(idle) == Smaller(Weights.idleMax, (idle \div Minute) * Weights.idle)

Penalty(rejections, acceptances) ==
  Weights.rejection * rejections + Weights.workload * acceptances

CandidateScore(approach, rejections, acceptances, idle) ==
  Larger(0, approach + Penalty(rejections, acceptances) - IdleCredit(idle))

(* A candidate as it is compared: [id, approach, rejections, acceptances,  *)
(* idle, since].                                                           *)
Score(c) == CandidateScore(c.approach, c.rejections, c.acceptances, c.idle)

CompareCandidates(a, b) ==
  \/ Score(a) < Score(b)
  \/ Score(a) = Score(b) /\ a.since < b.since
  \/ Score(a) = Score(b) /\ a.since = b.since /\ a.id < b.id

IsBest(c, candidates) == \A other \in candidates \ {c} : CompareCandidates(c, other)

(* Fairness nudges the choice and does not override proximity: whoever is  *)
(* chosen is nearer than any rejected candidate, but for the credit one    *)
(* can earn by waiting and what the other answered before.                 *)
FairnessNudges(c, candidates) ==
  \A other \in candidates :
    c.approach <= other.approach + Weights.idleMax
                    + Penalty(other.rejections, other.acceptances)

=============================================================================
