------------------------------- MODULE Sweeps -------------------------------
(***************************************************************************)
(* The safety net of dispatch: dispatch-sweep.js with the two loops of     *)
(* dispatch.service.js, the follow-ups of the controllers, and the drivers *)
(* and requests that change under them while the router works.             *)
(*                                                                         *)
(* A run is a process that assigns one request after another by the clock  *)
(* it read when it began: a sweep, or a controller's call for one request. *)
(* One assignment is a search and a transaction.  Pools are left to        *)
(* JoinSearch: every request here is dispatched to a driver of its own,    *)
(* and a trip is over in one step.  An instant nothing reads again is 0,   *)
(* and a request CLOSED is one cancelled, expired or completed.            *)
(***************************************************************************)
EXTENDS DriverSearch, Sequences

CONSTANTS
  Requests,          \* numbered as they are created
  Pickup, Dropoff,   \* the service points of a request
  Points, Start,     \* where drivers may report themselves, and are at first
  Processes,         \* sweep commands and controllers at work
  OfferTtl,          \* env.dispatch.offerTtlSeconds
  Window,            \* env.rideRequests.searchTtlSeconds
  RejectionWindow, WorkloadWindow, \* env.dispatch: how far the score looks back
  ExpireLimit, RetryLimit, \* the page sizes of the two loops
  MaxDeeds, LastDeed, \* bounds on what people do unasked and on dying processes
  LastInstant,       \* bound on the clock
  LastRequest,       \* bound on the instant of a request
  None

ASSUME SweepsAssumption ==
  /\ Requests \subseteq Int /\ IsFiniteSet(Requests)
  /\ Start \in [Drivers -> Points]
  /\ Pickup \in [Requests -> Points] /\ Dropoff \in [Requests -> Points]
  /\ StraightLine \in [Points \X Points -> Nat]
  /\ Approach \in [Points \X Points -> Nat \cup {NoRoute}]
  /\ {OfferTtl, Window, RejectionWindow, WorkloadWindow, MaxDeeds, LastInstant} \subseteq Nat
  /\ {ExpireLimit, RetryLimit} \subseteq Nat \ {0}

VARIABLES
  now,      \* the clock
  request,  \* [status, requested] of each request
  offer,    \* the newest initial offer of a request to a driver
  driver,   \* the driver_profiles
  run,      \* the processes
  deeds     \* how often somebody acted unasked or a process died

vars == <<now, request, offer, driver, run, deeds>>

NoRequest == [status |-> "NONE", requested |-> 0]
NoOffer == [status |-> "NONE", from |-> None, offered |-> 0, answered |-> 0]

(* A run: what it is at, the clock it read, the page of its loop, and the  *)
(* request, driver and point of the assignment it is in.                   *)
At(stage, loop, clock, todo, req, chosen, from) ==
  [stage |-> stage, loop |-> loop, clock |-> clock, todo |-> todo,
   req |-> req, chosen |-> chosen, from |-> from]
Idle == At("idle", "call", 0, << >>, None, None, None)

Init ==
  /\ now = 0 /\ deeds = 0
  /\ request = [r \in Requests |-> NoRequest]
  /\ offer = [r \in Requests |-> [d \in Drivers |-> NoOffer]]
  /\ driver = [d \in Drivers |-> [status |-> "AVAILABLE", at |-> Start[d], since |-> 0, seen |-> 0]]
  /\ run = [p \in Processes |-> Idle]

(***************************************************************************)
(* What the queries ask.                                                   *)
(***************************************************************************)
Pending(r, d) == offer[r][d].status = "PENDING"
Overdue(r, d, clock) == Pending(r, d) /\ offer[r][d].offered + OfferTtl <= clock
Offered(r) == \E d \in Drivers : Pending(r, d)
Searching(r, clock) == request[r].status = "WAITING" /\ request[r].requested + Window > clock

Busy == {d \in Drivers : \E r \in Requests : Pending(r, d)}
Spent(r) == {d \in Drivers : offer[r][d].status \in {"REJECTED", "EXPIRED"}}

Answers(d, status, since) ==
  Cardinality({r \in Requests : offer[r][d].status = status /\ offer[r][d].answered >= since})

Candidate(d, pickup, clock) ==
  [id |-> d, approach |-> ApproachOf(driver[d], pickup),
   rejections |-> Answers(d, "REJECTED", clock - RejectionWindow),
   acceptances |-> Answers(d, "ACCEPTED", clock - WorkloadWindow),
   idle |-> IdleTime(driver[d], clock), since |-> driver[d].since]

Candidates(shortlist, pickup, clock) ==
  {Candidate(d, pickup, clock) : d \in Survivors(driver, shortlist, pickup, clock)}

\* mutant: only the offers of requests that are still waiting
OverdueWhileWaiting(clock) ==
  {o \in Requests \X Drivers : Overdue(o[1], o[2], clock) /\ request[o[1]].status = "WAITING"}

OverdueOffers(clock) == {o \in Requests \X Drivers : Overdue(o[1], o[2], clock)}
OfferedAt == [o \in Requests \X Drivers |-> offer[o[1]][o[2]].offered]

\* mutant: a request whose driver is still thinking takes a place on the page
AnyWaiting(clock) == {r \in Requests : Searching(r, clock)}

Waiting(clock) == {r \in Requests : Searching(r, clock) /\ ~Offered(r)}
RequestedAt == [r \in Requests |-> request[r].requested]

(***************************************************************************)
(* One assignment: assignWaitingRequest without a pool to join.            *)
(***************************************************************************)
Set(p, state) == run' = [run EXCEPT ![p] = state]

(* A call is over with its assignment, a sweep with its second page.       *)
Loop(p, loop, todo) ==
  Set(p, IF loop = "call" \/ (loop = "retry" /\ todo = << >>) THEN Idle
         ELSE At(loop, loop, run[p].clock, todo, None, None, None))

Continue(p) == Loop(p, run[p].loop, run[p].todo)

Assign(p, loop, todo, r) == Set(p, At("search", loop, run[p].clock, todo, r, None, None))

Dispatchable(r, clock) == Searching(r, clock) /\ ~Offered(r)
ShortlistsFor(r) == Shortlists(driver, Pickup[r], Busy, Spent(r))

(* assignWaitingRequest and selectCandidate, up to the choice.             *)
Search(p) ==
  LET r == run[p].req
      clock == run[p].clock
  IN /\ run[p].stage = "search"
     /\ \/ ~Dispatchable(r, clock) /\ Continue(p)
        \/ /\ Dispatchable(r, clock)
           /\ \E shortlist \in ShortlistsFor(r) :
                LET candidates == Candidates(shortlist, Pickup[r], clock)
                IN \/ candidates = {} /\ Continue(p)
                   \/ \E c \in candidates :
                        /\ IsBest(c, candidates)
                        /\ Set(p, At("insert", run[p].loop, clock, run[p].todo,
                                     r, c.id, driver[c.id].at))
     /\ UNCHANGED <<now, request, offer, driver, deeds>>

(* A router that fails, if it is asked at all, ends the whole run.         *)
RouterFails(p) ==
  /\ run[p].stage = "search" /\ Dispatchable(run[p].req, run[p].clock)
  /\ \E shortlist \in ShortlistsFor(run[p].req) :
       AsksTheRouter(driver, shortlist, Pickup[run[p].req], run[p].clock)
  /\ Set(p, Idle)
  /\ UNCHANGED <<now, request, offer, driver, deeds>>

SetOffer(r, d, state) == offer' = [offer EXCEPT ![r] = [offer[r] EXCEPT ![d] = state]]
Made(from, offered) == [status |-> "PENDING", from |-> from, offered |-> offered, answered |-> 0]
Answered(status, at) == [status |-> status, from |-> None, offered |-> 0, answered |-> at]
Answer(r, d, status, at) == SetOffer(r, d, Answered(status, at))

(* What the transaction finds again under the request's lock.              *)
StillDispatchable(r, d, clock) ==
  /\ Dispatchable(r, clock)
  /\ driver[d].status = "AVAILABLE" /\ Fresh(driver[d], clock) /\ d \notin Busy

\* mutant: the offer starts when it is inserted, its request still checked by the run's clock
OfferedNow(r, d, from, clock) == SetOffer(r, d, Made(from, now))

MakeOffer(r, d, from, clock) == SetOffer(r, d, Made(from, clock))

Insert(p) ==
  LET r == run[p].req
      d == run[p].chosen
      clock == run[p].clock
  IN /\ run[p].stage = "insert"
     /\ \/ StillDispatchable(r, d, clock) /\ MakeOffer(r, d, run[p].from, clock)
        \/ ~StillDispatchable(r, d, clock) /\ UNCHANGED offer
     /\ Continue(p)
     /\ UNCHANGED <<now, request, driver, deeds>>

(* The driver was free when the transaction looked, and another process's  *)
(* offer was committed before its own: the unique index refuses the row,   *)
(* nothing catches the violation, and the whole run is over.               *)
InsertRefused(p) ==
  /\ run[p].stage = "insert" /\ Dispatchable(run[p].req, run[p].clock)
  /\ run[p].chosen \in Busy
  /\ Set(p, Idle)
  /\ UNCHANGED <<now, request, offer, driver, deeds>>

(* Another process assigns a request, search and transaction, while this   *)
(* run is between its choice and its insert.  Only an offer to the driver  *)
(* the run has chosen is of interest here.                                 *)
Forestall(p, r) ==
  /\ run[p].stage = "insert" /\ Dispatchable(r, now)
  /\ \E shortlist \in ShortlistsFor(r) :
       LET candidates == Candidates(shortlist, Pickup[r], now)
       IN \E c \in candidates :
            /\ c.id = run[p].chosen /\ IsBest(c, candidates)
            /\ MakeOffer(r, c.id, driver[c.id].at, now)
  /\ UNCHANGED <<now, request, driver, run, deeds>>

(***************************************************************************)
(* dispatch-sweep.js: both loops by one clock.  An exception ends it.      *)
(***************************************************************************)
StartSweep(p) ==
  /\ run[p].stage = "idle"
  /\ \E page \in Pages(OverdueOffers(now), OfferedAt, ExpireLimit) :
       Set(p, At("expire", "expire", now, page, None, None, None))
  /\ UNCHANGED <<now, request, offer, driver, deeds>>

(* expireOne, and the search for the request that lost its offer.          *)
ExpireNext(p) ==
  /\ run[p].stage = "expire" /\ run[p].todo # << >>
  /\ LET r == Head(run[p].todo)[1]
         d == Head(run[p].todo)[2]
     IN \/ /\ Overdue(r, d, run[p].clock)
           /\ Answer(r, d, "EXPIRED", 0)
           /\ Assign(p, "expire", Tail(run[p].todo), r)
        \/ /\ ~Overdue(r, d, run[p].clock)
           /\ Loop(p, "expire", Tail(run[p].todo)) /\ UNCHANGED offer
  /\ UNCHANGED <<now, request, driver, deeds>>

SecondLoop(p) ==
  /\ run[p].stage = "expire" /\ run[p].todo = << >>
  /\ \E page \in Pages(Waiting(run[p].clock), RequestedAt, RetryLimit) : Loop(p, "retry", page)
  /\ UNCHANGED <<now, request, offer, driver, deeds>>

RetryNext(p) ==
  /\ run[p].stage = "retry"
  /\ Assign(p, "retry", Tail(run[p].todo), Head(run[p].todo))
  /\ UNCHANGED <<now, request, offer, driver, deeds>>

Step(p) ==
  \/ StartSweep(p) \/ ExpireNext(p) \/ SecondLoop(p) \/ RetryNext(p)
  \/ Search(p) \/ RouterFails(p) \/ Insert(p) \/ InsertRefused(p)

(***************************************************************************)
(* Passengers.                                                             *)
(***************************************************************************)
Deed == deeds < MaxDeeds /\ now <= LastDeed /\ deeds' = deeds + 1

(* A controller assigns after its commit, or its process dies before that. *)
FollowUp(r) ==
  \/ UNCHANGED run
  \/ \E p \in Processes : /\ run[p].stage = "idle"
                          /\ Set(p, At("search", "call", now, << >>, r, None, None))

SetRequest(r, status, requested) ==
  request' = [request EXCEPT ![r] = [status |-> status, requested |-> requested]]

Create(r) ==
  /\ request[r].status = "NONE" /\ now <= LastRequest
  /\ \A q \in Requests : q < r => request[q].status # "NONE"
  /\ SetRequest(r, "WAITING", now) /\ FollowUp(r)
  /\ UNCHANGED <<now, offer, driver, deeds>>

Cancel(r) ==
  /\ request[r].status = "WAITING" /\ Deed
  /\ SetRequest(r, "CLOSED", 0)
  /\ offer' = [offer EXCEPT ![r] = [d \in Drivers |->
                 IF Pending(r, d)
                 THEN Answered("CANCELLED", 0)
                 ELSE offer[r][d]]]
  /\ UNCHANGED <<now, driver, run>>

ExpireRequest(r) ==
  /\ request[r].status = "WAITING" /\ ~Searching(r, now)
  /\ SetRequest(r, "CLOSED", 0)
  /\ UNCHANGED <<now, offer, driver, run, deeds>>

(***************************************************************************)
(* Drivers.                                                                *)
(***************************************************************************)
SetDriver(d, status, at, since, seen) ==
  driver' = [driver EXCEPT ![d] = [status |-> status, at |-> at, since |-> since, seen |-> seen]]

GoOnline(d, p) ==
  /\ driver[d].status \in {"OFFLINE", "AVAILABLE"} /\ Deed
  /\ SetDriver(d, "AVAILABLE", p,
               IF driver[d].status = "AVAILABLE" THEN driver[d].since ELSE now, now)
  /\ UNCHANGED <<now, request, offer, run>>

GoOffline(d) ==
  /\ driver[d].status = "AVAILABLE" /\ Deed
  /\ SetDriver(d, "OFFLINE", driver[d].at, 0, now)
  /\ UNCHANGED <<now, request, offer, run>>

(* setCurrentServicePoint, also while offline.                             *)
Move(d, p) ==
  /\ driver[d].status \in {"OFFLINE", "AVAILABLE"} /\ driver[d].at # p /\ Deed
  /\ SetDriver(d, driver[d].status, p, driver[d].since, now)
  /\ UNCHANGED <<now, request, offer, run>>

Touched(d) == SetDriver(d, driver[d].status, driver[d].at, driver[d].since, now)

(* listOffersForDriver: reading is a sign of life.                         *)
ListOffers(d) ==
  /\ driver[d].seen # now /\ Deed
  /\ Touched(d)
  /\ UNCHANGED <<now, request, offer, run>>

(* acceptInitialRideOffer.  Every refusal but the late one leaves all as   *)
(* it was; the late one commits the expiry and is followed by nothing.     *)
Accept(r, d) ==
  /\ Pending(r, d)
  /\ \/ /\ Overdue(r, d, now)
        /\ Answer(r, d, "EXPIRED", 0)
        /\ UNCHANGED <<request, driver>>
     \/ /\ ~Overdue(r, d, now) /\ request[r].status = "WAITING"
        /\ driver[d].status = "AVAILABLE" /\ driver[d].at = offer[r][d].from
        /\ Answer(r, d, "ACCEPTED", now)
        /\ SetRequest(r, "MATCHED", 0)
        /\ SetDriver(d, "RESERVED", driver[d].at, 0, now)
  /\ UNCHANGED <<now, run, deeds>>

(* rejectOffer, and the controller's next search.                          *)
Reject(r, d) ==
  /\ Pending(r, d) /\ Touched(d)
  /\ \/ /\ Overdue(r, d, now)
        /\ Answer(r, d, "EXPIRED", 0)
        /\ UNCHANGED run
     \/ /\ ~Overdue(r, d, now)
        /\ Answer(r, d, "REJECTED", now)
        /\ FollowUp(r)
  /\ UNCHANGED <<now, request, deeds>>

(* A whole trip: it ends where the passenger gets out, and the driver is   *)
(* free again.                                                             *)
Finish(r, d) ==
  /\ offer[r][d].status = "ACCEPTED" /\ request[r].status = "MATCHED" /\ Deed
  /\ SetRequest(r, "CLOSED", 0)
  /\ SetDriver(d, "AVAILABLE", Dropoff[r], now, now)
  /\ UNCHANGED <<now, offer, run>>

(***************************************************************************)
(* The surroundings.                                                       *)
(***************************************************************************)
Tick == now < LastInstant /\ now' = now + 1
        /\ UNCHANGED <<request, offer, driver, run, deeds>>

Die(p) ==
  /\ run[p].stage # "idle" /\ Deed /\ Set(p, Idle)
  /\ UNCHANGED <<now, request, offer, driver>>

Next ==
  \/ \E p \in Processes : Step(p) \/ Die(p)
  \/ \E p \in Processes, r \in Requests : Forestall(p, r)
  \/ \E r \in Requests : Create(r) \/ Cancel(r) \/ ExpireRequest(r)
  \/ \E d \in Drivers, p \in Points : GoOnline(d, p) \/ Move(d, p)
  \/ \E d \in Drivers : GoOffline(d) \/ ListOffers(d)
  \/ \E r \in Requests, d \in Drivers : Accept(r, d) \/ Reject(r, d) \/ Finish(r, d)
  \/ Tick

(* A scheduler starts the sweep again and again, and its steps end.        *)
Spec == Init /\ [][Next]_vars
FairSpec == Spec /\ \A p \in Processes : WF_vars(Step(p))

(***************************************************************************)
(* Properties.                                                             *)
(***************************************************************************)
(* The oldest requests that wait, a page of them, and a driver each of     *)
(* them could have: near, seen lately, within reach, and not crowded off   *)
(* the shortlist by nearer drivers, be these ever so stale.                *)
Neglected(r, d) ==
  LET listed == Listed(driver, Pickup[r], Busy, Spent(r))
      nearer == {e \in listed \ {d} : StraightLine[driver[e].at, Pickup[r]]
                                       <= StraightLine[driver[d].at, Pickup[r]]}
      older == {q \in Waiting(now) \ {r} : request[q].requested <= request[r].requested}
  IN /\ r \in Waiting(now) /\ Cardinality(older) < RetryLimit
     /\ d \in listed /\ Cardinality(nearer) < MaxCandidates
     /\ Fresh(driver[d], now) /\ Reaches(driver[d], Pickup[r])

(* A sweep ends with work undone.                                          *)
BreaksOff == \E p \in Processes : run[p].loop # "call" /\ RouterFails(p)

(* "Eventually correct rather than only immediately correct": once the     *)
(* router works, sweeps come to a point where no request is left waiting   *)
(* beside a driver it could have, whatever died or failed before, and      *)
(* although an insert refused by the unique index ends a sweep at once.    *)
NobodyIsForgotten ==
  <>[][~BreaksOff]_vars => []<>(\A r \in Requests, d \in Drivers : ~Neglected(r, d))

(* A router that fails for good stops every search, and yet no driver is   *)
(* kept in an offer that ran out: the offers are ended before the searches *)
(* that break the sweep off.                                               *)
OverdueOffersEnd ==
  []<>(\A r \in Requests, d \in Drivers : ~Overdue(r, d, now))

(* However slow a sweep is, and however old the clock it works by, nobody  *)
(* is matched after the last instant of an offer that was made at the last *)
(* instant of their search window.                                         *)
MatchesComeInTime ==
  [][\A r \in Requests :
       request[r].status = "WAITING" /\ request'[r].status = "MATCHED"
         => now <= request[r].requested + (Window - 1) + (OfferTtl - 1)]_vars

(* "Fairness nudges the choice, it does not override proximity": a driver  *)
(* is chosen over a nearer one only by the credit of waiting and the       *)
(* other's own answers.                                                    *)
ProximityWins ==
  [][\A p \in Processes :
       run[p].stage = "search" /\ run'[p].stage = "insert" =>
         LET pickup == Pickup[run[p].req]
             clock == run[p].clock
             chosen == run'[p].chosen
             passed == {e \in Survivors(driver, Listed(driver, pickup, Busy, Spent(run[p].req)), pickup, clock) :
                          StraightLine[driver[e].at, pickup] < StraightLine[driver[chosen].at, pickup]}
         IN FairnessNudges(Candidate(chosen, pickup, clock), {Candidate(e, pickup, clock) : e \in passed})]_vars

=============================================================================
