---------------------------- MODULE SweepsProofs ----------------------------
(***************************************************************************)
(* Sweeps for every number of requests, drivers and processes, all windows *)
(* and limits, every geography and every weight of the score.              *)
(*                                                                         *)
(* MatchesComeInTime rests on Timely: an offer of a waiting request was    *)
(* made within its window, by whatever clock.  ProximityWins rests on two  *)
(* facts of DriverSearch: a page leaves nobody out who is nearer than one  *)
(* of its rows, and the best candidate is beaten only by the credit.       *)
(***************************************************************************)
EXTENDS Sweeps, FiniteSetTheorems, TLAPS

RequestSet == [status : {"NONE", "WAITING", "MATCHED", "CLOSED"}, requested : Nat]
DriverSet ==
  [status : {"OFFLINE", "AVAILABLE", "RESERVED"}, at : Points, since : Nat, seen : Nat]

(* What the steps of a run may count on.                                   *)
Ready(k) ==
  /\ k.clock \in Nat
  /\ k.loop \in {"call", "expire", "retry"}
  /\ k.stage \in {"search", "insert"} => k.req \in Requests
  /\ k.loop = "expire" => k.todo \in Seq(Requests \X Drivers)
  /\ k.loop = "retry" => k.todo \in Seq(Requests)
  /\ k.stage \in {"expire", "retry"} => k.loop = k.stage
  /\ k.stage = "retry" => k.todo # << >>

RunsReady ==
  /\ run = [p \in Processes |-> run[p]]
  /\ \A p \in Processes : Ready(run[p])

OffersTyped ==
  /\ offer = [r \in Requests |-> [d \in Drivers |-> offer[r][d]]]
  /\ \A r \in Requests, d \in Drivers : offer[r][d].offered \in Nat

TypeOK ==
  /\ now \in Nat
  /\ request \in [Requests -> RequestSet]
  /\ driver \in [Drivers -> DriverSet]
  /\ OffersTyped /\ RunsReady

(* An offer of a waiting request was made within the request's window.     *)
InWindow(o, k) ==
  o.status = "PENDING" =>
    /\ k.status # "NONE"
    /\ k.status = "WAITING" => o.offered < k.requested + Window

Timely == \A r \in Requests, d \in Drivers : InWindow(offer[r][d], request[r])

Inductive == TypeOK /\ Timely

-----------------------------------------------------------------------------
(* Pages, runs and cells of the offers' table.                             *)

(* A page of a finite set is a sequence of its elements, and what comes    *)
(* before one of its rows is on it.                                        *)
LEMMA PageOf ==
  ASSUME NEW S, IsFiniteSet(S), NEW key, NEW n \in Nat, NEW page \in Pages(S, key, n),
         \A row \in S : key[row] \in Int
  PROVE  /\ page \in Seq(S)
         /\ Range(page) \subseteq S
         /\ \A row \in S, x \in Range(page) : key[row] < key[x] => row \in Range(page)
<1> DEFINE k == Smaller(n, Cardinality(S))
<1>1. k \in Nat BY FS_CardinalityType DEF Smaller
<1>2. /\ page \in [1..k -> S]
      /\ \A i, j \in 1..k : i < j => page[i] # page[j] /\ key[page[i]] <= key[page[j]]
      /\ \A row \in S : (\E i \in 1..k : page[i] = row) \/ key[page[k]] <= key[row]
  BY DEF Pages
<1> HIDE DEF k
<1>3. page \in Seq(S) BY <1>1, <1>2
<1>4. Range(page) = {page[i] : i \in 1..k} BY <1>1, <1>2 DEF Range
<1>5. ASSUME NEW row \in S, NEW x \in Range(page), key[row] < key[x] PROVE row \in Range(page)
  <2>1. PICK j \in 1..k : x = page[j] BY <1>4
  <2>2. CASE \E i \in 1..k : page[i] = row BY <1>4, <2>2
  <2>3. CASE key[page[k]] <= key[row]
    <3>1. k \in 1..k BY <1>1, <2>1
    <3>2. page[j] \in S /\ page[k] \in S BY <1>2, <2>1, <3>1
    <3>3. key[page[j]] <= key[page[k]]
      <4>1. CASE j = k BY <4>1, <3>2
      <4>2. CASE j < k BY <1>2, <4>2, <3>1
      <4> QED BY <1>1, <4>1, <4>2, <3>1
    <3>4. key[page[j]] \in Int /\ key[page[k]] \in Int /\ key[row] \in Int BY <3>2
    <3> QED BY <1>5, <2>1, <2>3, <3>3, <3>4
  <2> QED BY <1>2, <2>2, <2>3
<1>6. Range(page) \subseteq S BY <1>2, <1>4
<1> QED BY <1>3, <1>5, <1>6

LEMMA SetKeeps ==
  ASSUME RunsReady, NEW p \in Processes, NEW k, Ready(k), Set(p, k)
  PROVE  RunsReady'
BY DEF RunsReady, Set

LEMMA IdleIsReady == Ready(Idle)
BY DEF Ready, Idle, At

LEMMA SearchIsReady ==
  ASSUME NEW loop \in {"call", "expire", "retry"}, NEW clock \in Nat, NEW todo, NEW r \in Requests,
         loop = "expire" => todo \in Seq(Requests \X Drivers),
         loop = "retry" => todo \in Seq(Requests)
  PROVE  Ready(At("search", loop, clock, todo, r, None, None))
BY DEF Ready, At

LEMMA LoopKeeps ==
  ASSUME RunsReady, NEW p \in Processes, NEW loop \in {"call", "expire", "retry"}, NEW todo,
         loop = "expire" => todo \in Seq(Requests \X Drivers),
         loop = "retry" => todo \in Seq(Requests),
         Loop(p, loop, todo)
  PROVE  RunsReady'
<1>1. CASE loop = "call" \/ (loop = "retry" /\ todo = << >>)
  BY <1>1, IdleIsReady, SetKeeps DEF Loop
<1>2. CASE ~(loop = "call" \/ (loop = "retry" /\ todo = << >>))
  <2>1. Ready(At(loop, loop, run[p].clock, todo, None, None, None))
    BY <1>2 DEF Ready, At, RunsReady
  <2> QED BY <1>2, <2>1, SetKeeps DEF Loop
<1> QED BY <1>1, <1>2

LEMMA ContinueKeeps ==
  ASSUME RunsReady, NEW p \in Processes, Continue(p)
  PROVE  RunsReady'
BY LoopKeeps DEF Continue, RunsReady, Ready

LEMMA FollowUpKeeps ==
  ASSUME RunsReady, now \in Nat, NEW r \in Requests, FollowUp(r)
  PROVE  RunsReady'
<1>1. CASE UNCHANGED run BY <1>1 DEF RunsReady
<1>2. ASSUME NEW p \in Processes, Set(p, At("search", "call", now, << >>, r, None, None))
      PROVE  RunsReady'
  BY <1>2, SearchIsReady, SetKeeps
<1> QED BY <1>1, <1>2 DEF FollowUp

(* One cell of the table is written, if it is one.                         *)
LEMMA Cells ==
  ASSUME OffersTyped, NEW r, NEW d, NEW state, state.offered \in Nat, SetOffer(r, d, state)
  PROVE  /\ OffersTyped'
         /\ \A q \in Requests, e \in Drivers :
              offer'[q][e] = IF q = r /\ e = d THEN state ELSE offer[q][e]
BY DEF OffersTyped, SetOffer

(* An offer that is answered is nobody's concern.                          *)
LEMMA AnswerKeeps ==
  ASSUME Inductive, NEW r, NEW d, NEW status \in {"ACCEPTED", "REJECTED", "EXPIRED"},
         NEW at, Answer(r, d, status, at), NEW k \in [Requests -> RequestSet],
         \A q \in Requests : k[q].status # "WAITING" \/ k[q] = request[q],
         \A q \in Requests : k[q].status # "NONE" \/ k[q] = request[q]
  PROVE  /\ OffersTyped'
         /\ \A q \in Requests, e \in Drivers : InWindow(offer'[q][e], k[q])
<1> DEFINE state == Answered(status, at)
<1>1. state.offered \in Nat /\ state.status # "PENDING" BY DEF Answered
<1>2. SetOffer(r, d, state) BY DEF Answer
<1> HIDE DEF state
<1>3. OffersTyped BY DEF Inductive, TypeOK
<1> QED BY <1>1, <1>2, <1>3, Cells DEF InWindow, Inductive, Timely

-----------------------------------------------------------------------------
(* Every step keeps Inductive.                                             *)

LEMMA InitHolds == Init => Inductive
<1> SUFFICES ASSUME Init PROVE Inductive OBVIOUS
<1>1. now \in Nat /\ request \in [Requests -> RequestSet] /\ driver \in [Drivers -> DriverSet]
  BY SweepsAssumption DEF Init, NoRequest, RequestSet, DriverSet
<1>2. OffersTyped /\ Timely
  BY DEF Init, OffersTyped, NoOffer, Timely, InWindow
<1>3. RunsReady
  BY IdleIsReady DEF Init, RunsReady
<1> QED BY <1>1, <1>2, <1>3 DEF Inductive, TypeOK

(* The steps that leave the tables alone.                                  *)
LEMMA RunKeeps ==
  ASSUME Inductive, RunsReady', UNCHANGED <<now, request, offer, driver>>
  PROVE  Inductive'
BY DEF Inductive, TypeOK, OffersTyped, Timely, InWindow

LEMMA SearchKeeps == ASSUME Inductive, NEW p \in Processes, Search(p) PROVE Inductive'
<1>1. RunsReady BY DEF Inductive, TypeOK
<1>2. CASE Continue(p) BY <1>1, <1>2, ContinueKeeps, RunKeeps DEF Search
<1>3. ASSUME NEW d, NEW from,
             Set(p, At("insert", run[p].loop, run[p].clock, run[p].todo, run[p].req, d, from))
      PROVE  Inductive'
  <2>1. Ready(At("insert", run[p].loop, run[p].clock, run[p].todo, run[p].req, d, from))
    BY <1>1 DEF RunsReady, Ready, At, Search
  <2> QED BY <1>1, <1>3, <2>1, SetKeeps, RunKeeps DEF Search
<1> QED BY <1>2, <1>3 DEF Search

LEMMA StartSweepKeeps == ASSUME Inductive, NEW p \in Processes, StartSweep(p) PROVE Inductive'
<1>1. RunsReady /\ now \in Nat BY DEF Inductive, TypeOK
<1>2. PICK page \in Pages(OverdueOffers(now), OfferedAt, ExpireLimit) :
        Set(p, At("expire", "expire", now, page, None, None, None))
  BY DEF StartSweep
<1>3. OverdueOffers(now) \subseteq Requests \X Drivers BY DEF OverdueOffers
<1>4. IsFiniteSet(OverdueOffers(now))
  BY <1>3, FS_Subset, FS_Product, SweepsAssumption, DriverSearchAssumption
<1>5. \A row \in OverdueOffers(now) : OfferedAt[row] \in Int
  BY <1>3 DEF OfferedAt, Inductive, TypeOK, OffersTyped
<1>6. page \in Seq(OverdueOffers(now))
  BY <1>2, <1>4, <1>5, PageOf, SweepsAssumption
<1>7. page \in Seq(Requests \X Drivers) BY <1>3, <1>6
<1>8. Ready(At("expire", "expire", now, page, None, None, None))
  BY <1>1, <1>7 DEF Ready, At
<1> QED BY <1>1, <1>2, <1>8, SetKeeps, RunKeeps DEF StartSweep

LEMMA SecondLoopKeeps == ASSUME Inductive, NEW p \in Processes, SecondLoop(p) PROVE Inductive'
<1>1. RunsReady BY DEF Inductive, TypeOK
<1> DEFINE waiting == Waiting(run[p].clock)
<1>2. PICK page \in Pages(waiting, RequestedAt, RetryLimit) : Loop(p, "retry", page)
  BY DEF SecondLoop
<1>3. waiting \subseteq Requests BY DEF Waiting
<1> HIDE DEF waiting
<1>4. IsFiniteSet(waiting) BY <1>3, FS_Subset, SweepsAssumption
<1>5. \A row \in waiting : RequestedAt[row] \in Int
  BY <1>3 DEF RequestedAt, Inductive, TypeOK, RequestSet
<1>6. page \in Seq(waiting) BY <1>2, <1>4, <1>5, PageOf, SweepsAssumption
<1>7. page \in Seq(Requests) BY <1>3, <1>6
<1> QED BY <1>1, <1>2, <1>7, LoopKeeps, RunKeeps DEF SecondLoop

LEMMA RetryNextKeeps == ASSUME Inductive, NEW p \in Processes, RetryNext(p) PROVE Inductive'
<1>1. RunsReady BY DEF Inductive, TypeOK
<1>2. run[p].todo \in Seq(Requests) /\ run[p].todo # << >> /\ run[p].clock \in Nat
  BY <1>1 DEF RetryNext, RunsReady, Ready
<1>3. Head(run[p].todo) \in Requests /\ Tail(run[p].todo) \in Seq(Requests) BY <1>2
<1>4. Ready(At("search", "retry", run[p].clock, Tail(run[p].todo), Head(run[p].todo), None, None))
  BY <1>2, <1>3, SearchIsReady
<1> QED BY <1>1, <1>4, SetKeeps, RunKeeps DEF RetryNext, Assign

(* Head and tail of the offers a sweep is to end.                          *)
LEMMA ExpireNextKeeps == ASSUME Inductive, NEW p \in Processes, ExpireNext(p) PROVE Inductive'
<1>1. RunsReady BY DEF Inductive, TypeOK
<1>2. run[p].todo \in Seq(Requests \X Drivers) /\ run[p].todo # << >> /\ run[p].clock \in Nat
  BY <1>1 DEF ExpireNext, RunsReady, Ready
<1> DEFINE r == Head(run[p].todo)[1]
           d == Head(run[p].todo)[2]
           rest == Tail(run[p].todo)
<1>3. r \in Requests /\ rest \in Seq(Requests \X Drivers) BY <1>2
<1>4. \/ Answer(r, d, "EXPIRED", 0) /\ Assign(p, "expire", rest, r)
      \/ Loop(p, "expire", rest) /\ UNCHANGED offer
  BY DEF ExpireNext
<1>5. UNCHANGED <<now, request, driver>> BY DEF ExpireNext
<1> HIDE DEF r, d, rest
<1>6. CASE Answer(r, d, "EXPIRED", 0) /\ Assign(p, "expire", rest, r)
  <2>1. Ready(At("search", "expire", run[p].clock, rest, r, None, None))
    BY <1>2, <1>3, SearchIsReady
  <2>2. RunsReady' BY <1>1, <1>6, <2>1, SetKeeps DEF Assign
  <2>3. /\ OffersTyped'
        /\ \A q \in Requests, e \in Drivers : InWindow(offer'[q][e], request[q])
    BY <1>6, AnswerKeeps DEF Inductive, TypeOK
  <2> QED BY <1>5, <2>2, <2>3 DEF Inductive, TypeOK, Timely, InWindow
<1>7. CASE Loop(p, "expire", rest) /\ UNCHANGED offer
  <2>1. RunsReady' BY <1>1, <1>3, <1>7, LoopKeeps
  <2> QED BY <1>5, <1>7, <2>1, RunKeeps
<1> QED BY <1>4, <1>6, <1>7

(* An offer is made by the clock its request's window was judged by.       *)
LEMMA OfferKeeps ==
  ASSUME Inductive, NEW r \in Requests, NEW d, NEW from, NEW clock \in Nat,
         Dispatchable(r, clock), MakeOffer(r, d, from, clock)
  PROVE  OffersTyped' /\ \A q \in Requests, e \in Drivers : InWindow(offer'[q][e], request[q])
<1> DEFINE made == Made(from, clock)
<1>1. made.offered \in Nat /\ made.offered = clock BY DEF Made
<1>2. SetOffer(r, d, made) BY DEF MakeOffer
<1>3. request[r].status = "WAITING" /\ request[r].requested + Window > clock
  BY DEF Dispatchable, Searching
<1>4. OffersTyped BY DEF Inductive, TypeOK
<1> HIDE DEF made
<1>5. /\ OffersTyped'
      /\ \A q \in Requests, e \in Drivers :
           offer'[q][e] = IF q = r /\ e = d THEN made ELSE offer[q][e]
  BY <1>1, <1>2, <1>4, Cells
<1>6. request[r].requested \in Nat BY DEF Inductive, TypeOK, RequestSet
<1>7. ASSUME NEW q \in Requests, NEW e \in Drivers PROVE InWindow(offer'[q][e], request[q])
  <2>1. CASE q = r /\ e = d
    <3>1. offer'[q][e] = made BY <1>5, <2>1
    <3> QED BY <1>1, <1>3, <1>6, <2>1, <3>1, SweepsAssumption DEF InWindow
  <2>2. CASE ~(q = r /\ e = d) BY <1>5, <2>2 DEF Inductive, Timely
  <2> QED BY <2>1, <2>2
<1> QED BY <1>5, <1>7

LEMMA InsertKeeps == ASSUME Inductive, NEW p \in Processes, Insert(p) PROVE Inductive'
<1>1. RunsReady BY DEF Inductive, TypeOK
<1>2. RunsReady' /\ UNCHANGED <<now, request, driver>> BY <1>1, ContinueKeeps DEF Insert
<1>3. CASE UNCHANGED offer BY <1>2, <1>3, RunKeeps
<1>4. CASE /\ StillDispatchable(run[p].req, run[p].chosen, run[p].clock)
           /\ MakeOffer(run[p].req, run[p].chosen, run[p].from, run[p].clock)
  <2>1. run[p].clock \in Nat /\ run[p].req \in Requests
    BY <1>1 DEF RunsReady, Ready, Insert
  <2>2. OffersTyped' /\ \A q \in Requests, e \in Drivers : InWindow(offer'[q][e], request[q])
    BY <1>4, <2>1, OfferKeeps DEF StillDispatchable
  <2> QED BY <1>2, <2>2 DEF Inductive, TypeOK, Timely, InWindow
<1> QED BY <1>3, <1>4 DEF Insert

LEMMA ForestallKeeps ==
  ASSUME Inductive, NEW p \in Processes, NEW r \in Requests, Forestall(p, r)
  PROVE  Inductive'
<1>1. now \in Nat /\ Dispatchable(r, now) BY DEF Inductive, TypeOK, Forestall
<1>2. PICK d, from : MakeOffer(r, d, from, now) BY DEF Forestall
<1>3. OffersTyped' /\ \A q \in Requests, e \in Drivers : InWindow(offer'[q][e], request[q])
  BY <1>1, <1>2, OfferKeeps
<1> QED BY <1>3 DEF Forestall, Inductive, TypeOK, RunsReady, Timely, InWindow

LEMMA StepKeeps == ASSUME Inductive, NEW p \in Processes, Step(p) \/ Die(p) PROVE Inductive'
<1>1. CASE RouterFails(p) \/ InsertRefused(p) \/ Die(p)
  BY <1>1, IdleIsReady, SetKeeps, RunKeeps DEF RouterFails, InsertRefused, Die, Inductive, TypeOK
<1> QED BY <1>1, StartSweepKeeps, ExpireNextKeeps, SecondLoopKeeps, RetryNextKeeps, SearchKeeps,
           InsertKeeps DEF Step

(* People.  A request is written as a whole, and so is a driver.           *)
LEMMA RequestWritten ==
  ASSUME Inductive, NEW r, NEW status \in {"NONE", "WAITING", "MATCHED", "CLOSED"},
         NEW requested \in Nat, SetRequest(r, status, requested)
  PROVE  /\ request' \in [Requests -> RequestSet]
         /\ \A q \in Requests :
              request'[q] = IF q = r THEN [status |-> status, requested |-> requested] ELSE request[q]
<1>1. request \in [Requests -> RequestSet] BY DEF Inductive, TypeOK
<1>2. [status |-> status, requested |-> requested] \in RequestSet BY DEF RequestSet
<1> QED BY <1>1, <1>2 DEF SetRequest

LEMMA DriverWritten ==
  ASSUME Inductive, NEW d, NEW status \in {"OFFLINE", "AVAILABLE", "RESERVED"},
         NEW at \in Points, NEW since \in Nat, NEW seen \in Nat,
         SetDriver(d, status, at, since, seen)
  PROVE  driver' \in [Drivers -> DriverSet]
<1>1. driver \in [Drivers -> DriverSet] BY DEF Inductive, TypeOK
<1>2. [status |-> status, at |-> at, since |-> since, seen |-> seen] \in DriverSet BY DEF DriverSet
<1> QED BY <1>1, <1>2 DEF SetDriver

LEMMA CreateKeeps == ASSUME Inductive, NEW r \in Requests, Create(r) PROVE Inductive'
<1>1. now \in Nat /\ RunsReady /\ request[r].status = "NONE" BY DEF Inductive, TypeOK, Create
<1>2. /\ request' \in [Requests -> RequestSet]
      /\ \A q \in Requests :
           request'[q] = IF q = r THEN [status |-> "WAITING", requested |-> now] ELSE request[q]
  BY <1>1, RequestWritten DEF Create
<1>3. RunsReady' BY <1>1, FollowUpKeeps DEF Create
<1>4. \A d \in Drivers : offer[r][d].status # "PENDING"
  BY <1>1 DEF Inductive, Timely, InWindow
<1>5. UNCHANGED <<now, offer, driver>> BY DEF Create
<1>6. Timely'
  BY <1>2, <1>4, <1>5 DEF Inductive, Timely, InWindow
<1> QED BY <1>2, <1>3, <1>5, <1>6 DEF Inductive, TypeOK, OffersTyped

LEMMA CancelKeeps == ASSUME Inductive, NEW r \in Requests, Cancel(r) PROVE Inductive'
<1>1. /\ request' \in [Requests -> RequestSet]
      /\ \A q \in Requests :
           request'[q] = IF q = r THEN [status |-> "CLOSED", requested |-> 0] ELSE request[q]
  BY RequestWritten DEF Cancel
<1>2. UNCHANGED <<now, driver, run>> BY DEF Cancel
<1>3. /\ OffersTyped'
      /\ \A q \in Requests, e \in Drivers :
           /\ q # r => offer'[q][e] = offer[q][e]
           /\ q = r => offer'[q][e].status # "PENDING"
  <2>1. OffersTyped BY DEF Inductive, TypeOK
  <2>2. PICK row : row = [d \in Drivers |->
                 IF Pending(r, d) THEN Answered("CANCELLED", 0) ELSE offer[r][d]]
    OBVIOUS
  <2>3. offer' = [offer EXCEPT ![r] = row] BY <2>2 DEF Cancel
  <2>4. \A e \in Drivers : row[e].offered \in Nat /\ row[e].status # "PENDING"
    BY <2>1, <2>2 DEF OffersTyped, Answered, Pending
  <2>5. row = [e \in Drivers |-> row[e]] BY <2>2
  <2> QED BY <2>1, <2>3, <2>4, <2>5 DEF OffersTyped
<1>4. Timely' BY <1>1, <1>3 DEF Inductive, Timely, InWindow
<1> QED BY <1>1, <1>2, <1>3, <1>4 DEF Inductive, TypeOK, RunsReady

LEMMA ExpireRequestKeeps == ASSUME Inductive, NEW r \in Requests, ExpireRequest(r) PROVE Inductive'
<1>1. /\ request' \in [Requests -> RequestSet]
      /\ \A q \in Requests :
           request'[q] = IF q = r THEN [status |-> "CLOSED", requested |-> 0] ELSE request[q]
  BY RequestWritten DEF ExpireRequest
<1>2. UNCHANGED <<now, offer, driver, run>> BY DEF ExpireRequest
<1>3. Timely' BY <1>1, <1>2 DEF Inductive, Timely, InWindow
<1> QED BY <1>1, <1>2, <1>3 DEF Inductive, TypeOK, OffersTyped, RunsReady

(* Coming, going, moving and looking.                                      *)
LEMMA DriverKeeps ==
  ASSUME Inductive, driver' \in [Drivers -> DriverSet], UNCHANGED <<now, request, offer, run>>
  PROVE  Inductive'
BY DEF Inductive, TypeOK, OffersTyped, RunsReady, Timely, InWindow

LEMMA AvailabilityKeeps ==
  ASSUME Inductive, NEW d \in Drivers, NEW p \in Points,
         GoOnline(d, p) \/ Move(d, p) \/ GoOffline(d) \/ ListOffers(d)
  PROVE  Inductive'
<1>1. now \in Nat /\ driver[d] \in DriverSet BY DEF Inductive, TypeOK
<1>2. driver[d].at \in Points /\ driver[d].since \in Nat
      /\ driver[d].status \in {"OFFLINE", "AVAILABLE", "RESERVED"}
  BY <1>1 DEF DriverSet
<1>3. CASE GoOnline(d, p) BY <1>1, <1>2, <1>3, DriverWritten, DriverKeeps DEF GoOnline
<1>4. CASE Move(d, p) BY <1>1, <1>2, <1>4, DriverWritten, DriverKeeps DEF Move
<1>5. CASE GoOffline(d) BY <1>1, <1>2, <1>5, DriverWritten, DriverKeeps DEF GoOffline
<1>6. CASE ListOffers(d) BY <1>1, <1>2, <1>6, DriverWritten, DriverKeeps DEF ListOffers, Touched
<1> QED BY <1>3, <1>4, <1>5, <1>6

LEMMA AcceptKeeps ==
  ASSUME Inductive, NEW r \in Requests, NEW d \in Drivers, Accept(r, d)
  PROVE  Inductive'
<1>1. now \in Nat /\ driver[d] \in DriverSet /\ request \in [Requests -> RequestSet]
  BY DEF Inductive, TypeOK
<1>2. CASE Answer(r, d, "EXPIRED", 0) /\ UNCHANGED <<request, driver>>
  <2>1. OffersTyped' /\ \A q \in Requests, e \in Drivers : InWindow(offer'[q][e], request[q])
    BY <1>1, <1>2, AnswerKeeps
  <2> QED BY <1>2, <2>1 DEF Accept, Inductive, TypeOK, RunsReady, Timely, InWindow
<1>3. CASE /\ Answer(r, d, "ACCEPTED", now)
           /\ SetRequest(r, "MATCHED", 0)
           /\ SetDriver(d, "RESERVED", driver[d].at, 0, now)
  <2>1. /\ request' \in [Requests -> RequestSet]
        /\ \A q \in Requests :
             request'[q] = IF q = r THEN [status |-> "MATCHED", requested |-> 0] ELSE request[q]
    BY <1>3, RequestWritten
  <2>2. PICK k \in [Requests -> RequestSet] : k = request' BY <2>1
  <2>3. OffersTyped' /\ \A q \in Requests, e \in Drivers : InWindow(offer'[q][e], k[q])
    BY <1>3, <2>1, <2>2, AnswerKeeps
  <2>4. driver' \in [Drivers -> DriverSet]
    BY <1>1, <1>3, DriverWritten DEF DriverSet
  <2> QED BY <2>1, <2>2, <2>3, <2>4 DEF Accept, Inductive, TypeOK, RunsReady, Timely, InWindow
<1> QED BY <1>2, <1>3 DEF Accept

LEMMA RejectKeeps ==
  ASSUME Inductive, NEW r \in Requests, NEW d \in Drivers, Reject(r, d)
  PROVE  Inductive'
<1>1. now \in Nat /\ driver[d] \in DriverSet /\ request \in [Requests -> RequestSet] /\ RunsReady
  BY DEF Inductive, TypeOK
<1>2. OffersTyped' /\ \A q \in Requests, e \in Drivers : InWindow(offer'[q][e], request[q])
  BY <1>1, AnswerKeeps DEF Reject
<1>3. RunsReady'
  <2>1. CASE UNCHANGED run BY <1>1, <2>1 DEF RunsReady
  <2>2. CASE FollowUp(r) BY <1>1, <2>2, FollowUpKeeps
  <2> QED BY <2>1, <2>2 DEF Reject
<1>4. driver' \in [Drivers -> DriverSet]
  BY <1>1, DriverWritten DEF Reject, Touched, DriverSet
<1> QED BY <1>2, <1>3, <1>4 DEF Reject, Inductive, TypeOK, Timely, InWindow

LEMMA FinishKeeps ==
  ASSUME Inductive, NEW r \in Requests, NEW d \in Drivers, Finish(r, d)
  PROVE  Inductive'
<1>1. now \in Nat /\ Dropoff[r] \in Points BY SweepsAssumption DEF Inductive, TypeOK
<1>2. /\ request' \in [Requests -> RequestSet]
      /\ \A q \in Requests :
           request'[q] = IF q = r THEN [status |-> "CLOSED", requested |-> 0] ELSE request[q]
  BY RequestWritten DEF Finish
<1>3. driver' \in [Drivers -> DriverSet] BY <1>1, DriverWritten DEF Finish
<1>4. UNCHANGED <<now, offer, run>> BY DEF Finish
<1>5. Timely' BY <1>2, <1>4 DEF Inductive, Timely, InWindow
<1> QED BY <1>2, <1>3, <1>4, <1>5 DEF Inductive, TypeOK, OffersTyped, RunsReady

LEMMA TickKeeps == ASSUME Inductive, Tick PROVE Inductive'
BY SweepsAssumption DEF Tick, Inductive, TypeOK, OffersTyped, RunsReady, Timely, InWindow

LEMMA NextKeeps == Inductive /\ [Next]_vars => Inductive'
<1> SUFFICES ASSUME Inductive, [Next]_vars PROVE Inductive' OBVIOUS
<1>1. CASE UNCHANGED vars
  BY <1>1 DEF vars, Inductive, TypeOK, OffersTyped, RunsReady, Timely, InWindow
<1>2. CASE \/ \E p \in Processes : Step(p) \/ Die(p)
           \/ \E p \in Processes, r \in Requests : Forestall(p, r)
  BY <1>2, StepKeeps, ForestallKeeps
<1>3. CASE \E r \in Requests : Create(r) \/ Cancel(r) \/ ExpireRequest(r)
  BY <1>3, CreateKeeps, CancelKeeps, ExpireRequestKeeps
<1>4. CASE \E d \in Drivers, p \in Points : GoOnline(d, p) \/ Move(d, p)
  BY <1>4, AvailabilityKeeps
<1>5. CASE \E d \in Drivers : GoOffline(d) \/ ListOffers(d)
  <2>1. PICK d \in Drivers : GoOffline(d) \/ ListOffers(d) BY <1>5
  <2>2. Start[d] \in Points BY SweepsAssumption
  <2> QED BY <2>1, <2>2, AvailabilityKeeps
<1>6. CASE \E r \in Requests, d \in Drivers : Accept(r, d) \/ Reject(r, d) \/ Finish(r, d)
  BY <1>6, AcceptKeeps, RejectKeeps, FinishKeeps
<1>7. CASE Tick BY <1>7, TickKeeps
<1> QED BY <1>1, <1>2, <1>3, <1>4, <1>5, <1>6, <1>7 DEF Next

(* The tables and the runs are well formed, and every offer of a waiting   *)
(* request was made within the request's window.                           *)
THEOREM InductiveHolds == Spec => []Inductive
BY InitHolds, NextKeeps, PTL DEF Spec

-----------------------------------------------------------------------------
(* Only an acceptance matches a request, and only of an offer in time.     *)
LEMMA OnlyAcceptMatches ==
  ASSUME Inductive, [Next]_vars, NEW r \in Requests,
         request[r].status = "WAITING", request'[r].status = "MATCHED"
  PROVE  \E d \in Drivers : Accept(r, d) /\ ~Overdue(r, d, now)
<1>1. request \in [Requests -> RequestSet] BY DEF Inductive, TypeOK
<1>2. request' # request OBVIOUS
<1>3. ASSUME NEW q \in Requests, Create(q) \/ Cancel(q) \/ ExpireRequest(q) PROVE FALSE
  <2>1. ASSUME NEW status, NEW requested, SetRequest(q, status, requested), status # "MATCHED"
        PROVE  FALSE
    BY <1>1, <2>1 DEF SetRequest
  <2> QED BY <1>3, <2>1 DEF Create, Cancel, ExpireRequest
<1>4. ASSUME NEW q \in Requests, NEW d \in Drivers, Finish(q, d) PROVE FALSE
  BY <1>1, <1>4 DEF Finish, SetRequest
<1>5. ASSUME NEW q \in Requests, NEW d \in Drivers, Accept(q, d)
      PROVE  q = r /\ ~Overdue(r, d, now)
  BY <1>1, <1>2, <1>5 DEF Accept, SetRequest
<1>6. PICK q \in Requests, d \in Drivers : Accept(q, d)
  <2>1. ~UNCHANGED vars BY <1>2 DEF vars
  <2>2. Next BY <2>1
  <2>3. \A p \in Processes : ~(Step(p) \/ Die(p) \/ \E q \in Requests : Forestall(p, q))
    BY <1>2 DEF Step, Die, StartSweep, ExpireNext, SecondLoop, RetryNext, Search, RouterFails, Insert,
                InsertRefused, Forestall
  <2>4. /\ \A d \in Drivers, p \in Points : ~(GoOnline(d, p) \/ Move(d, p))
        /\ \A d \in Drivers : ~(GoOffline(d) \/ ListOffers(d))
        /\ \A q \in Requests, d \in Drivers : ~Reject(q, d)
        /\ ~Tick
    BY <1>2 DEF GoOnline, Move, GoOffline, ListOffers, Reject, Tick
  <2> QED BY <1>3, <1>4, <2>2, <2>3, <2>4 DEF Next
<1> QED BY <1>5, <1>6

(* However slow a sweep is and however old the clock it works by, nobody   *)
(* is matched later than by an offer made at the end of their window.      *)
THEOREM MatchesComeInTimeHolds == Spec => MatchesComeInTime
<1>1. ASSUME Inductive, [Next]_vars, NEW r \in Requests,
             request[r].status = "WAITING", request'[r].status = "MATCHED"
      PROVE  now <= request[r].requested + (Window - 1) + (OfferTtl - 1)
  <2>1. PICK d \in Drivers : Accept(r, d) /\ ~Overdue(r, d, now) BY <1>1, OnlyAcceptMatches
  <2>2. offer[r][d].status = "PENDING" BY <2>1 DEF Accept, Pending
  <2>3. ~(offer[r][d].offered + OfferTtl <= now) BY <2>1, <2>2 DEF Overdue, Pending
  <2>4. offer[r][d].offered < request[r].requested + Window
    BY <1>1, <2>2 DEF Inductive, Timely, InWindow
  <2>5. /\ offer[r][d].offered \in Nat /\ request[r].requested \in Nat /\ now \in Nat
        /\ OfferTtl \in Nat /\ Window \in Nat
    BY <1>1, SweepsAssumption DEF Inductive, TypeOK, OffersTyped, RequestSet
  <2> QED BY <2>3, <2>4, <2>5
<1>2. Inductive /\ [Next]_vars =>
        [\A r \in Requests :
           request[r].status = "WAITING" /\ request'[r].status = "MATCHED"
             => now <= request[r].requested + (Window - 1) + (OfferTtl - 1)]_vars
  BY <1>1
<1> QED BY <1>2, InductiveHolds, PTL DEF Spec, MatchesComeInTime

-----------------------------------------------------------------------------
(* The score.  Whoever is compared first was beaten by nobody's distance   *)
(* but for the credit and the answers.                                     *)

CandidateSet ==
  [id : Int, approach : Nat, rejections : Nat, acceptances : Nat, idle : Nat, since : Nat]

LEMMA ScoreBounds ==
  ASSUME NEW c \in CandidateSet
  PROVE  /\ Score(c) \in Nat
         /\ Penalty(c.rejections, c.acceptances) \in Nat
         /\ c.approach <= Score(c) + Weights.idleMax
         /\ Score(c) <= c.approach + Penalty(c.rejections, c.acceptances)
<1>1. /\ Weights.rejection \in Nat /\ Weights.workload \in Nat
      /\ Weights.idle \in Nat /\ Weights.idleMax \in Nat
  BY DriverSearchAssumption
<1>2. \A a, b \in Nat : a * b \in Nat OBVIOUS
<1>3. PICK penalty \in Nat : penalty = Penalty(c.rejections, c.acceptances)
  BY <1>1, <1>2 DEF Penalty, CandidateSet
<1>4. c.idle \div Minute \in Nat BY DriverSearchAssumption DEF CandidateSet
<1>5. PICK earned \in Nat : earned = (c.idle \div Minute) * Weights.idle BY <1>1, <1>2, <1>4
<1>6. IdleCredit(c.idle) \in Nat /\ IdleCredit(c.idle) <= Weights.idleMax
  BY <1>1, <1>5 DEF IdleCredit, Smaller
<1>7. PICK credit \in Nat : credit = IdleCredit(c.idle) BY <1>6
<1>8. Score(c) = Larger(0, c.approach + penalty - credit)
  BY <1>3, <1>7 DEF Score, CandidateScore
<1> QED BY <1>1, <1>3, <1>6, <1>7, <1>8 DEF Larger, CandidateSet

LEMMA BestIsNudged ==
  ASSUME NEW candidates \in SUBSET CandidateSet, NEW c \in candidates, IsBest(c, candidates)
  PROVE  FairnessNudges(c, candidates)
<1> SUFFICES ASSUME NEW other \in candidates
             PROVE  c.approach <= other.approach + Weights.idleMax
                                  + Penalty(other.rejections, other.acceptances)
  BY DEF FairnessNudges
<1>1. Score(c) <= Score(other)
  <2>1. Score(c) \in Nat /\ Score(other) \in Nat BY ScoreBounds
  <2> QED BY <2>1 DEF IsBest, CompareCandidates
<1>2. Weights.idleMax \in Nat BY DriverSearchAssumption
<1>3. c.approach \in Nat /\ other.approach \in Nat BY DEF CandidateSet
<1> QED BY <1>1, <1>2, <1>3, ScoreBounds

LEMMA AnswersCount ==
  ASSUME NEW d, NEW status, NEW since
  PROVE  Answers(d, status, since) \in Nat
<1> DEFINE S == {r \in Requests : offer[r][d].status = status /\ offer[r][d].answered >= since}
<1>1. IsFiniteSet(S) BY FS_Subset, SweepsAssumption
<1>2. Cardinality(S) \in Nat BY <1>1, FS_CardinalityType
<1> QED BY <1>2 DEF Answers

LEMMA SurvivorIsCandidate ==
  ASSUME Inductive, NEW d \in Drivers, NEW r \in Requests, NEW clock \in Nat,
         Reaches(driver[d], Pickup[r])
  PROVE  Candidate(d, Pickup[r], clock) \in CandidateSet
<1>1. driver[d] \in DriverSet BY DEF Inductive, TypeOK
<1>2. driver[d].at \in Points /\ driver[d].since \in Nat BY <1>1 DEF DriverSet
<1>3. Pickup[r] \in Points BY SweepsAssumption
<1>4. ApproachOf(driver[d], Pickup[r]) \in Nat
  BY <1>2, <1>3, SweepsAssumption DEF Reaches, ApproachOf
<1>5. IdleTime(driver[d], clock) \in Nat BY <1>2 DEF IdleTime, Larger
<1>6. d \in Int BY DriverSearchAssumption
<1>7. /\ Answers(d, "REJECTED", clock - RejectionWindow) \in Nat
      /\ Answers(d, "ACCEPTED", clock - WorkloadWindow) \in Nat
  BY AnswersCount
<1> QED BY <1>2, <1>4, <1>5, <1>6, <1>7 DEF Candidate, CandidateSet

(* Nobody but a search chooses a driver.                                   *)
LEMMA OnlySearchChooses ==
  ASSUME Inductive, [Next]_vars, NEW p \in Processes,
         run[p].stage = "search", run'[p].stage = "insert"
  PROVE  Search(p) /\ ~Continue(p)
<1>1. RunsReady BY DEF Inductive, TypeOK
<1>2. ASSUME NEW q \in Processes, NEW k, Set(q, k), k.stage = "insert" => q # p PROVE FALSE
  <2>1. run'[p] = IF q = p THEN k ELSE run[p] BY <1>1, <1>2 DEF RunsReady, Set
  <2> QED BY <1>2, <2>1
<1>3. ASSUME NEW q \in Processes, NEW loop \in {"call", "expire", "retry"}, NEW todo, Loop(q, loop, todo)
      PROVE  FALSE
  <2>1. Idle.stage = "idle" BY DEF Idle, At
  <2>2. At(loop, loop, run[q].clock, todo, None, None, None).stage # "insert" BY DEF At
  <2> QED BY <1>2, <1>3, <2>1, <2>2 DEF Loop
<1>4. \A q \in Processes : ~Continue(q)
  BY <1>1, <1>3 DEF Continue, RunsReady, Ready
<1>5. \A q \in Processes : ~(StartSweep(q) \/ ExpireNext(q) \/ SecondLoop(q) \/ RetryNext(q))
  BY <1>2, <1>3 DEF StartSweep, ExpireNext, SecondLoop, RetryNext, Assign, At
<1>6. \A q \in Processes : ~(RouterFails(q) \/ InsertRefused(q) \/ Die(q) \/ Insert(q))
  BY <1>2, <1>4 DEF RouterFails, InsertRefused, Die, Insert, Idle, At
<1>7. \A r \in Requests : ~FollowUp(r)
  BY <1>2 DEF FollowUp, At
<1>8. run' # run OBVIOUS
<1>9. /\ \A r \in Requests : ~(Create(r) \/ Cancel(r) \/ ExpireRequest(r))
      /\ \A d \in Drivers, x \in Points : ~(GoOnline(d, x) \/ Move(d, x))
      /\ \A d \in Drivers : ~(GoOffline(d) \/ ListOffers(d))
      /\ \A r \in Requests, d \in Drivers : ~(Accept(r, d) \/ Reject(r, d) \/ Finish(r, d))
      /\ \A q \in Processes, r \in Requests : ~Forestall(q, r)
      /\ ~Tick /\ ~UNCHANGED vars
  BY <1>7, <1>8 DEF Create, Cancel, ExpireRequest, GoOnline, Move, GoOffline, ListOffers, Accept,
     Reject, Finish, Forestall, Tick, vars
<1>10. PICK q \in Processes : Search(q) BY <1>5, <1>6, <1>9 DEF Next, Step
<1>11. q = p
  <2>1. PICK k : Set(q, k) BY <1>4, <1>10 DEF Search
  <2> QED BY <1>2, <2>1
<1> QED BY <1>4, <1>10, <1>11

(* A driver is chosen over a nearer one only by the credit of waiting and  *)
(* the other's own answers: nobody nearer was left out of the comparison.  *)
THEOREM ProximityWinsHolds == Spec => ProximityWins
<1>1. ASSUME Inductive, [Next]_vars, NEW p \in Processes,
             run[p].stage = "search", run'[p].stage = "insert"
      PROVE  LET pickup == Pickup[run[p].req]
                 clock == run[p].clock
                 chosen == run'[p].chosen
                 passed == {e \in Survivors(driver, Listed(driver, pickup, Busy, Spent(run[p].req)), pickup, clock) :
                              StraightLine[driver[e].at, pickup] < StraightLine[driver[chosen].at, pickup]}
             IN FairnessNudges(Candidate(chosen, pickup, clock), {Candidate(e, pickup, clock) : e \in passed})
  <2> DEFINE r == run[p].req
             pickup == Pickup[r]
             clock == run[p].clock
             listed == Listed(driver, pickup, Busy, Spent(r))
             metres == [d \in Drivers |-> StraightLine[driver[d].at, pickup]]
  <2>1. Search(p) /\ ~Continue(p) BY <1>1, OnlySearchChooses
  <2>2. r \in Requests /\ clock \in Nat BY <1>1 DEF Inductive, TypeOK, RunsReady, Ready
  <2>3. PICK page \in Pages(listed, metres, MaxCandidates) :
          \E c \in Candidates(Range(page), pickup, clock) :
            /\ IsBest(c, Candidates(Range(page), pickup, clock))
            /\ Set(p, At("insert", run[p].loop, clock, run[p].todo, r, c.id, driver[c.id].at))
    BY <2>1 DEF Search, ShortlistsFor, Shortlists
  <2>4. PICK c \in Candidates(Range(page), pickup, clock) :
            /\ IsBest(c, Candidates(Range(page), pickup, clock))
            /\ Set(p, At("insert", run[p].loop, clock, run[p].todo, r, c.id, driver[c.id].at))
    BY <2>3
  <2>5. run'[p].chosen = c.id BY <1>1, <2>4 DEF Set, At, Inductive, TypeOK, RunsReady
  <2>6. listed \subseteq Drivers BY DEF Listed
  <2>7. \A d \in Drivers : metres[d] \in Nat
    <3>1. \A d \in Drivers : driver[d].at \in Points BY <1>1 DEF Inductive, TypeOK, DriverSet
    <3>2. pickup \in Points BY <2>2, SweepsAssumption
    <3>3. StraightLine \in [Points \X Points -> Nat] BY SweepsAssumption
    <3> HIDE DEF pickup
    <3> QED BY <3>1, <3>2, <3>3
  <2> HIDE DEF r, pickup, clock, listed, metres
  <2>8. IsFiniteSet(listed) BY <2>6, FS_Subset, DriverSearchAssumption
  <2>9. /\ Range(page) \subseteq listed
        /\ \A row \in listed, x \in Range(page) : metres[row] < metres[x] => row \in Range(page)
    <3>1. \A row \in listed : metres[row] \in Int BY <2>6, <2>7
    <3>2. MaxCandidates \in Nat BY DriverSearchAssumption
    <3> QED BY <2>3, <2>8, <3>1, <3>2, PageOf
  <2>10. Candidates(Range(page), pickup, clock) \subseteq CandidateSet
    <3> SUFFICES ASSUME NEW d \in Survivors(driver, Range(page), pickup, clock)
                 PROVE  Candidate(d, pickup, clock) \in CandidateSet
      BY DEF Candidates
    <3>1. d \in Drivers /\ Reaches(driver[d], pickup) BY <2>6, <2>9 DEF Survivors
    <3> QED BY <1>1, <2>2, <3>1, SurvivorIsCandidate DEF pickup
  <2>11. FairnessNudges(c, Candidates(Range(page), pickup, clock))
    BY <2>4, <2>10, BestIsNudged
  <2>12. PICK d \in Survivors(driver, Range(page), pickup, clock) : c = Candidate(d, pickup, clock)
    BY <2>4 DEF Candidates
  <2>13. c.id = d BY <2>12 DEF Candidate
  <2> DEFINE passed == {e \in Survivors(driver, listed, pickup, clock) :
                          StraightLine[driver[e].at, pickup] < StraightLine[driver[d].at, pickup]}
  <2>14. ASSUME NEW e \in passed
         PROVE  Candidate(e, pickup, clock) \in Candidates(Range(page), pickup, clock)
    <3>1. e \in listed /\ d \in Range(page) BY <2>12 DEF Survivors
    <3>2. metres[e] < metres[d] BY <2>6, <2>9, <3>1 DEF metres
    <3>3. e \in Survivors(driver, Range(page), pickup, clock) BY <2>9, <3>1, <3>2 DEF Survivors
    <3> QED BY <3>3 DEF Candidates
  <2>15. FairnessNudges(Candidate(d, pickup, clock), {Candidate(e, pickup, clock) : e \in passed})
    BY <2>11, <2>12, <2>14 DEF FairnessNudges
  <2>16. run'[p].chosen = d BY <2>5, <2>13
  <2> QED BY <2>15, <2>16 DEF r, pickup, clock, listed
<1>2. Inductive /\ [Next]_vars =>
  [\A p \in Processes :
       run[p].stage = "search" /\ run'[p].stage = "insert" =>
         LET pickup == Pickup[run[p].req]
             clock == run[p].clock
             chosen == run'[p].chosen
             passed == {e \in Survivors(driver, Listed(driver, pickup, Busy, Spent(run[p].req)), pickup, clock) :
                          StraightLine[driver[e].at, pickup] < StraightLine[driver[chosen].at, pickup]}
         IN FairnessNudges(Candidate(chosen, pickup, clock), {Candidate(e, pickup, clock) : e \in passed})]_vars
  BY <1>1
<1> QED BY <1>2, InductiveHolds, PTL DEF Spec, ProximityWins
====
