--------------------------- MODULE RideCreationProofs ---------------------------
(***************************************************************************)
(* RideCreation for every set of passengers, quotes, keys and calls.       *)
(* Inductive is an invariant; from it follow the properties, and that      *)
(* every step is one of RideLedger or leaves the rides as they are.        *)
(*                                                                         *)
(* The steps are of three kinds: those of one call that leave the rides    *)
(* alone (Steps of a call), the commit, and the end of a ride.             *)
(***************************************************************************)
EXTENDS RideCreation, TLAPS

CallSet ==
    [step : Steps \cup Recovery \cup {"reply"} \cup Granted \cup Refused \cup {"NONE", "LOST"},
     passenger : Passengers \cup {None}, key : Keys \cup {None},
     quote : Quotes \cup {None}, late : BOOLEAN]

(* One call goes to k, the others and the rides stay.                      *)
Moves(c, k) == k \in CallSet /\ call' = [call EXCEPT ![c] = k] /\ UNCHANGED ride

At(c, s) == [step |-> s, passenger |-> call[c].passenger, key |-> call[c].key,
             quote |-> call[c].quote, late |-> call[c].late]

LEMMA Typed == TypeOK => call \in [Calls -> CallSet]
BY DEF TypeOK, CallSet

(* A step of one call keeps the invariant if the call makes the progress   *)
(* its new step stands for and does not meet the others.                   *)
LEMMA MoveKeeps ==
    ASSUME Inductive, NEW c \in Calls, NEW k, Moves(c, k),
           expired' \in SUBSET Quotes, Progress(k),
           \A u \in Calls \ {c} : Apart(k, call[u]) /\ Apart(call[u], k)
    PROVE  Inductive'
<1>1. /\ call' \in [Calls -> CallSet] /\ call'[c] = k
      /\ \A u \in Calls \ {c} : call'[u] = call[u]
  BY Typed DEF Moves, Inductive
<1>2. TypeOK'
  BY <1>1 DEF Inductive, TypeOK, Moves, CallSet
<1>3. RidesAreUnique'
  BY DEF Inductive, RidesAreUnique, Moves
<1>4. ASSUME NEW l, Progress(l) PROVE Progress(l)'
  BY <1>4 DEF Moves, Progress, InFlight, Holds, Owns, SameKey, Occupied, Exists
<1>5. ASSUME NEW u \in Calls PROVE Progress(call[u])'
  <2>1. PICK l : l = call'[u] OBVIOUS
  <2>2. Progress(l)
    BY <1>1, <2>1 DEF Inductive, InsertsHold
  <2>3. Progress(l)'
    BY <1>4, <2>2
  <2> QED BY <2>1, <2>3 DEF Progress, InFlight, Holds, Owns, SameKey, Occupied, Exists
<1>6. ASSUME NEW u \in Calls, NEW v \in Calls, u # v PROVE Apart(call'[u], call'[v])
  BY <1>1, <1>6 DEF Inductive, InsertsHold
<1> QED BY <1>2, <1>3, <1>5, <1>6 DEF Inductive, InsertsHold, Apart, Holds

(* An answered call is out of everybody's way.                             *)
LEMMA AnsweredIsIdle ==
    ASSUME NEW a \in Granted \cup Refused \cup {"NONE", "LOST"}
    PROVE  /\ Answered(a) \in CallSet /\ Progress(Answered(a))
           /\ \A l : Apart(Answered(a), l) /\ Apart(l, Answered(a))
BY DEF Answered, CallSet, Progress, Apart, InFlight, Holds, Steps, Recovery, Granted, Refused

LEMMA AnswerKeeps ==
    ASSUME Inductive, NEW c \in Calls, NEW a \in Granted \cup Refused \cup {"NONE", "LOST"},
           Answer(c, a), UNCHANGED <<ride, expired>>
    PROVE  Inductive'
<1>1. Moves(c, Answered(a)) /\ expired' \in SUBSET Quotes
  BY AnsweredIsIdle DEF Answer, Moves, Inductive, TypeOK
<1> QED BY <1>1, AnsweredIsIdle, MoveKeeps

LEMMA GoKeeps ==
    ASSUME Inductive, NEW c \in Calls, NEW s \in Steps \cup Recovery \cup {"reply"},
           GoTo(c, s), UNCHANGED <<ride, expired>>, Progress(At(c, s)),
           \A u \in Calls \ {c} : Apart(At(c, s), call[u]) /\ Apart(call[u], At(c, s))
    PROVE  Inductive'
<1>1. PICK k : k = At(c, s) OBVIOUS
<1>2. call[c] \in CallSet BY Typed DEF Inductive
<1>3. k \in CallSet BY <1>1, <1>2 DEF At, CallSet
<1>4. Moves(c, k) BY <1>1, <1>3 DEF GoTo, At, Moves
<1> QED BY <1>1, <1>4, MoveKeeps DEF Inductive, TypeOK

(* Outside the transaction's locked part a call is nobody's concern.       *)
LEMMA FreeKeeps ==
    ASSUME Inductive, NEW c \in Calls, NEW s \in {"lockQuote"} \cup Recovery,
           InFlight(call[c]), GoTo(c, s), UNCHANGED <<ride, expired>>
    PROVE  Inductive'
<1>1. Progress(call[c])
  BY DEF Inductive, InsertsHold
<1>2. Progress(At(c, s))
  BY <1>1 DEF Progress, At, InFlight, Holds, Recovery, Steps
<1>3. \A l : Apart(At(c, s), l) /\ Apart(l, At(c, s))
  BY DEF Apart, At, Holds, Recovery
<1> QED BY <1>2, <1>3, GoKeeps DEF Steps

LEMMA ArriveKeeps == ASSUME Inductive, NEW c \in Calls, Arrive(c) PROVE Inductive'
<1>1. PICK p \in Passengers, k \in Keys, q \in Quotes :
         call' = [call EXCEPT ![c] = [step |-> "findPrior", passenger |-> p, key |-> k,
                                     quote |-> q, late |-> q \in expired]]
  BY DEF Arrive
<1>2. PICK l : l = [step |-> "findPrior", passenger |-> p, key |-> k, quote |-> q, late |-> q \in expired]
  OBVIOUS
<1>3. l \in CallSet
  BY <1>2 DEF CallSet, Steps
<1>4. Progress(l) /\ \A m : Apart(l, m) /\ Apart(m, l)
  BY <1>2 DEF Progress, Apart, InFlight, Holds
<1> QED BY <1>1, <1>2, <1>3, <1>4, MoveKeeps DEF Moves, Arrive, Inductive, TypeOK

LEMMA ExpireQuoteKeeps == ASSUME Inductive, NEW q \in Quotes, ExpireQuote(q) PROVE Inductive'
BY DEF Inductive, TypeOK, RidesAreUnique, InsertsHold, ExpireQuote,
       Progress, InFlight, Holds, Owns, SameKey, Occupied, Exists, Apart

LEMMA FindPriorKeeps == ASSUME Inductive, NEW c \in Calls, FindPrior(c) PROVE Inductive'
<1>1. CASE SameKey(call[c]) # {}
  BY <1>1, AnswerKeeps DEF FindPrior, ByKey, Granted, Refused
<1>2. CASE SameKey(call[c]) = {}
  BY <1>2, FreeKeeps DEF FindPrior, InFlight, Steps
<1> QED BY <1>1, <1>2

LEMMA RereadKeeps ==
    ASSUME Inductive, NEW c \in Calls, RereadPrior(c) \/ RereadQuote(c) \/ RereadActive(c)
    PROVE  Inductive'
<1>1. CASE \E a \in Granted \cup Refused : Answer(c, a)
  BY <1>1, AnswerKeeps DEF RereadPrior, RereadQuote, RereadActive
<1>2. CASE \E s \in Recovery : GoTo(c, s)
  BY <1>2, FreeKeeps DEF RereadPrior, RereadQuote, RereadActive, InFlight, Recovery
<1> QED BY <1>1, <1>2 DEF RereadPrior, RereadQuote, RereadActive, ByKey, Granted, Refused, Recovery

LEMMA LockQuoteKeeps == ASSUME Inductive, NEW c \in Calls, LockQuote(c) PROVE Inductive'
<1>1. CASE \E a \in Granted \cup Refused : Answer(c, a)
  BY <1>1, AnswerKeeps DEF LockQuote
<1>2. CASE ride[call[c].quote] = None /\ Owns(call[c]) /\ GoTo(c, "checkActive")
  <2>1. Progress(call[c]) /\ InFlight(call[c])
    BY DEF Inductive, InsertsHold, LockQuote, InFlight, Steps
  <2>2. Progress(At(c, "checkActive"))
    BY <1>2, <2>1 DEF Progress, At, InFlight, Holds, Owns
  <2>3. \A u \in Calls \ {c} : Apart(At(c, "checkActive"), call[u]) /\ Apart(call[u], At(c, "checkActive"))
    BY DEF LockQuote, Apart, At, Holds
  <2> QED BY <1>2, <2>2, <2>3, GoKeeps DEF LockQuote, Steps
<1> QED BY <1>1, <1>2 DEF LockQuote, ByQuote, Granted, Refused

LEMMA CheckActiveKeeps == ASSUME Inductive, NEW c \in Calls, CheckActive(c) PROVE Inductive'
<1>1. CASE Answer(c, "ACTIVE")
  BY <1>1, AnswerKeeps DEF CheckActive, Refused
<1>2. CASE GoTo(c, "insert")
  <2>1. Progress(call[c]) /\ \A u \in Calls \ {c} : Apart(call[c], call[u]) /\ Apart(call[u], call[c])
    BY DEF Inductive, InsertsHold
  <2>2. Progress(At(c, "insert"))
    BY <2>1 DEF Progress, At, InFlight, Holds, Owns, CheckActive, Steps
  <2>3. \A u \in Calls \ {c} : Apart(At(c, "insert"), call[u]) /\ Apart(call[u], At(c, "insert"))
    BY <2>1 DEF CheckActive, Apart, At, Holds
  <2> QED BY <1>2, <2>2, <2>3, GoKeeps DEF CheckActive, Steps
<1> QED BY <1>1, <1>2 DEF CheckActive

(* The insert waited until no row of its passenger stood in the way, and   *)
(* broke no rule.                                                          *)
LEMMA InsertKeeps == ASSUME Inductive, NEW c \in Calls, Insert(c) PROVE Inductive'
<1>1. Progress(call[c]) /\ \A u \in Calls \ {c} : Apart(call[c], call[u]) /\ Apart(call[u], call[c])
  BY DEF Inductive, InsertsHold
<1>2. CASE Breaks(call[c])
  BY <1>2, FreeKeeps DEF Insert, InFlight, Steps, Recovery
<1>3. CASE ~Breaks(call[c])
  <2>1. Progress(At(c, "commit"))
    BY <1>1, <1>3 DEF Progress, At, InFlight, Holds, Owns, Insert, Steps, Breaks, SameKey, Occupied
  <2>2. \A u \in Calls \ {c} : Apart(At(c, "commit"), call[u]) /\ Apart(call[u], At(c, "commit"))
    BY <1>1 DEF Insert, Standing, Apart, At, Holds
  <2> QED BY <1>3, <2>1, <2>2, GoKeeps DEF Insert, Steps
<1> QED BY <1>2, <1>3

LEMMA CommitKeeps == ASSUME Inductive, NEW c \in Calls, Commit(c) PROVE Inductive'
<1> DEFINE p == call[c].passenger
<1> DEFINE q == call[c].quote
<1> DEFINE row == [passenger |-> p, key |-> call[c].key, active |-> TRUE]
<1>1. /\ p \in Passengers /\ call[c].key \in Keys /\ q \in Quotes /\ row \in Rides
      /\ ride[q] = None /\ Owner[q] = p /\ SameKey(call[c]) = {} /\ Occupied(call[c]) = {}
  BY DEF Inductive, InsertsHold, Progress, InFlight, Holds, Owns, Commit, Steps, Rides
<1>2. /\ ride' = [ride EXCEPT ![q] = row]
      /\ call' = [call EXCEPT ![c] = At(c, "reply")] /\ UNCHANGED expired
  BY DEF Commit, GoTo, At
<1>3. /\ ride \in [Quotes -> Rides \cup {None}] /\ call \in [Calls -> CallSet]
      /\ ride' \in [Quotes -> Rides \cup {None}] /\ At(c, "reply") \in CallSet
  BY <1>1, <1>2, Typed DEF Inductive, TypeOK, CallSet, At
<1>4. /\ ride'[q] = row /\ \A o \in Quotes \ {q} : ride'[o] = ride[o]
      /\ call'[c] = At(c, "reply") /\ \A u \in Calls \ {c} : call'[u] = call[u]
  BY <1>1, <1>2, <1>3
<1>5. TypeOK'
  BY <1>2, <1>3 DEF Inductive, TypeOK, CallSet
<1>6. RidesAreUnique'
  <2>1. \A o \in Quotes : ride[o] # None /\ ride[o].passenger = p =>
           ride[o].key # call[c].key /\ ~ride[o].active
    BY <1>1 DEF SameKey, Occupied
  <2>2. row # None
    BY <1>1, NoneAssumption
  <2> QED BY <1>1, <1>4, <2>1, <2>2 DEF Inductive, RidesAreUnique
<1>7. ASSUME NEW u \in Calls PROVE Progress(call[u])'
  <2>1. CASE u = c
    BY <1>1, <1>3, <1>4, <2>1, NoneAssumption
       DEF Progress, InFlight, Holds, SameKey, Exists, At, Steps
  <2>2. CASE u # c
    <3>1. Progress(call[u]) /\ Apart(call[c], call[u]) /\ call'[u] = call[u]
      BY <1>4, <2>2 DEF Inductive, InsertsHold
    <3>2. Holds(call[u]) => call[u].quote # q /\ ride'[call[u].quote] = None /\ Owns(call[u])
      BY <1>4, <3>1 DEF Apart, Progress, Commit, Holds, InFlight, Steps
    <3>3. call[u].step = "commit" => call[u].passenger # p
      BY <3>1 DEF Apart, Commit
    <3>4. call[u].step = "commit" => SameKey(call[u])' = {} /\ Occupied(call[u])' = {}
      BY <1>4, <3>1, <3>3 DEF Progress, SameKey, Occupied
    <3>5. call[u].step = "reply" => Exists(call[u])'
      BY <1>1, <1>4, <3>1 DEF Progress, Exists, SameKey
    <3> QED BY <3>1, <3>2, <3>4, <3>5 DEF Progress, Holds, InFlight, Owns
  <2> QED BY <2>1, <2>2
<1>8. ASSUME NEW u \in Calls, NEW v \in Calls, u # v PROVE Apart(call'[u], call'[v])
  <2>1. \A w \in Calls : call[w].step = "reply" => call[w].quote # q
    BY <1>1 DEF Inductive, InsertsHold, Progress, Exists, SameKey
  <2>2. Apart(call[u], call[v]) /\ Apart(call[v], call[u])
    BY <1>8 DEF Inductive, InsertsHold
  <2> QED BY <1>4, <1>8, <2>1, <2>2 DEF Apart, At, Holds
<1> QED BY <1>5, <1>6, <1>7, <1>8 DEF Inductive, InsertsHold, Apart, Holds

LEMMA EndRideKeeps == ASSUME Inductive, NEW q \in Quotes, EndRide(q) PROVE Inductive'
<1> DEFINE row == [passenger |-> ride[q].passenger, key |-> ride[q].key, active |-> FALSE]
<1>1. /\ ride \in [Quotes -> Rides \cup {None}] /\ row # None
      /\ ride' = [ride EXCEPT ![q] = row] /\ UNCHANGED <<expired, call>>
      /\ row \in Rides
  <2>1. ride \in [Quotes -> Rides \cup {None}] /\ ride[q] # None
    BY DEF Inductive, TypeOK, EndRide
  <2>2. ride[q] \in Rides
    BY <2>1
  <2>3. row \in Rides
    BY <2>2 DEF Rides
  <2> QED BY <2>1, <2>3, NoneAssumption DEF EndRide
<1>2. /\ ride' \in [Quotes -> Rides \cup {None}]
      /\ ride'[q] = row /\ \A o \in Quotes \ {q} : ride'[o] = ride[o]
  BY <1>1
<1>3. TypeOK'
  BY <1>1, <1>2 DEF Inductive, TypeOK
<1>4. \A o \in Quotes :
         /\ ride'[o] = None <=> ride[o] = None
         /\ ride'[o].passenger = ride[o].passenger /\ ride'[o].key = ride[o].key
         /\ ride[o] # None /\ ride'[o].active => ride[o].active
  BY <1>1, <1>2 DEF EndRide
<1>5. RidesAreUnique'
  BY <1>4 DEF Inductive, RidesAreUnique
<1>6. ASSUME NEW u \in Calls PROVE Progress(call[u])'
  <2>1. Progress(call[u]) /\ call'[u] = call[u]
    BY <1>1 DEF Inductive, InsertsHold
  <2>2. SameKey(call[u])' = SameKey(call[u]) /\ Occupied(call[u])' \subseteq Occupied(call[u])
    BY <1>1, <1>4 DEF SameKey, Occupied
  <2> QED BY <1>1, <1>4, <2>1, <2>2 DEF Progress, InFlight, Holds, Owns, Exists
<1> QED BY <1>1, <1>3, <1>5, <1>6 DEF Inductive, InsertsHold, Apart, Holds

LEMMA ReplyOrLoseKeeps ==
    ASSUME Inductive, NEW c \in Calls, Reply(c) \/ Lose(c) PROVE Inductive'
BY AnswerKeeps DEF Reply, Lose, Granted

LEMMA StutterKeeps == ASSUME Inductive, UNCHANGED vars PROVE Inductive'
BY DEF Inductive, TypeOK, RidesAreUnique, InsertsHold, vars,
       Progress, InFlight, Holds, Owns, SameKey, Occupied, Exists, Apart

(* However many calls race and are retried, in whatever order their        *)
(* statements run: types, unique rides, and inserts whose checks hold.     *)
THEOREM InductiveHolds == Spec => []Inductive
<1>1. Init => Inductive
  BY OwnerAssumption DEF Init, Inductive, TypeOK, RidesAreUnique, InsertsHold, Answered,
                         Progress, InFlight, Holds, Steps, Recovery, Apart
<1>2. Inductive /\ [Next]_vars => Inductive'
  BY ArriveKeeps, ExpireQuoteKeeps, FindPriorKeeps, RereadKeeps, LockQuoteKeeps, CheckActiveKeeps,
     InsertKeeps, CommitKeeps, EndRideKeeps, ReplyOrLoseKeeps, StutterKeeps DEF Next
<1> QED BY <1>1, <1>2, PTL DEF Spec

(* Every variable keeps its type: a ride keeps its passenger and its key,  *)
(* and a call is always at a step or has an answer.                        *)
THEOREM TypeCorrect == Spec => []TypeOK
BY InductiveHolds, PTL DEF Inductive

(* A key makes one ride, a passenger has one active ride, whatever races.  *)
THEOREM RidesAreUniqueHolds == Spec => []RidesAreUnique
BY InductiveHolds, PTL DEF Inductive

(* What a call found is still so when it commits, and one call per ride is *)
(* told it was created.                                                    *)
THEOREM InsertsHoldHolds == Spec => []InsertsHold
BY InductiveHolds, PTL DEF Inductive

(***************************************************************************)
(* The ledger.                                                             *)
(***************************************************************************)
LEMMA CommitBooks ==
    ASSUME Inductive, NEW c \in Calls, Commit(c)
    PROVE  \E p \in Passengers, k \in Keys, q \in Quotes : Ledger!Book(p, k, q)
<1>1. Progress(call[c]) /\ InFlight(call[c]) /\ Holds(call[c]) /\ call[c].step = "commit"
  BY DEF Inductive, InsertsHold, Commit, InFlight, Holds, Steps
<1>2. PICK p \in Passengers, k \in Keys, q \in Quotes :
         p = call[c].passenger /\ k = call[c].key /\ q = call[c].quote
  BY <1>1 DEF Progress
<1>3. Ledger!Book(p, k, q)
  BY <1>1, <1>2 DEF Ledger!Book, Ledger!Taken, Progress, Owns, SameKey, Occupied, Commit
<1> QED BY <1>3

(* The statements of all calls amount to atomic bookings: each step books  *)
(* a ride the ledger allows, ends one, or leaves the rides alone.          *)
THEOREM LedgerIsKept == Spec => LedgerKept
<1>1. Init => Ledger!Init
  BY DEF Init, Ledger!Init
<1>2. Inductive /\ [Next]_vars => [Ledger!Next]_ride
  <2> SUFFICES ASSUME Inductive, [Next]_vars, ride' # ride PROVE Ledger!Next
    OBVIOUS
  <2>1. ASSUME NEW c \in Calls, Commit(c) PROVE Ledger!Next
    BY <2>1, CommitBooks DEF Ledger!Next
  <2>2. ASSUME NEW q \in Quotes, EndRide(q) PROVE Ledger!Next
    BY <2>2 DEF Ledger!Next, Ledger!Finish, Ledger!Active, Ledger!Taken, EndRide
  <2>3. \/ \E c \in Calls : Commit(c)
        \/ \E q \in Quotes : EndRide(q)
    BY DEF Next, vars, Arrive, Lose, FindPrior, LockQuote, CheckActive, Insert, Reply,
           RereadPrior, RereadQuote, RereadActive, ExpireQuote
  <2> QED BY <2>1, <2>2, <2>3
<1> QED BY <1>1, <1>2, InductiveHolds, PTL DEF Spec, LedgerKept, Ledger!Spec

(***************************************************************************)
(* Retries.                                                                *)
(***************************************************************************)
(* How a step can take a call whose ride exists.                           *)
FairAnswer(c) ==
    InFlight(call[c]) /\ Exists(call[c]) =>
        /\ call[c].step = "findPrior" => call'[c].step \in {"findPrior", "REPLAY", "LOST"}
        /\ call'[c].step \in Refused =>
              \/ call[c].step = "lockQuote" /\ call[c].late
              \/ call[c].step \in {"rereadQuote", "rereadActive"}

LEMMA OwnStepIsFair ==
    ASSUME Inductive, NEW c \in Calls,
           \/ Arrive(c) \/ Lose(c) \/ FindPrior(c) \/ LockQuote(c) \/ CheckActive(c)
           \/ Insert(c) \/ Commit(c) \/ Reply(c)
           \/ RereadPrior(c) \/ RereadQuote(c) \/ RereadActive(c)
    PROVE  FairAnswer(c)
<1>1. call \in [Calls -> CallSet] /\ Progress(call[c])
  BY Typed DEF Inductive, InsertsHold
<1>2. \A a : Answer(c, a) => call'[c].step = a
  BY <1>1 DEF Answer, Answered
<1>3. \A s : GoTo(c, s) => call'[c].step = s
  BY <1>1 DEF GoTo
<1>4. Holds(call[c]) => ~Exists(call[c])
  BY <1>1 DEF Progress, Exists, SameKey
<1>5. CASE Arrive(c)
  BY <1>5 DEF Arrive, FairAnswer
<1>6. CASE Lose(c) \/ Reply(c)
  BY <1>2, <1>6 DEF Lose, Reply, FairAnswer, Refused
<1>7. CASE FindPrior(c)
  BY <1>2, <1>7 DEF FindPrior, ByKey, FairAnswer, Exists, Refused
<1>8. CASE LockQuote(c)
  <2>1. Exists(call[c]) => Owner[call[c].quote] = call[c].passenger /\ ride[call[c].quote] # None
    BY DEF Inductive, RidesAreUnique, Exists, SameKey
  <2> QED BY <1>2, <1>8, <2>1 DEF LockQuote, Owns, ByQuote, FairAnswer, Refused
<1>9. CASE CheckActive(c) \/ Insert(c) \/ Commit(c)
  BY <1>4, <1>9 DEF CheckActive, Insert, Commit, Holds, FairAnswer
<1>10. CASE RereadPrior(c)
  BY <1>2, <1>10 DEF RereadPrior, ByKey, FairAnswer, Exists, Refused
<1>11. CASE RereadQuote(c) \/ RereadActive(c)
  BY <1>11 DEF RereadQuote, RereadActive, FairAnswer
<1> QED BY <1>5, <1>6, <1>7, <1>8, <1>9, <1>10, <1>11

LEMMA OtherStepIsFair ==
    ASSUME NEW c \in Calls, call'[c] = call[c] PROVE FairAnswer(c)
BY DEF FairAnswer, InFlight, Steps, Recovery, Refused

LEMMA EveryStepIsFair ==
    ASSUME Inductive, [Next]_vars, NEW c \in Calls PROVE FairAnswer(c)
<1>1. ASSUME NEW u \in Calls, u # c,
             \/ Arrive(u) \/ Lose(u) \/ FindPrior(u) \/ LockQuote(u) \/ CheckActive(u)
             \/ Insert(u) \/ Commit(u) \/ Reply(u)
             \/ RereadPrior(u) \/ RereadQuote(u) \/ RereadActive(u)
      PROVE  call'[c] = call[c]
  BY <1>1, Typed DEF Inductive, Arrive, Lose, FindPrior, LockQuote, CheckActive, Insert, Commit, Reply,
     RereadPrior, RereadQuote, RereadActive, ByKey, ByQuote, Answer, GoTo
<1>2. CASE UNCHANGED vars \/ \E q \in Quotes : ExpireQuote(q) \/ EndRide(q)
  BY <1>2, OtherStepIsFair DEF vars, ExpireQuote, EndRide
<1> QED BY <1>1, <1>2, OwnStepIsFair, OtherStepIsFair DEF Next

(* A retry of a booked ride is no conflict, whatever happened in between.  *)
THEOREM RetryIsNoConflictHolds == Spec => RetryIsNoConflict
<1>1. Inductive /\ [Next]_vars => [\A c \in Calls : FairAnswer(c)]_vars
  BY EveryStepIsFair
<1>2. Inductive /\ [Next]_vars =>
        [\A c \in Calls : InFlight(call[c]) /\ Exists(call[c]) =>
           /\ call[c].step = "findPrior" => call'[c].step \in {"findPrior", "REPLAY", "LOST"}
           /\ call'[c].step \in Refused =>
                 \/ call[c].step = "lockQuote" /\ call[c].late
                 \/ call[c].step \in {"rereadQuote", "rereadActive"}]_vars
  BY <1>1 DEF FairAnswer
<1> QED BY <1>2, InductiveHolds, PTL DEF Spec, RetryIsNoConflict

=============================================================================
