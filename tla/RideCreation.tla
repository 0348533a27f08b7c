----------------------------- MODULE RideCreation -----------------------------
(***************************************************************************)
(* createRideRequest: a passenger accepts a fare quote under an            *)
(* idempotency key.  Calls race, are retried, and lose their answers.      *)
(*                                                                         *)
(* Each statement of the transaction reads what is committed when it runs, *)
(* so each is an action.  Two things hold a call back: the row lock on its *)
(* quote, and a uniqueness rule in which another transaction's uncommitted *)
(* row stands.  When the insert breaks a rule, the call rolls back and     *)
(* reads again, outside any transaction, to find out which.                *)
(*                                                                         *)
(* A ride is named by its quote (fare_quote_id is UNIQUE).  A fingerprint  *)
(* is a digest of the passenger and of the quote, whose row is immutable:  *)
(* two are equal when passenger and quote are.  What becomes of a ride is  *)
(* Dispatch's business; here it occupies its passenger until it ends.      *)
(***************************************************************************)
CONSTANTS
    Passengers,
    Keys,           \* idempotency keys
    Quotes,         \* fare quotes
    Owner,          \* the passenger of each quote, None for a legacy quote
    Calls,          \* requests to the API, each answered before it is reused
    None

ASSUME OwnerAssumption == Owner \in [Quotes -> Passengers \cup {None}]

VARIABLES
    ride,       \* the ride_requests row of each quote, or None
    expired,    \* quotes whose deadline has passed
    call        \* what each call asks for, and how far it is or its answer

vars == <<ride, expired, call>>

Rides == [passenger : Passengers, key : Keys, active : BOOLEAN]

ASSUME NoneAssumption == None \notin Rides

(* Steps of a call in its transaction, and after its insert was refused.   *)
Steps == {"findPrior", "lockQuote", "checkActive", "insert", "commit"}
Recovery == {"rereadPrior", "rereadQuote", "rereadActive"}
Granted == {"CREATED", "REPLAY"}
Refused == {"NOT_FOUND", "EXPIRED", "KEY_USED", "QUOTE_USED", "POINT_CLOSED", "ACTIVE", "CONFLICT"}

TypeOK ==
    /\ ride \in [Quotes -> Rides \cup {None}]
    /\ expired \in SUBSET Quotes
    /\ call \in [Calls ->
          [step : Steps \cup Recovery \cup {"reply"} \cup Granted \cup Refused \cup {"NONE", "LOST"},
           passenger : Passengers \cup {None}, key : Keys \cup {None},
           quote : Quotes \cup {None}, late : BOOLEAN]]

Answered(a) == [step |-> a, passenger |-> None, key |-> None, quote |-> None, late |-> FALSE]

Init ==
    /\ ride = [q \in Quotes |-> None]
    /\ expired = {}
    /\ call = [c \in Calls |-> Answered("NONE")]

InFlight(k) == k.step \in Steps \cup Recovery \cup {"reply"}

Answer(c, a) == call' = [call EXCEPT ![c] = Answered(a)]
GoTo(c, step) ==
    call' = [call EXCEPT ![c] =
               [step |-> step, passenger |-> call[c].passenger, key |-> call[c].key,
                quote |-> call[c].quote, late |-> call[c].late]]

(* The committed rides of a call's passenger: those that have its key, and *)
(* those that are active.                                                  *)
SameKey(k) == {q \in Quotes : ride[q] # None /\ ride[q].passenger = k.passenger /\ ride[q].key = k.key}
Occupied(k) == {q \in Quotes : ride[q] # None /\ ride[q].passenger = k.passenger /\ ride[q].active}

(* The ride a call asks for exists: same passenger, key and fingerprint.   *)
Exists(k) == k.quote \in SameKey(k)

(***************************************************************************)
(* The environment.                                                        *)
(***************************************************************************)
(* A client sends a call: a first one, a retry, or a key used differently. *)
(* The clock is read once, when it arrives.                                *)
Arrive(c) ==
    /\ ~InFlight(call[c])
    /\ \E p \in Passengers, k \in Keys, q \in Quotes :
          call' = [call EXCEPT ![c] = [step |-> "findPrior", passenger |-> p, key |-> k,
                                      quote |-> q, late |-> q \in expired]]
    /\ UNCHANGED <<ride, expired>>

ExpireQuote(q) ==
    /\ q \notin expired
    /\ expired' = expired \cup {q}
    /\ UNCHANGED <<ride, call>>

(* The ride is cancelled, expires, or completes.                           *)
EndRide(q) ==
    /\ ride[q] # None /\ ride[q].active
    /\ ride' = [ride EXCEPT ![q] = [passenger |-> ride[q].passenger, key |-> ride[q].key,
                                    active |-> FALSE]]
    /\ UNCHANGED <<expired, call>>

(* The process dies, the transaction times out or rolls back, or the       *)
(* connection breaks: the client hears nothing.                            *)
Lose(c) ==
    /\ InFlight(call[c])
    /\ Answer(c, "LOST")
    /\ UNCHANGED <<ride, expired>>

(***************************************************************************)
(* The transaction.                                                        *)
(***************************************************************************)
(* The passenger used this key before: for this ride, or for another.  And *)
(* the quote: by the same request, or by another.                          *)
ByKey(c) == Answer(c, IF Exists(call[c]) THEN "REPLAY" ELSE "KEY_USED")
MutantByQuote(c) == Answer(c, "QUOTE_USED")  \* mutant: any use of the quote is a conflict
ByQuote(c) == Answer(c, IF Exists(call[c]) THEN "REPLAY" ELSE "QUOTE_USED")

FindPrior(c) ==
    /\ call[c].step = "findPrior"
    /\ IF SameKey(call[c]) # {} THEN ByKey(c) ELSE GoTo(c, "lockQuote")
    /\ UNCHANGED <<ride, expired>>

MutantOwns(k) == TRUE  \* mutant: whose quote it is is not checked
Owns(k) == Owner[k.quote] = k.passenger

(* From the quote's lock to the end of the transaction.                    *)
Holds(k) == k.step \in {"checkActive", "insert", "commit"}

(* The quote is locked, then its owner, its deadline and its use are read. *)
LockQuote(c) ==
    LET k == call[c] IN
    /\ k.step = "lockQuote"
    /\ \A u \in Calls : ~(Holds(call[u]) /\ call[u].quote = k.quote)
    /\ \/ ~Owns(k) /\ Answer(c, "NOT_FOUND")
       \/ Owns(k) /\ k.late /\ Answer(c, "EXPIRED")
       \/ Owns(k) /\ ~k.late /\ ride[k.quote] # None /\ ByQuote(c)
       \/ /\ Owns(k) /\ ~k.late /\ ride[k.quote] = None
          /\ GoTo(c, "checkActive") \/ Answer(c, "POINT_CLOSED")
    /\ UNCHANGED <<ride, expired>>

CheckActive(c) ==
    /\ call[c].step = "checkActive"
    /\ IF Occupied(call[c]) # {} THEN Answer(c, "ACTIVE") ELSE GoTo(c, "insert")
    /\ UNCHANGED <<ride, expired>>

(* An uncommitted ride of the same passenger is active, so it stands in    *)
(* the way whatever its key; who inserts waits until it is decided.        *)
MutantStanding(c) == {}  \* mutant: no index, only the checks
Standing(c) == {u \in Calls : call[u].step = "commit" /\ call[u].passenger = call[c].passenger}

Breaks(k) == ride[k.quote] # None \/ SameKey(k) # {} \/ Occupied(k) # {}

Insert(c) ==
    /\ call[c].step = "insert"
    /\ Standing(c) = {}
    /\ GoTo(c, IF Breaks(call[c]) THEN "rereadPrior" ELSE "commit")
    /\ UNCHANGED <<ride, expired>>

Commit(c) ==
    LET k == call[c] IN
    /\ k.step = "commit"
    /\ ride' = [ride EXCEPT ![k.quote] = [passenger |-> k.passenger, key |-> k.key, active |-> TRUE]]
    /\ GoTo(c, "reply")
    /\ UNCHANGED expired

Reply(c) ==
    /\ call[c].step = "reply"
    /\ Answer(c, "CREATED")
    /\ UNCHANGED <<ride, expired>>

(***************************************************************************)
(* After a uniqueness violation.                                           *)
(***************************************************************************)
RereadPrior(c) ==
    /\ call[c].step = "rereadPrior"
    /\ IF SameKey(call[c]) # {} THEN ByKey(c) ELSE GoTo(c, "rereadQuote")
    /\ UNCHANGED <<ride, expired>>

RereadQuote(c) ==
    /\ call[c].step = "rereadQuote"
    /\ IF ride[call[c].quote] # None THEN Answer(c, "QUOTE_USED") ELSE GoTo(c, "rereadActive")
    /\ UNCHANGED <<ride, expired>>

RereadActive(c) ==
    /\ call[c].step = "rereadActive"
    /\ Answer(c, IF Occupied(call[c]) # {} THEN "ACTIVE" ELSE "CONFLICT")
    /\ UNCHANGED <<ride, expired>>

Next ==
    \/ \E c \in Calls :
          \/ Arrive(c) \/ Lose(c)
          \/ FindPrior(c) \/ LockQuote(c) \/ CheckActive(c) \/ Insert(c) \/ Commit(c) \/ Reply(c)
          \/ RereadPrior(c) \/ RereadQuote(c) \/ RereadActive(c)
    \/ \E q \in Quotes : ExpireQuote(q) \/ EndRide(q)

Spec == Init /\ [][Next]_vars

(***************************************************************************)
(* Safety.                                                                 *)
(***************************************************************************)
(* However calls race: a key makes one ride of its passenger, a passenger  *)
(* has one active ride, and a ride is of a quote of theirs.                *)
RidesAreUnique ==
    /\ \A q \in Quotes : ride[q] # None => ride[q].passenger = Owner[q]
    /\ \A q, o \in Quotes :
          q # o /\ ride[q] # None /\ ride[o] # None /\ ride[q].passenger = ride[o].passenger =>
              ride[q].key # ride[o].key /\ ~(ride[q].active /\ ride[o].active)

(* What a call found under the quote's lock is still so when it commits,   *)
(* although the active ride and the key were looked up without one; and    *)
(* only the call that booked a ride is told it was created.                *)
Progress(k) ==
    /\ InFlight(k) => k.passenger \in Passengers /\ k.key \in Keys /\ k.quote \in Quotes
    /\ Holds(k) => ride[k.quote] = None /\ Owns(k)
    /\ k.step = "commit" => SameKey(k) = {} /\ Occupied(k) = {}
    /\ k.step = "reply" => Exists(k)

Apart(k, l) ==
    /\ Holds(k) /\ Holds(l) => k.quote # l.quote
    /\ k.step = "commit" /\ l.step = "commit" => k.passenger # l.passenger
    /\ k.step = "reply" /\ l.step = "reply" => k.quote # l.quote

InsertsHold ==
    /\ \A c \in Calls : Progress(call[c])
    /\ \A c, u \in Calls : c # u => Apart(call[c], call[u])

Inductive == TypeOK /\ RidesAreUnique /\ InsertsHold

(* A retry of a booked ride is no conflict: a call whose ride exists when  *)
(* it is answered is refused only if the ride was booked after it looked   *)
(* for it, and either the call came after the quote's deadline or its own  *)
(* insert had been refused by then.                                        *)
RetryIsNoConflict ==
    [][\A c \in Calls : InFlight(call[c]) /\ Exists(call[c]) =>
          /\ call[c].step = "findPrior" => call'[c].step \in {"findPrior", "REPLAY", "LOST"}
          /\ call'[c].step \in Refused =>
                \/ call[c].step = "lockQuote" /\ call[c].late
                \/ call[c].step \in {"rereadQuote", "rereadActive"}]_vars

(***************************************************************************)
(* All the checks and re-reads amount to one atomic booking.               *)
(***************************************************************************)
Ledger == INSTANCE RideLedger
LedgerKept == Ledger!Spec

=============================================================================
