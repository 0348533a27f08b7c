----------------------------- MODULE ClientProofs -----------------------------
(***************************************************************************)
(* Theorems about the web client, for any number of journeys and whatever  *)
(* the bounds on rides, deeds, offers, lost calls and looks away.          *)
(***************************************************************************)
EXTENDS Client, SequenceTheorems, TLAPS

(***************************************************************************)
(* The driver's console: who waits for which refresh.                      *)
(***************************************************************************)
Waiting(i) == queue[i] \cap {"action", "repair"} # {}

\* The parts of a reading after so many of its reads.
PartsRead(step) == {part \in Parts : \/ part = "status" /\ step > 0
                                     \/ part = "offer" /\ step > 1
                                     \/ part = "pool" /\ step > 2}

ConsoleShape ==
    /\ queue \in Seq(SUBSET {"tick", "orphan", "action", "repair"})
    /\ reading = [step |-> reading.step, status |-> reading.status, offer |-> reading.offer,
                  pool |-> reading.pool, own |-> reading.own]
    /\ reading.step \in 0 .. 3
    /\ act = [what |-> act.what, on |-> act.on, step |-> act.step, pool |-> act.pool]

\* One refresh at a time is awaited by the action under way, and the running
\* one, if that is it, began after the action's write.
ConsoleInductive ==
    /\ ConsoleShape
    /\ queue = << >> => reading.step = 0 /\ reading.own = {}
    /\ \A i \in DOMAIN queue : "action" \in queue[i] => act.step = "after"
    /\ \A i \in DOMAIN queue : "repair" \in queue[i] => act.step = "repair"
    /\ \A i, j \in DOMAIN queue : Waiting(i) /\ Waiting(j) => i = j
    /\ queue # << >> /\ "action" \in queue[1] => reading.own = PartsRead(reading.step)

(***************************************************************************)
(* The passenger's screens: keys, quotes and bookings.                     *)
(***************************************************************************)
Quoted == [id : 1 .. MaxDeeds, of : Journeys \cup {None}]
Asks == {c \in calls : c.what = "quote"}
Bookings == {c \in calls : c.what = "submit"}

IsCall(c) == c = [what |-> c.what, owner |-> c.owner, quote |-> c.quote, key |-> c.key,
                  ride |-> c.ride, answer |-> c.answer, of |-> c.of]
Forms == [chosen : Journeys \cup {None}, timer : BOOLEAN, quote : Quoted \cup {None},
          key : 0 .. MaxDeeds, failed : BOOLEAN, sending : BOOLEAN]
RideRows == [phase : Active \cup Over, key : 0 .. MaxDeeds, quote : 1 .. MaxDeeds]
QuoteRows == [1 .. MaxDeeds -> {"none", "open", "spent", "expired"}]

PanelShape ==
    /\ \A c \in calls : IsCall(c)
    /\ form \in Forms
    /\ asked \in 0 .. MaxDeeds
    /\ visits \in Nat
    /\ quotes \in QuoteRows
    /\ rides \in Seq(RideRows)
    /\ \A c \in Asks \cup Bookings : c.quote \in Quoted /\ c.quote.id <= asked
    /\ form.quote # None => form.quote.id <= asked

\* A quote is asked for once, and its price is on the panel after that.
AsksAreNew ==
    /\ \A n \in asked + 1 .. MaxDeeds : quotes[n] = "none"
    /\ \A c, d \in Asks : c.quote.id = d.quote.id => c = d
    /\ \A c \in Asks : Pending(c) => quotes[c.quote.id] = "none"
    /\ \A c \in Asks : form.quote # None => form.quote.id # c.quote.id
    /\ \A c \in Asks, d \in Bookings : c.quote.id # d.quote.id

\* A booking in flight is the panel's, which waits for it, or nobody's.
OneBooking ==
    /\ \A c \in Bookings : c.owner \in {"panel", None}
    /\ \A c, d \in Bookings : c.quote.id = d.quote.id => c = d
    /\ \A c, d \in Bookings : c.owner = "panel" /\ d.owner = "panel" => c = d
    /\ \A c \in Bookings : c.owner = "panel" => form.sending
    /\ \A c \in Bookings : c.owner = None /\ form.quote # None => form.quote.id # c.quote.id

\* The key is the quote's, on the panel, on the way and in the ride's row.
KeysNameQuotes ==
    /\ form.quote # None /\ form.key # 0 => form.key = form.quote.id
    /\ \A c \in Bookings : c.key = c.quote.id
    /\ \A i \in 1 .. Len(rides) : rides[i].key = rides[i].quote

RidesSpendQuotes == \A i \in 1 .. Len(rides) : quotes[rides[i].quote] = "spent"

PanelInductive ==
    /\ PanelShape
    /\ AsksAreNew
    /\ OneBooking
    /\ KeysNameQuotes
    /\ RidesSpendQuotes
    /\ LostAnswersAreHarmless

(***************************************************************************)
(* The console keeps its invariant.                                        *)
(***************************************************************************)
(* A refresh joins the queue at its end, and nobody else's place changes.  *)
LEMMA RefreshAppends ==
  ASSUME NEW q \in Seq(SUBSET {"tick", "orphan", "action", "repair"}),
         NEW who \in {"tick", "orphan", "action", "repair"}
  PROVE  /\ Refresh(q, who) \in Seq(SUBSET {"tick", "orphan", "action", "repair"})
         /\ Refresh(q, who) # << >>
         /\ DOMAIN Refresh(q, who) = 1 .. Len(q) + 1
         /\ \A i \in DOMAIN q : Refresh(q, who)[i] = q[i]
         /\ Refresh(q, who)[Len(q) + 1] = {who}
  BY DEF Refresh

(* The running refresh leaves the queue at its front.                      *)
LEMMA TailMovesUp ==
  ASSUME NEW q \in Seq(SUBSET {"tick", "orphan", "action", "repair"}), q # << >>
  PROVE  /\ Tail(q) \in Seq(SUBSET {"tick", "orphan", "action", "repair"})
         /\ \A i \in DOMAIN Tail(q) : i + 1 \in DOMAIN q /\ i + 1 # 1 /\ Tail(q)[i] = q[i + 1]
         /\ Head(q) = q[1] /\ 1 \in DOMAIN q
  BY HeadTailProperties

(* A loop that is torn down keeps the others' places.                      *)
LEMMA OrphanedKeepsPlaces ==
  ASSUME NEW q \in Seq(SUBSET {"tick", "orphan", "action", "repair"})
  PROVE  /\ Orphaned(q) \in Seq(SUBSET {"tick", "orphan", "action", "repair"})
         /\ DOMAIN Orphaned(q) = DOMAIN q
         /\ \A i \in DOMAIN q : \A who \in {"action", "repair"} :
              who \in Orphaned(q)[i] <=> who \in q[i]
<1>1. Len(q) \in Nat /\ DOMAIN q = 1 .. Len(q)
  OBVIOUS
<1>2. \A i \in DOMAIN q : q[i] \subseteq {"tick", "orphan", "action", "repair"}
  OBVIOUS
<1>3. \A i \in DOMAIN q : {IF who = "tick" THEN "orphan" ELSE who : who \in q[i]}
                            \subseteq {"tick", "orphan", "action", "repair"}
  BY <1>2
<1> QED BY <1>1, <1>2, <1>3 DEF Orphaned

\* Whoever waits in a queue waited in the refreshes behind the running one.
FromBehind(q) ==
    /\ q \in Seq(SUBSET {"tick", "orphan", "action", "repair"})
    /\ \A i \in DOMAIN q : \A who \in {"action", "repair"} :
          who \in q[i] => i + 1 \in DOMAIN queue /\ i + 1 # 1 /\ who \in queue[i + 1]

(* When a refresh settles, the action that waited for it is done or waits  *)
(* for another, and no later refresh is awaited by it.                     *)
LEMMA SettledKeeps ==
  ASSUME ConsoleInductive, queue # << >>, NEW ok \in BOOLEAN, NEW newBeat, NEW waiting,
         FromBehind(waiting), Settled(ok, newBeat, waiting)
  PROVE  /\ ConsoleInductive'
         /\ act.step = "after" /\ act' = Idle => reading.own = PartsRead(reading.step)
<1> DEFINE callers == queue[1]
           retries == "action" \in callers /\ ~ok
<1>1. /\ queue' = IF retries THEN Refresh(waiting, "repair") ELSE waiting
      /\ act' = IF retries THEN [act EXCEPT !.step = "repair"]
                ELSE IF callers \cap {"action", "repair"} # {} THEN Idle ELSE act
      /\ reading' = NoReading
  BY TailMovesUp DEF Settled, ConsoleInductive, ConsoleShape
<1>2. callers \subseteq {"tick", "orphan", "action", "repair"} /\ 1 \in DOMAIN queue
  BY TailMovesUp DEF ConsoleInductive, ConsoleShape
<1>3. ConsoleShape' /\ reading'.step = 0 /\ reading'.own = {}
  <2>1. queue' \in Seq(SUBSET {"tick", "orphan", "action", "repair"})
    BY <1>1, RefreshAppends DEF FromBehind
  <2>2. act' = [what |-> act'.what, on |-> act'.on, step |-> act'.step, pool |-> act'.pool]
    BY <1>1 DEF ConsoleInductive, ConsoleShape, Idle
  <2>3. reading' = [step |-> 0, status |-> "OFFLINE", offer |-> 0, pool |-> NoPool, own |-> {}]
    BY <1>1 DEF NoReading
  <2> QED BY <2>1, <2>2, <2>3 DEF ConsoleShape
<1>4. \A i \in DOMAIN waiting : waiting[i] \cap {"action", "repair"} # {}
                                  => Waiting(i + 1) /\ i + 1 \in DOMAIN queue /\ i + 1 # 1
  BY DEF FromBehind, Waiting
<1>5. \A i, j \in DOMAIN waiting :
        /\ waiting[i] \cap {"action", "repair"} # {}
        /\ waiting[j] \cap {"action", "repair"} # {}
        => i = j
  <2>1. \A i \in DOMAIN waiting : i \in Nat
    BY DEF FromBehind
  <2> QED BY <1>4, <2>1 DEF ConsoleInductive
<1>6. Waiting(1) => \A i \in DOMAIN waiting : waiting[i] \cap {"action", "repair"} = {}
  BY <1>2, <1>4 DEF ConsoleInductive
<1>7. ASSUME retries PROVE ConsoleInductive'
  <2>1. \A i \in DOMAIN waiting : waiting[i] \cap {"action", "repair"} = {}
    BY <1>6, <1>7 DEF Waiting
  <2>2. /\ queue' = Refresh(waiting, "repair")
        /\ act'.step = "repair"
    BY <1>1, <1>7 DEF ConsoleInductive, ConsoleShape
  <2>3. /\ DOMAIN queue' = 1 .. Len(waiting) + 1
        /\ DOMAIN waiting = 1 .. Len(waiting) /\ Len(waiting) \in Nat
        /\ \A i \in 1 .. Len(waiting) : queue'[i] = waiting[i]
        /\ queue'[Len(waiting) + 1] = {"repair"}
    <3>1. waiting \in Seq(SUBSET {"tick", "orphan", "action", "repair"})
      BY DEF FromBehind
    <3>2. DOMAIN waiting = 1 .. Len(waiting) /\ Len(waiting) \in Nat
      BY <3>1
    <3> QED BY <2>2, <3>1, <3>2, RefreshAppends
  <2>4. \A i \in DOMAIN queue' : queue'[i] \cap {"action", "repair"} # {} => i = Len(waiting) + 1
    BY <2>1, <2>3
  <2>5. \A i \in DOMAIN queue' : "action" \notin queue'[i]
    BY <2>1, <2>3
  <2>6. 1 \in DOMAIN queue' /\ queue' # << >>
    BY <2>3
  <2> QED BY <1>3, <2>2, <2>4, <2>5, <2>6 DEF ConsoleInductive, Waiting
<1>8. ASSUME ~retries PROVE ConsoleInductive'
  <2>1. queue' = waiting
    BY <1>1, <1>8
  <2>2. ASSUME Waiting(1) PROVE ConsoleInductive'
    <3>1. \A i \in DOMAIN waiting : "action" \notin waiting[i] /\ "repair" \notin waiting[i]
      BY <1>6, <2>2
    <3>2. queue' # << >> => 1 \in DOMAIN queue'
      BY <2>1 DEF FromBehind
    <3> QED BY <1>3, <1>5, <2>1, <3>1, <3>2 DEF ConsoleInductive, Waiting
  <2>3. ASSUME ~Waiting(1) PROVE ConsoleInductive'
    <3>1. act' = act
      BY <1>1, <1>8, <2>3 DEF Waiting
    <3>2. \A i \in DOMAIN queue' : /\ "action" \in queue'[i] => act'.step = "after"
                                   /\ "repair" \in queue'[i] => act'.step = "repair"
      BY <2>1, <3>1 DEF FromBehind, ConsoleInductive
    <3>3. PartsRead(reading'.step) = {}
      BY <1>3 DEF PartsRead
    <3> QED BY <1>3, <1>5, <2>1, <3>2, <3>3 DEF ConsoleInductive, Waiting
  <2> QED BY <2>2, <2>3
<1>9. ASSUME act.step = "after", act' = Idle PROVE reading.own = PartsRead(reading.step)
  <2>1. act # Idle /\ "repair" \notin queue[1]
    BY <1>2, <1>9 DEF Idle, ConsoleInductive
  <2>2. "action" \in queue[1]
    BY <1>1, <1>9, <2>1 DEF Idle, ConsoleInductive, ConsoleShape
  <2> QED BY <2>2 DEF ConsoleInductive
<1> QED BY <1>7, <1>8, <1>9

(* The three queues a settled refresh can leave.                           *)
LEMMA BehindTheRunning ==
  ASSUME ConsoleInductive, queue # << >>
  PROVE  /\ FromBehind(Tail(queue))
         /\ FromBehind(Refresh(Tail(queue), "tick"))
         /\ FromBehind(Orphaned(Tail(queue)))
<1> DEFINE rest == Tail(queue)
<1>1. /\ rest \in Seq(SUBSET {"tick", "orphan", "action", "repair"})
      /\ \A i \in DOMAIN rest : i + 1 \in DOMAIN queue /\ i + 1 # 1 /\ rest[i] = queue[i + 1]
  BY TailMovesUp DEF ConsoleInductive, ConsoleShape
<1>2. FromBehind(rest)
  BY <1>1 DEF FromBehind
<1>3. FromBehind(Refresh(rest, "tick"))
  <2>1. \A i \in DOMAIN Refresh(rest, "tick") :
          i \in DOMAIN rest \/ Refresh(rest, "tick")[i] = {"tick"}
    <3>1. DOMAIN rest = 1 .. Len(rest) /\ Len(rest) \in Nat
      BY <1>1
    <3>2. /\ DOMAIN Refresh(rest, "tick") = 1 .. Len(rest) + 1
          /\ Refresh(rest, "tick")[Len(rest) + 1] = {"tick"}
      BY <1>1, RefreshAppends
    <3> QED BY <3>1, <3>2
  <2>2. \A i \in DOMAIN rest : Refresh(rest, "tick")[i] = rest[i]
    BY <1>1, RefreshAppends
  <2>3. Refresh(rest, "tick") \in Seq(SUBSET {"tick", "orphan", "action", "repair"})
    BY <1>1, RefreshAppends
  <2> QED BY <1>2, <2>1, <2>2, <2>3 DEF FromBehind
<1>4. FromBehind(Orphaned(rest))
  <2>1. /\ Orphaned(rest) \in Seq(SUBSET {"tick", "orphan", "action", "repair"})
        /\ DOMAIN Orphaned(rest) = DOMAIN rest
        /\ \A i \in DOMAIN rest : \A who \in {"action", "repair"} :
             who \in Orphaned(rest)[i] <=> who \in rest[i]
    BY <1>1, OrphanedKeepsPlaces
  <2> HIDE DEF rest
  <2> QED BY <1>2, <2>1 DEF FromBehind
<1> QED BY <1>2, <1>3, <1>4

(* One more caller at the end of the queue.                                *)
LEMMA JoiningKeeps ==
  ASSUME ConsoleInductive, NEW who \in {"tick", "action", "repair"},
         queue' = Refresh(queue, who), UNCHANGED reading, ConsoleShape',
         who = "tick" => act' = act,
         who # "tick" => act.step \in {"ok", "refused"},
         who = "action" => act'.step = "after",
         who = "repair" => act'.step = "repair"
  PROVE  ConsoleInductive'
<1>1. queue \in Seq(SUBSET {"tick", "orphan", "action", "repair"})
  BY DEF ConsoleInductive, ConsoleShape
<1> PICK n \in Nat : n = Len(queue)
  BY <1>1
<1>2. /\ DOMAIN queue = 1 .. n
      /\ DOMAIN queue' = 1 .. n + 1
      /\ \A i \in 1 .. n : queue'[i] = queue[i]
      /\ queue'[n + 1] = {who}
      /\ queue' # << >>
  <2>1. DOMAIN queue = 1 .. n
    BY <1>1
  <2>2. /\ Refresh(queue, who) # << >>
        /\ DOMAIN Refresh(queue, who) = 1 .. Len(queue) + 1
        /\ \A i \in DOMAIN queue : Refresh(queue, who)[i] = queue[i]
        /\ Refresh(queue, who)[Len(queue) + 1] = {who}
    BY <1>1, RefreshAppends
  <2> QED BY <2>1, <2>2
<1>3. \A i \in 1 .. n : Waiting(i) => act.step \in {"after", "repair"}
  <2>1. \A i \in 1 .. n : Waiting(i) => "action" \in queue[i] \/ "repair" \in queue[i]
    BY DEF Waiting
  <2> QED BY <1>2, <2>1 DEF ConsoleInductive
<1>4. \A i \in DOMAIN queue' : /\ "action" \in queue'[i] => act'.step = "after"
                               /\ "repair" \in queue'[i] => act'.step = "repair"
  <2>1. \A i \in 1 .. n : /\ "action" \in queue'[i] => act.step = "after"
                          /\ "repair" \in queue'[i] => act.step = "repair"
    BY <1>2 DEF ConsoleInductive
  <2>2. "action" \in queue'[n + 1] => who = "action"
    BY <1>2
  <2>3. "repair" \in queue'[n + 1] => who = "repair"
    BY <1>2
  <2>4. \A i \in 1 .. n + 1 : i \in 1 .. n \/ i = n + 1
    OBVIOUS
  <2>5. ASSUME NEW i \in 1 .. n
        PROVE  /\ "action" \in queue'[i] => act'.step = "after"
               /\ "repair" \in queue'[i] => act'.step = "repair"
    BY <2>1
  <2>6. /\ "action" \in queue'[n + 1] => act'.step = "after"
        /\ "repair" \in queue'[n + 1] => act'.step = "repair"
    BY <2>2, <2>3
  <2> QED BY <1>2, <2>4, <2>5, <2>6
<1>5. \A i, j \in DOMAIN queue' : Waiting(i)' /\ Waiting(j)' => i = j
  <2>1. \A i \in 1 .. n : Waiting(i)' <=> Waiting(i)
    BY <1>2 DEF Waiting
  <2>2. Waiting(n + 1)' => who # "tick"
    <3>1. Waiting(n + 1)' <=> {who} \cap {"action", "repair"} # {}
      BY <1>2 DEF Waiting
    <3> QED BY <3>1
  <2>3. \A i, j \in 1 .. n : Waiting(i) /\ Waiting(j) => i = j
    BY <1>2 DEF ConsoleInductive
  <2>4. who # "tick" => \A i \in 1 .. n : ~Waiting(i)
    BY <1>3
  <2>5. \A i \in 1 .. n + 1 : i \in 1 .. n \/ i = n + 1
    BY <1>2
  <2> QED BY <1>2, <2>1, <2>2, <2>3, <2>4, <2>5
<1>6. "action" \in queue'[1] => reading'.own = PartsRead(reading'.step)
  <2>1. CASE queue = << >>
    BY <2>1 DEF ConsoleInductive, PartsRead
  <2>2. CASE queue # << >>
    BY <1>1, <1>2, <2>2 DEF ConsoleInductive
  <2> QED BY <2>1, <2>2
<1> QED BY <1>2, <1>4, <1>5, <1>6 DEF ConsoleInductive

LEMMA ConsoleInit == Init => ConsoleInductive
<1> SUFFICES ASSUME Init PROVE ConsoleInductive
  OBVIOUS
<1>1. queue = << >> /\ reading = NoReading /\ act = Idle
  BY DEF Init, DriverInit
<1>2. ConsoleShape
  BY <1>1 DEF ConsoleShape, NoReading, Idle
<1> QED BY <1>1, <1>2 DEF ConsoleInductive, NoReading

(* No step of the driver or of the passenger breaks the queue's order, and *)
(* the step that ends an action's wait shows a reading that is all its own. *)
LEMMA ConsoleStep ==
  ASSUME ConsoleInductive, [Next]_vars
  PROVE  /\ ConsoleInductive'
         /\ act.step = "after" /\ act' = Idle => desk'.own = Parts
<1> DEFINE Shown == act.step = "after" /\ act' = Idle => desk'.own = Parts
<1>1. CASE UNCHANGED <<queue, reading, act>>
  <2>1. ConsoleInductive'
    BY <1>1 DEF ConsoleInductive, ConsoleShape, Waiting
  <2> QED BY <1>1, <2>1 DEF Idle
<1>2. CASE queue' = Refresh(queue, "tick") /\ UNCHANGED <<reading, act>>
  <2>1. ConsoleShape'
    BY <1>2, RefreshAppends DEF ConsoleInductive, ConsoleShape
  <2>2. ConsoleInductive'
    BY <1>2, <2>1, JoiningKeeps
  <2> QED BY <1>2, <2>2 DEF Idle
<1>3. CASE ReadNext
  <2>1. queue # << >> /\ UNCHANGED <<queue, act>>
    BY <1>3 DEF ReadNext
  <2>2. \/ /\ reading.step = 0
           /\ reading' = [reading EXCEPT !.step = 1, !.status = duty.status, !.own = @ \cup {"status"}]
        \/ /\ reading.step = 1
           /\ reading' = [reading EXCEPT !.step = 2, !.offer = duty.offer, !.own = @ \cup {"offer"}]
        \/ /\ reading.step = 2
           /\ reading' = [reading EXCEPT !.step = 3, !.pool = duty.pool, !.own = @ \cup {"pool"}]
    BY <1>3 DEF ReadNext
  <2>3. PICK k, s, o, p, w : reading = [step |-> k, status |-> s, offer |-> o, pool |-> p, own |-> w]
    BY DEF ConsoleInductive, ConsoleShape
  <2>4. PICK l, t, q, r, part :
          /\ k \in {0, 1, 2} /\ l = k + 1
          /\ reading' = [step |-> l, status |-> t, offer |-> q, pool |-> r, own |-> w \cup {part}]
          /\ part = IF k = 0 THEN "status" ELSE IF k = 1 THEN "offer" ELSE "pool"
    <3>1. ASSUME reading.step = 0,
                 reading' = [reading EXCEPT !.step = 1, !.status = duty.status, !.own = @ \cup {"status"}]
          PROVE  /\ k = 0
                 /\ reading' = [step |-> 1, status |-> duty.status, offer |-> o,
                                pool |-> p, own |-> w \cup {"status"}]
      BY <2>3, <3>1
    <3>2. ASSUME reading.step = 1,
                 reading' = [reading EXCEPT !.step = 2, !.offer = duty.offer, !.own = @ \cup {"offer"}]
          PROVE  /\ k = 1
                 /\ reading' = [step |-> 2, status |-> s, offer |-> duty.offer,
                                pool |-> p, own |-> w \cup {"offer"}]
      BY <2>3, <3>2
    <3>3. ASSUME reading.step = 2,
                 reading' = [reading EXCEPT !.step = 3, !.pool = duty.pool, !.own = @ \cup {"pool"}]
          PROVE  /\ k = 2
                 /\ reading' = [step |-> 3, status |-> s, offer |-> o,
                                pool |-> duty.pool, own |-> w \cup {"pool"}]
      BY <2>3, <3>3
    <3> QED BY <2>2, <3>1, <3>2, <3>3
  <2>5. w = PartsRead(k) => w \cup {part} = PartsRead(l)
    BY <2>4 DEF PartsRead, Parts
  <2>6. ConsoleShape' /\ (reading.own = PartsRead(reading.step) => reading'.own = PartsRead(reading'.step))
    BY <2>1, <2>3, <2>4, <2>5 DEF ConsoleInductive, ConsoleShape
  <2>7. ConsoleInductive'
    BY <2>1, <2>6 DEF ConsoleInductive, Waiting
  <2> QED BY <2>1, <2>7 DEF Idle
<1>4. CASE ReadingFails
  <2>1. queue # << >> /\ Settled(FALSE, beat, Tail(queue))
    BY <1>4 DEF ReadingFails
  <2>2. ConsoleInductive'
    BY <2>1, BehindTheRunning, SettledKeeps
  <2>3. act.step = "after" => act' # Idle
    <3>1. queue \in Seq(SUBSET {"tick", "orphan", "action", "repair"})
      BY DEF ConsoleInductive, ConsoleShape
    <3>2. Head(queue) = queue[1] /\ 1 \in DOMAIN queue
      BY <2>1, <3>1, TailMovesUp
    <3>3. act.step = "after" => "repair" \notin queue[1] /\ act # Idle
      BY <3>2 DEF ConsoleInductive, Idle
    <3>4. [act EXCEPT !.step = "repair"] # Idle
      BY DEF ConsoleInductive, ConsoleShape, Idle
    <3>5. act' = IF "action" \in queue[1] THEN [act EXCEPT !.step = "repair"]
                 ELSE IF queue[1] \cap {"action", "repair"} # {} THEN Idle ELSE act
      BY <2>1, <3>2 DEF Settled
    <3> QED BY <3>3, <3>4, <3>5
  <2> QED BY <2>2, <2>3
<1>5. CASE ShowReading
  <2>1. reading.step = 3 /\ queue # << >>
    BY <1>5 DEF ShowReading, ConsoleInductive
  <2>2. desk'.own = reading.own
    BY <1>5 DEF ShowReading
  <2>3. PICK newBeat, waiting : FromBehind(waiting) /\ Settled(TRUE, newBeat, waiting)
    BY <1>5, <2>1, BehindTheRunning DEF ShowReading
  <2>4. ConsoleInductive' /\ (act.step = "after" /\ act' = Idle => reading.own = PartsRead(3))
    BY <2>1, <2>3, SettledKeeps
  <2>5. PartsRead(3) = Parts
    BY DEF PartsRead, Parts
  <2> QED BY <2>2, <2>4, <2>5
<1>6. CASE Press \/ ServeAct \/ LoseAct
  <2>1. UNCHANGED queue /\ act.step \in {"idle", "sent", "ok"}
    <3>1. CASE Press
      BY <3>1 DEF Press, Idle
    <3>2. CASE ServeAct
      BY <3>2 DEF ServeAct
    <3>3. CASE LoseAct
      BY <3>3 DEF LoseAct
    <3> QED BY <1>6, <3>1, <3>2, <3>3
  <2>2. \A i \in DOMAIN queue : "action" \notin queue[i] /\ "repair" \notin queue[i]
    BY <2>1 DEF ConsoleInductive
  <2>3. act' = [what |-> act'.what, on |-> act'.on, step |-> act'.step, pool |-> act'.pool]
    BY <1>6 DEF Press, ServeAct, LoseAct, Idle, ConsoleInductive, ConsoleShape
  <2>4. UNCHANGED reading \/ reading' = [reading EXCEPT !.own = {}]
    BY <1>6 DEF Press, ServeAct, LoseAct
  <2>5. ConsoleShape' /\ reading'.step = reading.step /\ (reading.own = {} => reading'.own = {})
    BY <2>1, <2>3, <2>4 DEF ConsoleInductive, ConsoleShape
  <2>6. queue' # << >> => 1 \in DOMAIN queue'
    BY <2>1 DEF ConsoleInductive, ConsoleShape
  <2>7. ConsoleInductive'
    BY <2>1, <2>2, <2>5, <2>6 DEF ConsoleInductive, Waiting
  <2> QED BY <2>1, <2>7
<1>7. CASE LandAct
  <2>1. PICK who \in {"action", "repair"} :
          /\ queue' = Refresh(queue, who) /\ UNCHANGED reading
          /\ act.step \in {"ok", "refused"}
          /\ act' = [act EXCEPT !.step = IF who = "action" THEN "after" ELSE "repair"]
    BY <1>7 DEF LandAct
  <2>2. ConsoleShape' /\ act'.step = IF who = "action" THEN "after" ELSE "repair"
    BY <2>1, RefreshAppends DEF ConsoleInductive, ConsoleShape
  <2>3. ConsoleInductive'
    BY <2>1, <2>2, JoiningKeeps
  <2> QED BY <2>1, <2>3
<1>8. CASE AsDriver
  BY <1>1, <1>2, <1>3, <1>4, <1>5, <1>6, <1>7, <1>8
  DEF AsDriver, DriverNext, OpenConsole, Tick, LookAwayFromConsole, LookBackAtConsole,
      OfferMade, OfferGone, GoesStale, driver
<1>9. CASE SignIn \/ AsPassenger \/ UNCHANGED vars
  BY <1>1, <1>9 DEF SignIn, AsPassenger, vars, driver
<1> QED BY <1>8, <1>9 DEF Next

(* When an action of the driver's succeeds and its buttons come back, every *)
(* part of the screen is at least as new as that action's write: refresh() *)
(* calls queue up, and the one the action waits for began after it.        *)
THEOREM OwnWriteIsShownHolds == Spec => OwnWriteIsShown
<1>1. ConsoleInductive /\ [Next]_vars => ConsoleInductive'
  BY ConsoleStep
<1>2. ConsoleInductive /\ [Next]_vars
        => [act.step = "after" /\ act' = Idle => desk'.own = Parts]_driver
  BY ConsoleStep
<1> QED BY <1>1, <1>2, ConsoleInit, PTL DEF Spec, OwnWriteIsShown

(***************************************************************************)
(* The panel keeps its invariant.                                          *)
(***************************************************************************)
(* An answer changes the call it answers in nothing else.                  *)
LEMMA RepliedTo ==
  ASSUME PanelShape, NEW c \in calls, NEW a, Replied(c, a)
  PROVE  \E of : calls' = (calls \ {c}) \cup
                   {[what |-> c.what, owner |-> c.owner, quote |-> c.quote, key |-> c.key,
                     ride |-> c.ride, answer |-> a, of |-> of]}
<1>1. PICK w, o, q, k, r, e, f : c = [what |-> w, owner |-> o, quote |-> q, key |-> k, ride |-> r,
                                      answer |-> e, of |-> f]
  BY DEF PanelShape, IsCall
<1>2. PICK g : calls' = (calls \ {c}) \cup {[c EXCEPT !.answer = a, !.of = g]}
  BY DEF Replied
<1>3. [c EXCEPT !.answer = a, !.of = g] = [what |-> w, owner |-> o, quote |-> q, key |-> k,
                                           ride |-> r, answer |-> a, of |-> g]
  <2>1. PICK d : d = [c EXCEPT !.answer = a]
    OBVIOUS
  <2>2. d = [what |-> w, owner |-> o, quote |-> q, key |-> k, ride |-> r, answer |-> a, of |-> f]
    BY <1>1, <2>1
  <2>3. [d EXCEPT !.of = g] = [what |-> w, owner |-> o, quote |-> q, key |-> k, ride |-> r,
                               answer |-> a, of |-> g]
    BY <2>2
  <2>4. [c EXCEPT !.answer = a, !.of = g] = [d EXCEPT !.of = g]
    BY <2>1, Zenon
  <2> QED BY <2>3, <2>4
<1>4. c.what = w /\ c.owner = o /\ c.quote = q /\ c.key = k /\ c.ride = r
  BY <1>1
<1> QED BY <1>2, <1>3, <1>4

(* What a step must leave alone to be none of the panel's business: the    *)
(* price may be cleared, calls may land, rides may change their phase.     *)
LEMMA AsideKeeps ==
  ASSUME PanelInductive, UNCHANGED <<asked, quotes>>, visits' \in Nat, form' \in Forms,
         rides' \in Seq(RideRows),
         \A c \in calls' : c \in calls \/ (IsCall(c) /\ c.what \notin {"quote", "submit"}),
         form'.quote # None => form'.quote = form.quote /\ form'.key = form.key,
         \/ form'.sending = form.sending
         \/ \A c \in calls' : ~(c.what = "submit" /\ c.owner = "panel"),
         Len(rides') = Len(rides),
         \A i \in 1 .. Len(rides) : /\ rides'[i].key = rides[i].key
                                    /\ rides'[i].quote = rides[i].quote
  PROVE  PanelInductive'
<1>1. /\ \A c \in Asks' : c \in Asks
      /\ \A c \in Bookings' : c \in Bookings
  BY DEF Asks, Bookings
<1>7. PanelShape'
  <2>1. \A c \in calls' : IsCall(c)'
    BY DEF PanelInductive, PanelShape, IsCall
  <2> QED BY <1>1, <2>1 DEF PanelInductive, PanelShape
<1>2. AsksAreNew'
  BY <1>1 DEF PanelInductive, AsksAreNew, Pending
<1>3. OneBooking'
  <2>1. \A c \in Bookings' : c.owner = "panel" => form'.sending
    BY <1>1 DEF PanelInductive, OneBooking, Bookings
  <2>2. \A c \in Bookings' : c.owner = None /\ form'.quote # None => form'.quote.id # c.quote.id
    BY <1>1 DEF PanelInductive, OneBooking
  <2> QED BY <1>1, <2>1, <2>2 DEF PanelInductive, OneBooking
<1>4. KeysNameQuotes'
  BY <1>1 DEF PanelInductive, KeysNameQuotes
<1>5. RidesSpendQuotes'
  BY DEF PanelInductive, RidesSpendQuotes
<1>6. LostAnswersAreHarmless'
  BY DEF PanelInductive, LostAnswersAreHarmless
<1> QED BY <1>2, <1>3, <1>4, <1>5, <1>6, <1>7 DEF PanelInductive

(* The server answers an ask or a booking, and writes at most its quote.   *)
LEMMA AnswerKeeps ==
  ASSUME PanelInductive, NEW c \in Asks \cup Bookings, NEW a, a # "pending",
         Replied(c, a), UNCHANGED <<form, asked, visits>>,
         quotes' \in QuoteRows, rides' \in Seq(RideRows),
         \A n \in 1 .. MaxDeeds : n # c.quote.id => quotes'[n] = quotes[n],
         \A i \in 1 .. Len(rides') : rides'[i].key = rides'[i].quote,
         RidesSpendQuotes', LostAnswersAreHarmless'
  PROVE  PanelInductive'
<1>1. c \in calls /\ c.quote.id \in 1 .. asked /\ asked \in 0 .. MaxDeeds
  BY DEF PanelInductive, PanelShape, Asks, Bookings, Quoted
<1>2. PICK of : calls' = (calls \ {c}) \cup
                   {[what |-> c.what, owner |-> c.owner, quote |-> c.quote, key |-> c.key,
                     ride |-> c.ride, answer |-> a, of |-> of]}
  BY <1>1, RepliedTo DEF PanelInductive
<1> DEFINE e == [what |-> c.what, owner |-> c.owner, quote |-> c.quote, key |-> c.key,
                 ride |-> c.ride, answer |-> a, of |-> of]
<1>3. e.what = c.what /\ e.owner = c.owner /\ e.quote = c.quote /\ e.key = c.key /\ e.answer = a
  OBVIOUS
<1> HIDE DEF e
<1>4. calls' = (calls \ {c}) \cup {e}
  BY <1>2 DEF e
<1>5. /\ \A d \in Asks' : (d \in Asks /\ d # c) \/ (d = e /\ c \in Asks)
      /\ \A d \in Bookings' : (d \in Bookings /\ d # c) \/ (d = e /\ c \in Bookings)
  BY <1>3, <1>4 DEF Asks, Bookings
<1>6. AsksAreNew'
  <2>1. \A n \in asked' + 1 .. MaxDeeds : quotes'[n] = "none"
    BY <1>1 DEF PanelInductive, AsksAreNew
  <2>2. \A d \in Asks' : Pending(d) => d \in Asks /\ d # c
    BY <1>3, <1>5 DEF Pending
  <2>3. \A d \in Asks' : Pending(d) => quotes'[d.quote.id] = "none"
    <3>1. \A d \in Asks' : Pending(d) => d.quote.id # c.quote.id
      BY <2>2 DEF PanelInductive, AsksAreNew
    <3>2. \A d \in Asks : d.quote.id \in 1 .. MaxDeeds
      BY DEF PanelInductive, PanelShape, Quoted
    <3> QED BY <2>2, <3>1, <3>2 DEF PanelInductive, AsksAreNew
  <2>4. \A d, f \in Asks' : d.quote.id = f.quote.id => d = f
    BY <1>3, <1>5 DEF PanelInductive, AsksAreNew
  <2>5. \A d \in Asks', f \in Bookings' : d.quote.id # f.quote.id
    BY <1>3, <1>5 DEF PanelInductive, AsksAreNew
  <2>6. \A d \in Asks' : form'.quote # None => form'.quote.id # d.quote.id
    BY <1>3, <1>5 DEF PanelInductive, AsksAreNew
  <2>7. \A d \in Asks' : Pending(d)' <=> Pending(d)
    BY DEF Pending
  <2> QED BY <2>1, <2>3, <2>4, <2>5, <2>6, <2>7 DEF AsksAreNew
<1>7. OneBooking'
  <2>1. \A d \in Bookings' : \E f \in Bookings : d.quote = f.quote /\ d.owner = f.owner
    BY <1>3, <1>5
  <2>2. \A d, f \in Bookings' : d.quote.id = f.quote.id => d = f
    BY <1>3, <1>5 DEF PanelInductive, OneBooking
  <2>3. \A d, f \in Bookings' : d.owner = "panel" /\ f.owner = "panel" => d = f
    BY <1>3, <1>5 DEF PanelInductive, OneBooking
  <2> QED BY <2>1, <2>2, <2>3 DEF PanelInductive, OneBooking
<1>8. KeysNameQuotes'
  <2>1. \A d \in Bookings' : d.key = d.quote.id
    BY <1>3, <1>5 DEF PanelInductive, KeysNameQuotes
  <2> QED BY <2>1 DEF PanelInductive, KeysNameQuotes
<1>9. PanelShape'
  <2>1. IsCall(e)
    BY DEF e, IsCall
  <2>2. \A d \in calls' : IsCall(d)'
    BY <1>4, <2>1 DEF PanelInductive, PanelShape, IsCall
  <2>3. \A d \in Asks' \cup Bookings' : d.quote \in Quoted /\ d.quote.id <= asked
    BY <1>3, <1>5 DEF PanelInductive, PanelShape
  <2> QED BY <2>2, <2>3 DEF PanelInductive, PanelShape
<1> QED BY <1>6, <1>7, <1>8, <1>9 DEF PanelInductive

\* The abandoned form of a call.
Nobodys(c) == [c EXCEPT !.owner = None]

(* A page is left: bookings go on for nobody, and the next panel is blank. *)
LEMMA LeavingKeeps ==
  ASSUME PanelInductive, form' = BlankForm, UNCHANGED <<asked, quotes, rides>>, visits' \in Nat,
         calls' \subseteq Abandoned \cup MountedCalls
  PROVE  PanelInductive'
<1>1. \A c \in calls' : \/ c \in MountedCalls
                        \/ \E d \in calls : Outlives(d) /\ c = Nobodys(d)
  BY DEF Abandoned, Nobodys
<1>2. \A c \in MountedCalls : /\ c = [what |-> "poll", owner |-> "poll", quote |-> None, key |-> 0,
                                      ride |-> track'.last, answer |-> "pending", of |-> 0]
  BY DEF MountedCalls, AboutRide, Call
<1>3. ASSUME NEW d \in calls
      PROVE  Nobodys(d) = [what |-> d.what, owner |-> None, quote |-> d.quote, key |-> d.key,
                           ride |-> d.ride, answer |-> d.answer, of |-> d.of]
  <2>1. PICK w, o, q, k, r, e, f : d = [what |-> w, owner |-> o, quote |-> q, key |-> k, ride |-> r,
                                        answer |-> e, of |-> f]
    BY DEF PanelInductive, PanelShape, IsCall
  <2>2. Nobodys(d) = [what |-> w, owner |-> None, quote |-> q, key |-> k, ride |-> r,
                      answer |-> e, of |-> f]
    BY <2>1 DEF Nobodys
  <2>3. /\ d.what = w /\ d.quote = q /\ d.key = k
        /\ d.ride = r /\ d.answer = e /\ d.of = f
    BY <2>1
  <2> QED BY <2>2, <2>3
<1>4. \A c \in calls' : IsCall(c)'
  <2>1. \A c \in MountedCalls : IsCall(c)
    BY <1>2 DEF IsCall
  <2>2. \A d \in calls : IsCall(Nobodys(d))
    BY <1>3 DEF IsCall
  <2> QED BY <1>1, <2>1, <2>2 DEF IsCall
<1>5. ASSUME NEW d \in calls
      PROVE  /\ Nobodys(d).what = d.what /\ Nobodys(d).owner = None /\ Nobodys(d).quote = d.quote
             /\ Nobodys(d).key = d.key /\ Nobodys(d).answer = d.answer
  BY <1>3
<1>6. Asks' = {}
  <2>1. \A d \in calls : Outlives(d) => d.what # "quote"
    BY DEF Outlives
  <2> QED BY <1>1, <1>2, <1>5, <2>1 DEF Asks
<1>7. \A c \in Bookings' : \E d \in Bookings :
        c = Nobodys(d) /\ d.answer # "conflict"
  <2>1. \A d \in calls : d.what = "submit" /\ Outlives(d) => d.answer # "conflict"
    BY DEF Outlives, Pending
  <2> QED BY <1>1, <1>2, <1>5, <2>1 DEF Bookings
<1>8. \A d \in Bookings : d \in calls
  BY DEF Bookings
<1>9. PanelShape'
  <2>1. form' \in Forms
    BY DeedsAssumption DEF BlankForm, Forms
  <2>2. form'.quote = None
    BY DEF BlankForm
  <2>3. \A c \in Asks' \cup Bookings' : c.quote \in Quoted /\ c.quote.id <= asked
    BY <1>5, <1>6, <1>7, <1>8 DEF PanelInductive, PanelShape
  <2> QED BY <1>4, <2>1, <2>2, <2>3 DEF PanelInductive, PanelShape
<1>10. AsksAreNew'
  BY <1>6 DEF PanelInductive, AsksAreNew
<1>11. OneBooking'
  <2>1. form'.quote = None
    BY DEF BlankForm
  <2> QED BY <1>5, <1>7, <1>8, <2>1, NoneAssumption DEF PanelInductive, OneBooking
<1>12. KeysNameQuotes'
  BY <1>5, <1>7, <1>8 DEF PanelInductive, KeysNameQuotes, BlankForm
<1>13. RidesSpendQuotes'
  BY DEF PanelInductive, RidesSpendQuotes
<1>14. LostAnswersAreHarmless'
  <2>1. \A c \in Bookings' : c.answer # "conflict"
    BY <1>5, <1>7, <1>8
  <2> QED BY <2>1 DEF LostAnswersAreHarmless, Bookings
<1> QED BY <1>9, <1>10, <1>11, <1>12, <1>13, <1>14 DEF PanelInductive

(* Calls of the tracker carry neither a quote nor a key.                   *)
LEMMA NewCalls ==
  /\ \A w, o : Call(w, o) = [what |-> w, owner |-> o, quote |-> None, key |-> 0, ride |-> 0,
                             answer |-> "pending", of |-> 0]
  /\ \A w, id, o : AboutRide(w, id, o) = [what |-> w, owner |-> o, quote |-> None, key |-> 0,
                                          ride |-> id, answer |-> "pending", of |-> 0]
  BY DEF AboutRide, Call

LEMMA TrackersCalls ==
  /\ \A w, o : w \notin {"quote", "submit"}
       => IsCall(Call(w, o)) /\ Call(w, o).what \notin {"quote", "submit"}
  /\ \A w, id, o : w \notin {"quote", "submit"}
       => IsCall(AboutRide(w, id, o)) /\ AboutRide(w, id, o).what \notin {"quote", "submit"}
<1>1. ASSUME NEW w, NEW id, NEW o
      PROVE  /\ IsCall(Call(w, o)) /\ Call(w, o).what = w
             /\ IsCall(AboutRide(w, id, o)) /\ AboutRide(w, id, o).what = w
  BY NewCalls DEF IsCall
<1> QED BY <1>1

(* The tracker's own steps, and the tab's.                                 *)
LEMMA TrackerKeeps ==
  ASSUME PanelInductive, UNCHANGED <<form, asked, visits, quotes, rides>>,
         \A c \in calls' : \/ c \in calls
                           \/ IsCall(c) /\ c.what \notin {"quote", "submit"}
  PROVE  PanelInductive'
<1>1. visits' \in Nat /\ form' \in Forms /\ rides' \in Seq(RideRows)
  BY DEF PanelInductive, PanelShape
<1> QED BY <1>1, AsideKeeps

(* A ride of the passenger's moves on in its phase, and in nothing else.   *)
LEMMA PhaseOnly ==
  ASSUME PanelShape, NEW n, NEW p \in Active \cup Over, rides' = [rides EXCEPT ![n].phase = p]
  PROVE  /\ rides' \in Seq(RideRows)
         /\ Len(rides') = Len(rides)
         /\ \A i \in 1 .. Len(rides) : /\ rides'[i].key = rides[i].key
                                       /\ rides'[i].quote = rides[i].quote
<1>1. rides \in Seq(RideRows)
  BY DEF PanelShape
<1>2. DOMAIN rides' = 1 .. Len(rides) /\ Len(rides) \in Nat
  BY <1>1
<1>3. ASSUME NEW i \in 1 .. Len(rides)
      PROVE  /\ rides'[i] \in RideRows
             /\ rides'[i].key = rides[i].key
             /\ rides'[i].quote = rides[i].quote
  <2>1. rides[i] \in RideRows
    BY <1>1
  <2>2. rides'[i] = IF i = n THEN [rides[i] EXCEPT !.phase = p] ELSE rides[i]
    BY <1>1
  <2> QED BY <2>1, <2>2 DEF RideRows
<1>4. rides \in [1 .. Len(rides) -> RideRows]
  BY <1>1, LenProperties
<1>5. rides' \in [1 .. Len(rides) -> RideRows]
  BY <1>3, <1>4
<1>6. rides' \in Seq(RideRows)
  BY <1>2, <1>5, SeqDef
<1> QED BY <1>2, <1>3, <1>6

(* The server answers a question of the tracker's.                         *)
LEMMA ServingTheTracker ==
  ASSUME PanelInductive, NEW c \in calls, c.what \notin {"quote", "submit"},
         NEW a, Replied(c, a), UNCHANGED <<form, asked, visits, quotes>>,
         rides' \in Seq(RideRows), Len(rides') = Len(rides),
         \A i \in 1 .. Len(rides) : /\ rides'[i].key = rides[i].key
                                    /\ rides'[i].quote = rides[i].quote
  PROVE  PanelInductive'
<1>1. PICK of : calls' = (calls \ {c}) \cup
                   {[what |-> c.what, owner |-> c.owner, quote |-> c.quote, key |-> c.key,
                     ride |-> c.ride, answer |-> a, of |-> of]}
  BY RepliedTo DEF PanelInductive
<1> DEFINE e == [what |-> c.what, owner |-> c.owner, quote |-> c.quote, key |-> c.key,
                 ride |-> c.ride, answer |-> a, of |-> of]
<1>2. IsCall(e) /\ e.what \notin {"quote", "submit"}
  BY DEF IsCall
<1>3. \A d \in calls' : d \in calls \/ (IsCall(d) /\ d.what \notin {"quote", "submit"})
  BY <1>1, <1>2
<1>4. visits' \in Nat /\ form' \in Forms
  BY DEF PanelInductive, PanelShape
<1> QED BY <1>3, <1>4, AsideKeeps

(* A booking is served: recorded, replayed, refused, or out of date.       *)
LEMMA BookingServed ==
  ASSUME PanelInductive, NEW c \in calls, c.what = "submit", Serve(c)
  PROVE  PanelInductive'
<1>1. /\ c \in Bookings /\ c.quote \in Quoted /\ c.key = c.quote.id
      /\ c.quote.id \in 1 .. MaxDeeds
      /\ UNCHANGED <<form, asked, visits>>
  BY DEF Bookings, PanelInductive, PanelShape, KeysNameQuotes, Quoted, Serve
<1>2. /\ rides \in Seq(RideRows) /\ Len(rides) \in Nat /\ quotes \in QuoteRows
      /\ \A i \in 1 .. Len(rides) : rides[i].key = rides[i].quote /\ quotes[rides[i].quote] = "spent"
      /\ \A d \in calls : d.what = "submit" /\ d.answer = "conflict" =>
           \A i \in 1 .. Len(rides) : rides[i].quote # d.quote.id
      /\ \A d \in calls : d.what = "submit" /\ d # c => d.quote.id # c.quote.id
  BY <1>1 DEF PanelInductive, PanelShape, KeysNameQuotes, RidesSpendQuotes, LostAnswersAreHarmless,
              OneBooking, Bookings
<1>3. ASSUME NEW a, Replied(c, a)
      PROVE  \A d \in calls' : \/ d \in calls /\ d # c
                               \/ d.what = "submit" /\ d.quote = c.quote /\ d.answer = a
  <2>1. PICK of : calls' = (calls \ {c}) \cup
                   {[what |-> c.what, owner |-> c.owner, quote |-> c.quote, key |-> c.key,
                     ride |-> c.ride, answer |-> a, of |-> of]}
    BY <1>3, RepliedTo DEF PanelInductive
  <2> QED BY <2>1
<1>4. ASSUME \E i \in 1 .. Len(rides) : rides[i].key = c.key, UNCHANGED <<rides, quotes>>,
             Replied(c, "ok")
      PROVE  PanelInductive'
  <2>1. LostAnswersAreHarmless'
    BY <1>2, <1>3, <1>4 DEF LostAnswersAreHarmless
  <2>2. RidesSpendQuotes'
    BY <1>2, <1>4 DEF RidesSpendQuotes
  <2>3. \A i \in 1 .. Len(rides') : rides'[i].key = rides'[i].quote
    BY <1>2, <1>4
  <2> QED BY <1>1, <1>2, <1>4, <2>1, <2>2, <2>3, AnswerKeeps
<1>5. ASSUME \A i \in 1 .. Len(rides) : rides[i].key # c.key, Replied(c, "conflict"),
             UNCHANGED rides,
             \/ UNCHANGED quotes
             \/ quotes[c.quote.id] = "open" /\ quotes' = [quotes EXCEPT ![c.quote.id] = "expired"]
      PROVE  PanelInductive'
  <2>1. \A i \in 1 .. Len(rides) : rides[i].quote # c.quote.id
    BY <1>1, <1>2, <1>5
  <2>2. LostAnswersAreHarmless'
    BY <1>2, <1>3, <1>5, <2>1 DEF LostAnswersAreHarmless
  <2>3. /\ quotes' \in QuoteRows
        /\ \A n \in 1 .. MaxDeeds : n # c.quote.id => quotes'[n] = quotes[n]
    BY <1>2, <1>5 DEF QuoteRows
  <2>4. \A i \in 1 .. Len(rides) : rides[i].quote \in 1 .. MaxDeeds
    <3>1. \A i \in 1 .. Len(rides) : rides[i] \in RideRows
      BY <1>2
    <3> QED BY <3>1 DEF RideRows
  <2>5. RidesSpendQuotes'
    BY <1>2, <1>5, <2>1, <2>3, <2>4 DEF RidesSpendQuotes
  <2>6. \A i \in 1 .. Len(rides') : rides'[i].key = rides'[i].quote
    BY <1>2, <1>5
  <2> QED BY <1>1, <1>2, <1>5, <2>2, <2>3, <2>5, <2>6, AnswerKeeps
<1>6. ASSUME quotes[c.quote.id] = "open", Replied(c, "ok"),
             rides' = Append(rides, [phase |-> "Waiting", key |-> c.key, quote |-> c.quote.id]),
             quotes' = [quotes EXCEPT ![c.quote.id] = "spent"]
      PROVE  PanelInductive'
  <2> DEFINE row == [phase |-> "Waiting", key |-> c.key, quote |-> c.quote.id]
  <2>1. row \in RideRows
    BY <1>1, DeedsAssumption DEF RideRows, Active
  <2>2. /\ rides' \in Seq(RideRows) /\ Len(rides') = Len(rides) + 1
        /\ \A i \in 1 .. Len(rides) : rides'[i] = rides[i]
        /\ rides'[Len(rides) + 1] = row
    BY <1>2, <1>6, <2>1
  <2>3. row.key = c.quote.id /\ row.quote = c.quote.id
    BY <1>1
  <2>4. /\ quotes' \in QuoteRows
        /\ \A n \in 1 .. MaxDeeds : n # c.quote.id => quotes'[n] = quotes[n]
        /\ quotes'[c.quote.id] = "spent"
    BY <1>1, <1>2, <1>6 DEF QuoteRows
  <2>5. \A i \in 1 .. Len(rides') : i \in 1 .. Len(rides) \/ i = Len(rides) + 1
    BY <1>2, <2>2
  <2>6. \A i \in 1 .. Len(rides) : rides[i].quote \in 1 .. MaxDeeds /\ rides[i].quote # c.quote.id
    <3>1. \A i \in 1 .. Len(rides) : rides[i] \in RideRows
      BY <1>2
    <3>2. \A i \in 1 .. Len(rides) : rides[i].quote \in 1 .. MaxDeeds
      BY <3>1 DEF RideRows
    <3> QED BY <1>2, <1>6, <3>2
  <2> HIDE DEF row
  <2>7. RidesSpendQuotes'
    <3>1. ASSUME NEW i \in 1 .. Len(rides') PROVE quotes'[rides'[i].quote] = "spent"
      <4>1. CASE i \in 1 .. Len(rides)
        BY <1>2, <2>2, <2>4, <2>6, <4>1
      <4>2. CASE i = Len(rides) + 1
        BY <2>2, <2>3, <2>4, <4>2
      <4> QED BY <2>5, <4>1, <4>2
    <3> QED BY <3>1 DEF RidesSpendQuotes
  <2>8. \A i \in 1 .. Len(rides') : rides'[i].key = rides'[i].quote
    BY <1>2, <2>2, <2>3, <2>5
  <2>9. LostAnswersAreHarmless'
    <3>1. ASSUME NEW d \in calls', d.what = "submit", d.answer = "conflict", NEW i \in 1 .. Len(rides')
          PROVE  rides'[i].quote # d.quote.id
      <4>1. d \in calls /\ d # c
        BY <1>3, <1>6, <3>1
      <4>2. CASE i \in 1 .. Len(rides)
        BY <1>2, <2>2, <3>1, <4>1, <4>2
      <4>3. CASE i = Len(rides) + 1
        BY <1>2, <2>2, <2>3, <3>1, <4>1, <4>3
      <4> QED BY <2>5, <4>2, <4>3
    <3> QED BY <3>1 DEF LostAnswersAreHarmless
  <2> QED BY <1>1, <1>6, <2>2, <2>4, <2>7, <2>8, <2>9, AnswerKeeps
<1>7. CASE /\ rides' = Booking(c).rides
           /\ quotes' = Booking(c).quotes
           /\ Replied(c, Booking(c).answer)
  <2>1. CASE \E i \in 1 .. Len(rides) : rides[i].key = c.key
    <3>1. Booking(c) = [answer |-> "ok", rides |-> rides, quotes |-> quotes]
      BY <2>1 DEF Booking
    <3> QED BY <1>4, <1>7, <2>1, <3>1
  <2>2. CASE /\ \A i \in 1 .. Len(rides) : rides[i].key # c.key
             /\ quotes[c.quote.id] # "open" \/ Riding
    <3>1. Booking(c) = [answer |-> "conflict", rides |-> rides, quotes |-> quotes]
      BY <2>2 DEF Booking
    <3> QED BY <1>5, <1>7, <2>2, <3>1
  <2>3. CASE /\ \A i \in 1 .. Len(rides) : rides[i].key # c.key
             /\ quotes[c.quote.id] = "open" /\ ~Riding
    <3>1. Booking(c) = [answer |-> "ok",
                        rides |-> Append(rides, [phase |-> "Waiting", key |-> c.key,
                                                 quote |-> c.quote.id]),
                        quotes |-> [quotes EXCEPT ![c.quote.id] = "spent"]]
      BY <2>3 DEF Booking
    <3> QED BY <1>6, <1>7, <2>3, <3>1
  <2> QED BY <2>1, <2>2, <2>3
<1>8. CASE /\ quotes[c.quote.id] = "open"
           /\ quotes' = [quotes EXCEPT ![c.quote.id] = "expired"]
           /\ Replied(c, "conflict")
           /\ UNCHANGED rides
  <2>1. \A i \in 1 .. Len(rides) : rides[i].key # c.key
    BY <1>1, <1>2, <1>8
  <2> QED BY <1>5, <1>8, <2>1
<1> QED BY <1>7, <1>8 DEF Serve

(* A price is served, once for each ask.                                   *)
LEMMA QuoteServed ==
  ASSUME PanelInductive, NEW c \in calls, c.what = "quote", Serve(c)
  PROVE  PanelInductive'
<1>1. /\ c \in Asks /\ Pending(c) /\ c.quote.id \in 1 .. MaxDeeds /\ quotes[c.quote.id] = "none"
      /\ UNCHANGED <<form, asked, visits, rides>>
      /\ quotes' = [quotes EXCEPT ![c.quote.id] = "open"] /\ Replied(c, "ok")
  BY DEF Asks, PanelInductive, PanelShape, AsksAreNew, Quoted, Serve
<1>2. /\ quotes' \in QuoteRows
      /\ \A n \in 1 .. MaxDeeds : n # c.quote.id => quotes'[n] = quotes[n]
  BY <1>1 DEF PanelInductive, PanelShape, QuoteRows
<1>3. rides \in Seq(RideRows) /\ \A i \in 1 .. Len(rides) : rides[i] \in RideRows
  BY DEF PanelInductive, PanelShape
<1>4. \A i \in 1 .. Len(rides) : rides[i].quote \in 1 .. MaxDeeds
  BY <1>3 DEF RideRows
<1>5. RidesSpendQuotes'
  BY <1>1, <1>2, <1>4 DEF PanelInductive, RidesSpendQuotes
<1>6. LostAnswersAreHarmless'
  <2>1. PICK of : calls' = (calls \ {c}) \cup
                   {[what |-> c.what, owner |-> c.owner, quote |-> c.quote, key |-> c.key,
                     ride |-> c.ride, answer |-> "ok", of |-> of]}
    BY <1>1, RepliedTo DEF PanelInductive
  <2>2. \A d \in calls' : d.what = "submit" => d \in calls
    BY <2>1
  <2> QED BY <1>1, <2>2 DEF PanelInductive, LostAnswersAreHarmless
<1>7. \A i \in 1 .. Len(rides') : rides'[i].key = rides'[i].quote
  BY <1>1 DEF PanelInductive, KeysNameQuotes
<1> QED BY <1>1, <1>2, <1>3, <1>5, <1>6, <1>7, AnswerKeeps

(* A lost call changes nothing the rides or the quotes know.               *)
LEMMA LosingKeeps ==
  ASSUME PanelInductive, NEW c \in calls, Lose(c)
  PROVE  PanelInductive'
<1>1. Replied(c, Failure) /\ UNCHANGED <<form, asked, visits, quotes, rides>> /\ Failure # "pending"
  BY DEF Lose, Failure
<1>2. /\ quotes' \in QuoteRows /\ rides' \in Seq(RideRows)
      /\ \A n \in 1 .. MaxDeeds : n # c.quote.id => quotes'[n] = quotes[n]
      /\ \A i \in 1 .. Len(rides') : rides'[i].key = rides'[i].quote
      /\ RidesSpendQuotes'
  BY <1>1 DEF PanelInductive, PanelShape, KeysNameQuotes, RidesSpendQuotes
<1>3. LostAnswersAreHarmless'
  <2>1. PICK of : calls' = (calls \ {c}) \cup
                   {[what |-> c.what, owner |-> c.owner, quote |-> c.quote, key |-> c.key,
                     ride |-> c.ride, answer |-> Failure, of |-> of]}
    BY <1>1, RepliedTo DEF PanelInductive
  <2>2. \A d \in calls' : d.answer = "conflict" => d \in calls
    BY <2>1 DEF Failure
  <2> QED BY <1>1, <2>2 DEF PanelInductive, LostAnswersAreHarmless
<1>4. CASE c \in Asks \cup Bookings
  BY <1>1, <1>2, <1>3, <1>4, AnswerKeeps
<1>5. CASE c \notin Asks \cup Bookings
  <2>1. c.what \notin {"quote", "submit"}
    BY <1>5 DEF Asks, Bookings
  <2> QED BY <1>1, <1>2, <2>1, ServingTheTracker
<1> QED BY <1>4, <1>5

LEMMA ServingKeeps ==
  ASSUME PanelInductive, NEW c \in calls, Serve(c)
  PROVE  PanelInductive'
<1>1. CASE c.what = "submit"
  BY <1>1, BookingServed
<1>2. CASE c.what = "quote"
  BY <1>2, QuoteServed
<1>3. CASE c.what \notin {"quote", "submit"}
  <2>1. UNCHANGED <<form, asked, visits, quotes>>
    BY <1>3 DEF Serve
  <2>2. rides \in Seq(RideRows)
    BY DEF PanelInductive, PanelShape
  <2>3. ASSUME NEW a, Replied(c, a), UNCHANGED rides PROVE PanelInductive'
    BY <1>3, <2>1, <2>2, <2>3, ServingTheTracker
  <2>4. CASE c.what = "cancel"
    <3>1. rides' = Cancelling(c.ride).rides /\ Replied(c, Cancelling(c.ride).answer)
      BY <2>4 DEF Serve
    <3>2. CASE rides[c.ride].phase = "Waiting"
      <4>1. Cancelling(c.ride) = [answer |-> "ok",
                                  rides |-> [rides EXCEPT ![c.ride].phase = "Cancelled"]]
        BY <3>2 DEF Cancelling
      <4>2. rides' = [rides EXCEPT ![c.ride].phase = "Cancelled"] /\ "Cancelled" \in Active \cup Over
        BY <3>1, <4>1 DEF Over
      <4>3. /\ rides' \in Seq(RideRows) /\ Len(rides') = Len(rides)
            /\ \A i \in 1 .. Len(rides) : /\ rides'[i].key = rides[i].key
                                          /\ rides'[i].quote = rides[i].quote
        BY <4>2, PhaseOnly DEF PanelInductive
      <4> QED BY <1>3, <2>1, <3>1, <4>3, ServingTheTracker
    <3>3. CASE rides[c.ride].phase # "Waiting"
      <4>1. Cancelling(c.ride) = [answer |-> "conflict", rides |-> rides]
        BY <3>3 DEF Cancelling
      <4> QED BY <2>3, <3>1, <4>1
    <3> QED BY <3>2, <3>3
  <2>5. CASE c.what # "cancel"
    <3>1. \E a : Replied(c, a) /\ UNCHANGED rides
      BY <1>3, <2>5 DEF Serve
    <3> QED BY <2>3, <3>1
  <2> QED BY <2>4, <2>5
<1> QED BY <1>1, <1>2, <1>3

(* The debounce runs out: a quote is asked for under a name of its own.    *)
LEMMA AskingKeeps == PanelInductive /\ AskForQuote => PanelInductive'
<1> SUFFICES ASSUME PanelInductive, AskForQuote PROVE PanelInductive'
  OBVIOUS
<1> DEFINE q == [id |-> asked + 1, of |-> form.chosen]
           n == [what |-> "quote", owner |-> "panel", quote |-> q, key |-> 0, ride |-> 0,
                 answer |-> "pending", of |-> 0]
<1>1. /\ form.timer /\ asked + visits < MaxDeeds /\ asked' = asked + 1
      /\ form' = [form EXCEPT !.timer = FALSE]
      /\ UNCHANGED <<visits, quotes, rides>>
      /\ calls' = calls \cup {[Call("quote", "panel") EXCEPT !.quote = [id |-> asked', of |-> form.chosen]]}
  BY DEF AskForQuote
<1>2. calls' = calls \cup {n}
  <2>1. [id |-> asked', of |-> form.chosen] = q
    BY <1>1
  <2>2. [Call("quote", "panel") EXCEPT !.quote = q] = n
    BY NewCalls
  <2> QED BY <1>1, <2>1, <2>2
<1>3. /\ form \in Forms /\ asked \in 0 .. MaxDeeds /\ visits \in Nat /\ form.chosen \in Journeys \cup {None}
      /\ asked' \in 0 .. MaxDeeds /\ asked + 1 \in 1 .. MaxDeeds
  BY <1>1, DeedsAssumption DEF PanelInductive, PanelShape, Forms
<1>4. /\ form' \in Forms /\ form'.quote = form.quote /\ form'.key = form.key
      /\ form'.sending = form.sending
  BY <1>1, <1>3 DEF Forms
<1>5. q \in Quoted /\ q.id = asked + 1
  BY <1>3 DEF Quoted
<1>6. IsCall(n) /\ n.what = "quote" /\ n.quote = q /\ Pending(n)
  BY DEF IsCall, Pending
<1> HIDE DEF n, q
<1>7. /\ \A c \in Asks' : c \in Asks \/ c = n
      /\ \A c \in Bookings' : c \in Bookings
  BY <1>2, <1>6 DEF Asks, Bookings
<1>8. /\ \A c \in Asks \cup Bookings : c.quote \in Quoted /\ c.quote.id \in Nat /\ c.quote.id <= asked
      /\ form.quote # None => form.quote.id \in Nat /\ form.quote.id <= asked
  BY <1>3 DEF PanelInductive, PanelShape, Quoted, Forms
<1>9. PanelShape'
  <2>1. \A c \in calls' : IsCall(c)'
    BY <1>2, <1>6 DEF PanelInductive, PanelShape, IsCall
  <2>2. \A c \in Asks' \cup Bookings' : c.quote \in Quoted /\ c.quote.id <= asked'
    BY <1>1, <1>3, <1>5, <1>6, <1>7, <1>8
  <2>3. form'.quote # None => form'.quote.id <= asked'
    BY <1>1, <1>3, <1>4, <1>8
  <2>4. quotes' \in QuoteRows /\ rides' \in Seq(RideRows)
    BY <1>1 DEF PanelInductive, PanelShape
  <2> QED BY <1>1, <1>3, <1>4, <2>1, <2>2, <2>3, <2>4 DEF PanelShape
<1>10. \A c \in Asks \cup Bookings : c.quote.id # n.quote.id
  BY <1>3, <1>5, <1>6, <1>8
<1>11. AsksAreNew'
  <2>1. \A m \in asked' + 1 .. MaxDeeds : quotes'[m] = "none"
    BY <1>1, <1>3 DEF PanelInductive, AsksAreNew
  <2>2. \A c, d \in Asks' : c.quote.id = d.quote.id => c = d
    BY <1>7, <1>10 DEF PanelInductive, AsksAreNew
  <2>3. \A c \in Asks' : Pending(c) => quotes'[c.quote.id] = "none"
    <3>1. quotes[n.quote.id] = "none"
      BY <1>3, <1>5, <1>6, DeedsAssumption DEF PanelInductive, AsksAreNew
    <3> QED BY <1>1, <1>7, <3>1 DEF PanelInductive, AsksAreNew
  <2>4. \A c \in Asks' : form'.quote # None => form'.quote.id # c.quote.id
    <3>1. form.quote # None => form.quote.id # n.quote.id
      BY <1>3, <1>5, <1>6, <1>8
    <3> QED BY <1>4, <1>7, <3>1 DEF PanelInductive, AsksAreNew
  <2>5. \A c \in Asks', d \in Bookings' : c.quote.id # d.quote.id
    BY <1>7, <1>10 DEF PanelInductive, AsksAreNew
  <2> QED BY <2>1, <2>2, <2>3, <2>4, <2>5 DEF AsksAreNew, Pending
<1>12. OneBooking'
  BY <1>4, <1>7 DEF PanelInductive, OneBooking
<1>13. KeysNameQuotes' /\ RidesSpendQuotes'
  BY <1>1, <1>4, <1>7 DEF PanelInductive, KeysNameQuotes, RidesSpendQuotes
<1>14. LostAnswersAreHarmless'
  BY <1>1, <1>7 DEF PanelInductive, LostAnswersAreHarmless, Bookings
<1> QED BY <1>9, <1>11, <1>12, <1>13, <1>14 DEF PanelInductive

(* The button is pressed: no other booking of this quote is on its way.    *)
LEMMA SubmittingKeeps == PanelInductive /\ Submit => PanelInductive'
<1> SUFFICES ASSUME PanelInductive, Submit PROVE PanelInductive'
  OBVIOUS
<1> DEFINE n == [what |-> "submit", owner |-> "panel", quote |-> form.quote, key |-> form.key,
                 ride |-> 0, answer |-> "pending", of |-> 0]
<1>1. /\ form.quote # None /\ form.key # 0 /\ ~form.sending
      /\ form' = [form EXCEPT !.sending = TRUE]
      /\ UNCHANGED <<asked, visits, quotes, rides>>
      /\ calls' = calls \cup {[Call("submit", "panel") EXCEPT !.quote = form.quote, !.key = form.key]}
  BY DEF Submit, KeyToSend
<1>2. calls' = calls \cup {n}
  <2>1. PICK d : d = [Call("submit", "panel") EXCEPT !.quote = form.quote]
    OBVIOUS
  <2>2. d = [what |-> "submit", owner |-> "panel", quote |-> form.quote, key |-> 0,
             ride |-> 0, answer |-> "pending", of |-> 0]
    BY <2>1, NewCalls
  <2>3. [d EXCEPT !.key = form.key] = n
    BY <2>2
  <2>4. [Call("submit", "panel") EXCEPT !.quote = form.quote, !.key = form.key]
          = [d EXCEPT !.key = form.key]
    BY <2>1, Zenon
  <2> QED BY <1>1, <2>3, <2>4
<1>3. /\ form \in Forms /\ form.quote \in Quoted /\ form.quote.id <= asked
      /\ form.key = form.quote.id
  BY <1>1 DEF PanelInductive, PanelShape, Forms, KeysNameQuotes
<1>4. /\ form' \in Forms /\ form'.quote = form.quote /\ form'.key = form.key
      /\ form'.sending
  BY <1>1, <1>3 DEF Forms
<1>5. /\ IsCall(n) /\ n.what = "submit" /\ n.owner = "panel" /\ n.quote = form.quote
      /\ n.key = form.key /\ n.answer = "pending"
  BY DEF IsCall
<1> HIDE DEF n
<1>6. /\ \A c \in Asks' : c \in Asks
      /\ \A c \in Bookings' : c \in Bookings \/ c = n
  BY <1>2, <1>5 DEF Asks, Bookings
<1>7. PanelShape'
  <2>1. \A c \in calls' : IsCall(c)'
    BY <1>2, <1>5 DEF PanelInductive, PanelShape, IsCall
  <2>2. \A c \in Asks' \cup Bookings' : c.quote \in Quoted /\ c.quote.id <= asked'
    BY <1>1, <1>3, <1>5, <1>6 DEF PanelInductive, PanelShape
  <2> QED BY <1>1, <1>4, <2>1, <2>2 DEF PanelInductive, PanelShape
<1>8. AsksAreNew'
  <2>1. \A c \in Asks', d \in Bookings' : c.quote.id # d.quote.id
    BY <1>1, <1>5, <1>6 DEF PanelInductive, AsksAreNew
  <2> QED BY <1>1, <1>4, <1>6, <2>1 DEF PanelInductive, AsksAreNew, Pending
<1>9. \A c \in Bookings : c.owner = None /\ form.quote.id # c.quote.id
  BY <1>1 DEF PanelInductive, OneBooking
<1>10. OneBooking'
  <2>1. \A c, d \in Bookings' : c.quote.id = d.quote.id => c = d
    BY <1>5, <1>6, <1>9 DEF PanelInductive, OneBooking
  <2>2. \A c, d \in Bookings' : c.owner = "panel" /\ d.owner = "panel" => c = d
    BY <1>5, <1>6, <1>9, NoneAssumption
  <2>3. \A c \in Bookings' : c.owner = None /\ form'.quote # None => form'.quote.id # c.quote.id
    BY <1>4, <1>5, <1>6, <1>9, NoneAssumption
  <2> QED BY <1>4, <1>5, <1>6, <1>9, <2>1, <2>2, <2>3 DEF OneBooking
<1>11. KeysNameQuotes' /\ RidesSpendQuotes'
  BY <1>1, <1>3, <1>4, <1>5, <1>6 DEF PanelInductive, KeysNameQuotes, RidesSpendQuotes
<1>12. LostAnswersAreHarmless'
  BY <1>1, <1>5, <1>6 DEF PanelInductive, LostAnswersAreHarmless, Bookings
<1> QED BY <1>7, <1>8, <1>10, <1>11, <1>12 DEF PanelInductive

(* A price is shown, with a key of its own.                                *)
LEMMA PriceShown ==
  ASSUME PanelInductive, NEW c \in calls, LandQuote(c)
  PROVE  PanelInductive'
<1>1. /\ c \in Asks /\ calls' = calls \ {c} /\ UNCHANGED <<asked, visits, quotes, rides>>
      /\ form' = IF c.answer = Failure
                 THEN [form EXCEPT !.failed = TRUE]
                 ELSE [form EXCEPT !.quote = c.quote, !.failed = FALSE, !.key = c.quote.id]
  BY DEF LandQuote, Asks
<1>2. /\ form \in Forms /\ visits' \in Nat /\ rides' \in Seq(RideRows)
      /\ c.quote \in Quoted /\ c.quote.id \in 1 .. MaxDeeds /\ c.quote.id <= asked
  BY <1>1 DEF PanelInductive, PanelShape, Quoted
<1>3. CASE c.answer = Failure
  <2>1. /\ form' \in Forms /\ form'.quote = form.quote /\ form'.key = form.key
        /\ form'.sending = form.sending
    BY <1>1, <1>2, <1>3 DEF Forms
  <2> QED BY <1>1, <1>2, <2>1, AsideKeeps
<1>4. CASE c.answer # Failure
  <2>1. PICK f : f = [form EXCEPT !.quote = c.quote]
    OBVIOUS
  <2>2. PICK g : g = [f EXCEPT !.failed = FALSE]
    OBVIOUS
  <2>3. form' = [g EXCEPT !.key = c.quote.id]
    BY <1>1, <1>4, <2>1, <2>2, Zenon
  <2>4. f \in Forms /\ f.quote = c.quote /\ f.sending = form.sending
    BY <1>2, <2>1 DEF Forms
  <2>5. g \in Forms /\ g.quote = c.quote /\ g.sending = form.sending
    BY <2>2, <2>4 DEF Forms
  <2>6. /\ form' \in Forms /\ form'.quote = c.quote /\ form'.key = c.quote.id
        /\ form'.sending = form.sending
    BY <1>2, <2>3, <2>5 DEF Forms
  <2>7. /\ \A d \in Asks' : d \in Asks /\ d # c
        /\ \A d \in Bookings' : d \in Bookings
    BY <1>1 DEF Asks, Bookings
  <2>8. PanelShape'
    BY <1>1, <1>2, <2>6, <2>7 DEF PanelInductive, PanelShape, IsCall
  <2>9. AsksAreNew'
    BY <1>1, <2>6, <2>7 DEF PanelInductive, AsksAreNew, Pending
  <2>10. \A d \in Bookings : d.quote.id # c.quote.id
    BY <1>1 DEF PanelInductive, AsksAreNew
  <2>11. OneBooking'
    BY <2>6, <2>7, <2>10 DEF PanelInductive, OneBooking
  <2>12. KeysNameQuotes' /\ RidesSpendQuotes'
    BY <1>1, <2>6, <2>7 DEF PanelInductive, KeysNameQuotes, RidesSpendQuotes
  <2>13. LostAnswersAreHarmless'
    BY <1>1 DEF PanelInductive, LostAnswersAreHarmless
  <2> QED BY <2>8, <2>9, <2>11, <2>12, <2>13 DEF PanelInductive
<1> QED BY <1>3, <1>4

LEMMA ClearedForm ==
  ASSUME NEW f \in Forms
  PROVE  Cleared(f) \in Forms /\ Cleared(f).quote = None /\ Cleared(f).sending = f.sending
<1>1. PICK g : g = [f EXCEPT !.quote = None]
  OBVIOUS
<1>2. PICK h : h = [g EXCEPT !.failed = FALSE]
  OBVIOUS
<1>3. Cleared(f) = [h EXCEPT !.key = 0]
  BY <1>1, <1>2, Zenon DEF Cleared
<1>4. g \in Forms /\ g.quote = None /\ g.sending = f.sending
  BY <1>1 DEF Forms
<1>5. h \in Forms /\ h.quote = None /\ h.sending = f.sending
  BY <1>2, <1>4 DEF Forms
<1> QED BY <1>3, <1>5, DeedsAssumption DEF Forms

LEMMA ChoosingKeeps ==
  ASSUME PanelInductive, NEW j \in Journeys \cup {None}, Choose(j)
  PROVE  PanelInductive'
<1>1. /\ form' = [Cleared(form) EXCEPT !.chosen = j, !.timer = j # None]
      /\ UNCHANGED <<calls, asked, visits, quotes, rides>>
  BY DEF Choose
<1>2. form \in Forms /\ visits' \in Nat /\ rides' \in Seq(RideRows)
  BY <1>1 DEF PanelInductive, PanelShape
<1>3. PICK f : f = [Cleared(form) EXCEPT !.chosen = j]
  OBVIOUS
<1>4. form' = [f EXCEPT !.timer = j # None]
  BY <1>1, <1>3, Zenon
<1>5. f \in Forms /\ f.quote = None /\ f.sending = form.sending
  BY <1>2, <1>3, ClearedForm DEF Forms
<1>6. form' \in Forms /\ form'.quote = None /\ form'.sending = form.sending
  BY <1>4, <1>5 DEF Forms
<1> QED BY <1>1, <1>2, <1>6, AsideKeeps

(* A booking's answer lands: on to the tracker, or back to the panel.      *)
LEMMA BookingLanded ==
  ASSUME PanelInductive, NEW c \in calls, LandSubmit(c)
  PROVE  PanelInductive'
<1>1. c \in Bookings
  BY DEF LandSubmit, Bookings
<1>2. CASE /\ OpenTrack(CurrentRide) \/ OpenTrack("none")
           /\ calls' = (Abandoned \ {[c EXCEPT !.owner = None]}) \cup MountedCalls
           /\ UNCHANGED visits
  <2>1. form' = BlankForm /\ UNCHANGED <<asked, quotes, rides>>
    BY <1>2 DEF OpenTrack
  <2>2. visits' \in Nat
    BY <1>2 DEF PanelInductive, PanelShape
  <2> QED BY <1>2, <2>1, <2>2, LeavingKeeps
<1>3. CASE /\ form' = IF c.owner = None THEN form
                      ELSE IF c.answer = "conflict"
                      THEN [Cleared(form) EXCEPT !.sending = FALSE, !.timer = form.chosen # None]
                      ELSE [form EXCEPT !.sending = FALSE]
           /\ calls' = calls \ {c}
           /\ UNCHANGED <<asked, visits, quotes, rides>>
  <2>1. form \in Forms /\ visits' \in Nat /\ rides' \in Seq(RideRows)
    BY <1>3 DEF PanelInductive, PanelShape
  <2>2. CASE c.owner = None
    BY <1>3, <2>1, <2>2, AsideKeeps
  <2>3. CASE c.owner # None
    <3>1. \A d \in calls' : ~(d.what = "submit" /\ d.owner = "panel")
      BY <1>1, <1>3, <2>3 DEF PanelInductive, OneBooking, Bookings
    <3>2. CASE c.answer = "conflict"
      <4>1. PICK f : f = [Cleared(form) EXCEPT !.sending = FALSE]
        OBVIOUS
      <4>2. form' = [f EXCEPT !.timer = form.chosen # None]
        BY <1>3, <2>3, <3>2, <4>1, Zenon
      <4>3. f \in Forms /\ f.quote = None
        BY <2>1, <4>1, ClearedForm DEF Forms
      <4>4. form' \in Forms /\ form'.quote = None
        BY <4>2, <4>3 DEF Forms
      <4> QED BY <1>3, <2>1, <3>1, <4>4, AsideKeeps
    <3>3. CASE c.answer # "conflict"
      <4>1. form' = [form EXCEPT !.sending = FALSE]
        BY <1>3, <2>3, <3>3
      <4>2. form' \in Forms /\ form'.quote = form.quote /\ form'.key = form.key
        BY <2>1, <4>1 DEF Forms
      <4> QED BY <1>3, <2>1, <3>1, <4>2, AsideKeeps
    <3> QED BY <3>2, <3>3
  <2> QED BY <2>2, <2>3
<1> QED BY <1>2, <1>3 DEF LandSubmit

(* Pages opened by hand.                                                   *)
LEMMA VisitingKeeps ==
  ASSUME PanelInductive, VisitTrack \/ VisitRide
  PROVE  PanelInductive'
<1>1. visits' \in Nat
  BY DEF VisitTrack, VisitRide, Visiting, PanelInductive, PanelShape
<1>2. form' = BlankForm /\ UNCHANGED <<asked, quotes, rides>>
  BY DEF VisitTrack, VisitRide, OpenTrack
<1>3. calls' \subseteq Abandoned \cup MountedCalls
  BY DEF VisitTrack, VisitRide
<1> QED BY <1>1, <1>2, <1>3, LeavingKeeps

LEMMA PanelInit == Init => PanelInductive
<1> SUFFICES ASSUME Init PROVE PanelInductive
  OBVIOUS
<1>1. /\ form = BlankForm /\ calls = {} /\ asked = 0 /\ visits = 0
      /\ quotes = [n \in 1 .. MaxDeeds |-> "none"] /\ rides = << >>
  BY DEF Init, PassengerInit
<1>2. form \in Forms /\ form.quote = None
  BY <1>1, DeedsAssumption DEF BlankForm, Forms
<1>3. Asks = {} /\ Bookings = {} /\ Len(rides) = 0
  BY <1>1 DEF Asks, Bookings
<1>4. quotes \in QuoteRows /\ rides \in Seq(RideRows) /\ asked \in 0 .. MaxDeeds
  BY <1>1, DeedsAssumption DEF QuoteRows
<1>5. PanelShape
  BY <1>1, <1>2, <1>3, <1>4 DEF PanelShape
<1> QED BY <1>1, <1>2, <1>3, <1>5, DeedsAssumption
        DEF PanelInductive, AsksAreNew, OneBooking, KeysNameQuotes, RidesSpendQuotes,
            LostAnswersAreHarmless

LEMMA PanelStep == PanelInductive /\ [Next]_vars => PanelInductive'
<1> SUFFICES ASSUME PanelInductive, [Next]_vars PROVE PanelInductive'
  OBVIOUS
<1>1. CASE UNCHANGED passenger
  <2>1. UNCHANGED <<form, calls, asked, visits, quotes, rides>>
    BY <1>1 DEF passenger
  <2> QED BY <2>1, TrackerKeeps
<1>2. CASE VisitTrack \/ VisitRide
  BY <1>2, VisitingKeeps
<1>3. CASE LookAway
  BY <1>1, <1>3 DEF LookAway
<1>4. CASE LookBack \/ Poll \/ TryAgain \/ Cancel \/ CheckOutcome
  <2>1. UNCHANGED <<form, asked, visits, quotes, rides>>
    BY <1>4 DEF LookBack, Poll, TryAgain, Cancel, CheckOutcome
  <2>2. \A d \in calls' : \/ d \in calls
                          \/ IsCall(d) /\ d.what \notin {"quote", "submit"}
    BY <1>4, TrackersCalls DEF LookBack, Poll, TryAgain, Cancel, CheckOutcome
  <2> QED BY <2>1, <2>2, TrackerKeeps
<1>5. ASSUME NEW c \in calls, LandPoll(c) \/ LandLoad(c) \/ LandCancel(c) \/ LandDetail(c)
      PROVE  PanelInductive'
  <2>1. UNCHANGED <<form, asked, visits, quotes, rides>>
    BY <1>5 DEF LandPoll, LandLoad, LandCancel, LandDetail
  <2>2. \A d \in calls' : \/ d \in calls
                          \/ IsCall(d) /\ d.what \notin {"quote", "submit"}
    <3>1. \E id, o : calls' \subseteq calls \cup {AboutRide("detail", id, o)}
      <4>1. CASE LandPoll(c)
        BY <4>1 DEF LandPoll
      <4>2. CASE LandCancel(c)
        BY <4>2 DEF LandCancel
      <4>3. CASE LandLoad(c) \/ LandDetail(c)
        BY <4>3 DEF LandLoad, LandDetail
      <4> QED BY <1>5, <4>1, <4>2, <4>3
    <3> QED BY <3>1, TrackersCalls
  <2> QED BY <2>1, <2>2, TrackerKeeps
<1>6. CASE RideMovesOn
  <2>1. PICK p \in Active \cup Over : rides' = [rides EXCEPT ![Len(rides)].phase = p]
    BY <1>6 DEF RideMovesOn, Active, Over
  <2>2. /\ rides' \in Seq(RideRows) /\ Len(rides') = Len(rides)
        /\ \A i \in 1 .. Len(rides) : /\ rides'[i].key = rides[i].key
                                      /\ rides'[i].quote = rides[i].quote
    BY <2>1, PhaseOnly DEF PanelInductive
  <2>3. UNCHANGED <<form, calls, asked, visits, quotes>> /\ visits' \in Nat /\ form' \in Forms
    BY <1>6 DEF RideMovesOn, PanelInductive, PanelShape
  <2> QED BY <2>2, <2>3, AsideKeeps
<1>7. CASE PassengerNext
  BY <1>2, <1>3, <1>4, <1>5, <1>6, <1>7, ChoosingKeeps, AskingKeeps, SubmittingKeeps, ServingKeeps,
     LosingKeeps, PriceShown, BookingLanded DEF PassengerNext, Land
<1> QED BY <1>1, <1>7 DEF Next, SignIn, AsPassenger, AsDriver, vars, passenger

(* A lost answer costs the passenger nothing: a booking is never refused on *)
(* account of the ride that its own quote made, whatever calls were lost,  *)
(* pages left and buttons pressed again, because the key is the quote's.   *)
THEOREM LostAnswersAreHarmlessHolds == Spec => []LostAnswersAreHarmless
<1>1. PanelInductive => LostAnswersAreHarmless
  BY DEF PanelInductive
<1> QED BY <1>1, PanelInit, PanelStep, PTL DEF Spec

===============================================================================
