------------------------------- MODULE DriverApp -------------------------------
(***************************************************************************)
(* The driver's console: it shows the driver's status, the open offer and  *)
(* the pool, reads the three one after another, and carries out the one    *)
(* action the driver may have under way.  A poll and an action both call   *)
(* refresh(); refreshes queue up, so that one chain of reads runs at a     *)
(* time.  Reading the offers is also the heartbeat that keeps the driver   *)
(* in dispatch.                                                            *)
(*                                                                         *)
(* The server's side is what the console sees of it: going online and      *)
(* offline, and of Dispatch and Trip as much as the three parts of the     *)
(* screen tell apart (a pool is formed, shared, driven, gone).  `own`      *)
(* names the parts of a screen or of a reading that are at least as new as *)
(* the driver's last own write.                                            *)
(***************************************************************************)
EXTENDS Polling, Sequences, FiniteSets

CONSTANT MaxOffers      \* bound: offers made to this driver

VARIABLES
    duty,       \* the server: status, open offer, pool, location fresh
    sent,       \* offers made so far
    desk,       \* what the console shows
    beat,       \* the console's polling loop
    queue,      \* refreshQueue: the callers of each refresh, the running one first
    reading,    \* what the running refresh has read
    act         \* the action under way (busy), or Idle

driver == <<duty, sent, desk, beat, queue, reading, act>>

Parts == {"status", "offer", "pool"}
NoPool == [id |-> 0, stage |-> "none"]
Idle == [what |-> "none", on |-> 0, step |-> "idle", pool |-> NoPool]
NoReading == [step |-> 0, status |-> "OFFLINE", offer |-> 0, pool |-> NoPool, own |-> {}]

DriverInit ==
    /\ duty = [status |-> "OFFLINE", offer |-> 0, pool |-> NoPool, fresh |-> FALSE]
    /\ sent = 0
    /\ desk = [open |-> FALSE, status |-> "OFFLINE", offer |-> 0, pool |-> NoPool, own |-> Parts]
    /\ beat = NoLoop
    /\ queue = << >>
    /\ reading = NoReading
    /\ act = Idle

-----------------------------------------------------------------------------
(* The server.  Each operation answers "ok" with the new state, or         *)
(* "refused" with the old one.                                             *)

Granted(d) == [answer |-> "ok", duty |-> d]
Refused == [answer |-> "refused", duty |-> duty]

\* setAvailability: online from OFFLINE or AVAILABLE, at a service point and in
\* a vehicle that can be used; offline from AVAILABLE, and again from OFFLINE.
goOnline(usable) ==
    IF duty.status \in {"OFFLINE", "AVAILABLE"} /\ usable
    THEN Granted([duty EXCEPT !.status = "AVAILABLE", !.fresh = TRUE]) ELSE Refused

goOffline ==
    IF duty.status = "OFFLINE" THEN Granted(duty)
    ELSE IF duty.status = "AVAILABLE"
    THEN Granted([duty EXCEPT !.status = "OFFLINE", !.fresh = TRUE]) ELSE Refused

\* Accepting reserves an available driver, or adds to the pool being formed.
Accepting(offer) ==
    IF duty.offer # offer THEN Refused
    ELSE IF duty.pool = NoPool /\ duty.status = "AVAILABLE"
    THEN Granted([status |-> "RESERVED", offer |-> 0, fresh |-> TRUE,
                  pool |-> [id |-> offer, stage |-> "formed"]])
    ELSE IF duty.pool.stage = "formed"
    THEN Granted([duty EXCEPT !.offer = 0, !.pool.stage = "shared"]) ELSE Refused

\* Rejecting passes the offer on, and is a sign of life.
Rejecting(offer) ==
    IF duty.offer = offer THEN Granted([duty EXCEPT !.offer = 0, !.fresh = TRUE]) ELSE Refused

\* The trip's commands answer a repetition with the state they produced.
Departing(pool) ==
    IF duty.pool.id = pool /\ duty.pool.stage \in {"formed", "shared"}
    THEN Granted([duty EXCEPT !.status = "ON_RIDE", !.fresh = TRUE, !.pool.stage = "driven"])
    ELSE Granted(duty)

Completing(pool) ==
    IF duty.pool.id = pool
    THEN Granted([duty EXCEPT !.status = "AVAILABLE", !.fresh = TRUE, !.pool = NoPool])
    ELSE Granted(duty)

Outcome(a, usable) ==
    CASE a.what = "online" -> goOnline(usable)
      [] a.what = "offline" -> goOffline
      [] a.what = "accept" -> Accepting(a.on)
      [] a.what = "reject" -> Rejecting(a.on)
      [] a.what = "depart" -> Departing(a.on)
      [] a.what = "complete" -> Completing(a.on)

\* Dispatch asks an available driver whose location is fresh, and join
\* matching the driver of a pool that is being formed.
OfferMade ==
    /\ sent < MaxOffers /\ duty.offer = 0
    /\ (duty.status = "AVAILABLE" /\ duty.fresh) \/ duty.pool.stage = "formed"
    /\ sent' = sent + 1
    /\ duty' = [duty EXCEPT !.offer = sent']
    /\ UNCHANGED <<tab, desk, beat, queue, reading, act>>

\* It expires, or the passenger cancels.
OfferGone ==
    /\ duty.offer # 0
    /\ duty' = [duty EXCEPT !.offer = 0]
    /\ UNCHANGED <<tab, sent, desk, beat, queue, reading, act>>

\* The freshness window passes without a sign of life.
GoesStale ==
    /\ duty.fresh
    /\ duty' = [duty EXCEPT !.fresh = FALSE]
    /\ UNCHANGED <<tab, sent, desk, beat, queue, reading, act>>

-----------------------------------------------------------------------------
(* refresh(), and the polling that calls it.                               *)

Online(status) == status # "OFFLINE"

\* mutant: a caller shares the refresh that is already running
SharedRefresh(q, who) ==
    IF q = << >> THEN <<{who}>> ELSE [q EXCEPT ![Len(q)] = @ \cup {who}]

\* Each caller waits for the refreshes before its own.
Refresh(q, who) == Append(q, {who})

\* A tick whose loop was torn down still refreshes, for nobody.
Orphaned(q) == [i \in DOMAIN q |-> {IF who = "tick" THEN "orphan" ELSE who : who \in q[i]}]

\* DriverPage reads everything up front; reading the offers is a heartbeat.
OpenConsole ==
    /\ ~desk.open
    /\ duty' = [duty EXCEPT !.fresh = TRUE]
    /\ desk' = [open |-> TRUE, status |-> duty.status, offer |-> duty.offer,
                pool |-> duty.pool, own |-> Parts]
    /\ beat' = IF Online(duty.status) THEN Mount(TRUE) ELSE NoLoop
    /\ queue' = IF Online(duty.status) THEN Refresh(queue, "tick") ELSE queue
    /\ UNCHANGED <<tab, sent, reading, act>>

Tick ==
    /\ TimerDue(beat)
    /\ beat' = Fired(beat)
    /\ queue' = IF beat.busy THEN queue ELSE Refresh(queue, "tick")
    /\ UNCHANGED <<tab, duty, sent, desk, reading, act>>

LookAwayFromConsole ==
    /\ beat.on /\ Hide
    /\ UNCHANGED driver

LookBackAtConsole ==
    /\ Show
    /\ beat' = Seen(beat)
    /\ queue' = IF beat' # beat THEN Refresh(queue, "tick") ELSE queue
    /\ UNCHANGED <<duty, sent, desk, reading, act>>

\* The three reads, in order, each served at its own instant.
ReadNext ==
    /\ queue # << >>
    /\ \/ /\ reading.step = 0
          /\ reading' = [reading EXCEPT !.step = 1, !.status = duty.status, !.own = @ \cup {"status"}]
          /\ UNCHANGED duty
       \/ /\ reading.step = 1
          /\ reading' = [reading EXCEPT !.step = 2, !.offer = duty.offer, !.own = @ \cup {"offer"}]
          /\ duty' = [duty EXCEPT !.fresh = TRUE]
       \/ /\ reading.step = 2
          /\ reading' = [reading EXCEPT !.step = 3, !.pool = duty.pool, !.own = @ \cup {"pool"}]
          /\ UNCHANGED duty
    /\ UNCHANGED <<tab, sent, desk, beat, queue, act>>

\* mutant: tick returns false after a failed refresh
StopsAfterFailure(ok) == ok

\* What tick returns: keep asking, whether or not the refresh succeeded.
KeepsAsking(ok) == TRUE

\* The running refresh settles: its callers continue and the next one starts.
\* The action that called it is done, or, after a failure, refreshes again.
Settled(ok, newBeat, waiting) ==
    LET callers == Head(queue)
        retries == "action" \in callers /\ ~ok
        answered == IF "tick" \in callers THEN Answered(newBeat, KeepsAsking(ok), TRUE) ELSE newBeat
    IN  /\ beat' = IF newBeat.on THEN answered ELSE NoLoop
        /\ queue' = IF retries THEN Refresh(waiting, "repair") ELSE waiting
        /\ act' = IF retries THEN [act EXCEPT !.step = "repair"]
                  ELSE IF callers \cap {"action", "repair"} # {} THEN Idle ELSE act
        /\ reading' = NoReading

\* The three setters.  Polling starts and stops with the status shown.
ShowReading ==
    /\ reading.step = 3
    /\ desk' = [open |-> TRUE, status |-> reading.status, offer |-> reading.offer,
                pool |-> reading.pool, own |-> reading.own]
    /\ LET was == Online(desk.status)
           is == Online(reading.status)
       IN  IF was = is THEN Settled(TRUE, beat, Tail(queue))
           ELSE IF is THEN Settled(TRUE, Mount(TRUE), Refresh(Tail(queue), "tick"))
           ELSE Settled(TRUE, NoLoop, Orphaned(Tail(queue)))
    /\ UNCHANGED <<tab, duty, sent>>

\* A read fails: what is on screen stays.
ReadingFails ==
    /\ queue # << >>
    /\ Losing
    /\ Settled(FALSE, beat, Tail(queue))
    /\ UNCHANGED <<duty, sent, desk>>

-----------------------------------------------------------------------------
(* The driver's actions: a button the screen shows, one at a time (busy).  *)

\* What the buttons on the screen would do, and to which offer or pool.
Button(what, on) ==
    CASE what = "online" -> ~Online(desk.status) /\ on = 0
      [] what = "offline" -> desk.status = "AVAILABLE" /\ on = 0
      [] what \in {"accept", "reject"} -> desk.offer # 0 /\ on = desk.offer
      [] what = "depart" -> desk.pool.stage \in {"formed", "shared"} /\ on = desk.pool.id
      [] what = "complete" -> desk.pool.stage = "driven" /\ on = desk.pool.id

Actions == {"online", "offline", "accept", "reject", "depart", "complete"}

Press ==
    /\ desk.open /\ ~hidden /\ act = Idle
    /\ \E what \in Actions, on \in 0 .. MaxOffers :
          /\ Button(what, on)
          /\ act' = [Idle EXCEPT !.what = what, !.on = on, !.step = "sent"]
    /\ UNCHANGED <<tab, duty, sent, desk, beat, queue, reading>>

ServeAct ==
    /\ act.step = "sent"
    /\ \E usable \in BOOLEAN :
          LET out == Outcome(act, usable)
          IN  /\ duty' = out.duty
              /\ act' = [act EXCEPT !.step = out.answer, !.pool = out.duty.pool]
              /\ IF out.answer = "ok"
                 THEN /\ desk' = [desk EXCEPT !.own = {}]
                      /\ reading' = [reading EXCEPT !.own = {}]
                 ELSE UNCHANGED <<desk, reading>>
    /\ UNCHANGED <<tab, sent, beat, queue>>

\* The connection fails before the server is reached, or after it answered.
LoseAct ==
    /\ act.step \in {"sent", "ok"}
    /\ Losing
    /\ act' = [act EXCEPT !.step = "refused"]
    /\ UNCHANGED <<duty, sent, desk, beat, queue, reading>>

\* run(): after a success the screen is re-read, the pool an acceptance
\* answered being shown at once; after a failure too.
LandAct ==
    /\ \/ /\ act.step = "ok"
          /\ act' = [act EXCEPT !.step = "after"]
          /\ queue' = Refresh(queue, "action")
          /\ desk' = IF act.what = "accept"
                     THEN [desk EXCEPT !.pool = act.pool, !.own = @ \cup {"pool"}] ELSE desk
       \/ /\ act.step = "refused"
          /\ act' = [act EXCEPT !.step = "repair"]
          /\ queue' = Refresh(queue, "repair")
          /\ UNCHANGED desk
    /\ UNCHANGED <<tab, duty, sent, beat, reading>>

-----------------------------------------------------------------------------
DriverNext ==
    \/ OpenConsole \/ Tick \/ LookAwayFromConsole \/ LookBackAtConsole
    \/ ReadNext \/ ShowReading \/ ReadingFails
    \/ Press \/ ServeAct \/ LoseAct \/ LandAct
    \/ OfferMade \/ OfferGone \/ GoesStale

DriverFairness ==
    LET vars == <<tab, driver>>
    IN  WF_vars(Tick) /\ WF_vars(ReadNext) /\ WF_vars(ShowReading)

-----------------------------------------------------------------------------
(* Properties.                                                             *)

\* When an action of the driver's succeeds and its buttons come back, every
\* part of the screen is at least as new as what that action wrote: a poll that
\* began before the write is never the last word.
OwnWriteIsShown == [][act.step = "after" /\ act' = Idle => desk'.own = Parts]_driver

\* A driver whose console shows them online is heard of again and again,
\* whatever fails and however often the screen goes to the background: the
\* polls are the heartbeat that keeps a driver in dispatch.
KeepsLooking ==
    desk.open /\ Online(desk.status) /\ ~duty.fresh ~> duty.fresh \/ ~Online(desk.status)

=============================================================================
