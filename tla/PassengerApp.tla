----------------------------- MODULE PassengerApp -----------------------------
(***************************************************************************)
(* The passenger's two screens: the request panel (pick a journey, see its *)
(* price, book it) and the tracker (poll the ride, cancel it, show how it  *)
(* ended).  Calls travel: one is served at some instant, its answer lands  *)
(* later, and either way may fail.  What an answer does on landing is the  *)
(* continuation of the handler that sent it, with the values that handler  *)
(* closed over.                                                            *)
(*                                                                         *)
(* A quote is named by the ask that led to it.  The server's side is what  *)
(* the screens see of it: RideCreation and Dispatch hold the detail.  A    *)
(* ride's phase is Waiting while cancellable, then Engaged, then over.     *)
(***************************************************************************)
EXTENDS Polling, Sequences, FiniteSets

CONSTANTS Journeys,     \* pairs of different service points
          None,
          MaxRides,     \* bound: rides booked
          MaxDeeds      \* bound: pages opened by hand and quotes asked for, together

ASSUME DeedsAssumption == MaxDeeds \in Nat
ASSUME NoneAssumption == None # "panel"

VARIABLES
    screen,     \* the page in the tab: "home", "ride" or "track"
    form,       \* RideRequestPanel's state
    track,      \* RideTracker's state
    watch,      \* the tracker's polling loop
    calls,      \* what is in flight, and what has been answered but not landed
    asked,      \* quotes asked for so far
    visits,     \* pages opened by hand so far
    quotes,     \* the fare_quotes row of each ask
    rides       \* the passenger's ride_requests, oldest first

passenger == <<screen, form, track, watch, calls, asked, visits, quotes, rides>>

Active == {"Waiting", "Engaged"}
Over == {"Completed", "Cancelled"}

BlankForm == [chosen |-> None, timer |-> FALSE, quote |-> None, key |-> 0,
              failed |-> FALSE, sending |-> FALSE]

BlankTrack == [opened |-> FALSE, ride |-> None, last |-> 0, error |-> FALSE, record |-> None,
               finishing |-> FALSE, cancelling |-> FALSE, refused |-> None]

PassengerInit ==
    /\ screen = "home"
    /\ form = BlankForm
    /\ track = BlankTrack
    /\ watch = NoLoop
    /\ calls = {}
    /\ asked = 0
    /\ visits = 0
    /\ quotes = [n \in 1 .. MaxDeeds |-> "none"]
    /\ rides = << >>

(* `owner` is the continuation waiting; quote, key and ride are what the   *)
(* call carries, and `of` is the ride an answer is about.                  *)
Call(what, owner) == [what |-> what, owner |-> owner, quote |-> None, key |-> 0, ride |-> 0,
                      answer |-> "pending", of |-> 0]
AboutRide(what, id, owner) == [Call(what, owner) EXCEPT !.ride = id]
Pending(c) == c.answer = "pending"

-----------------------------------------------------------------------------
(* The server.                                                             *)

LastRide == rides[Len(rides)]
Riding == rides # << >> /\ LastRide.phase \in Active

\* GET current-ride: the active ride, or none.
CurrentRide == IF Riding THEN LastRide.phase ELSE "none"

\* POST ride-requests: a replay by key first, then the quote, then the ride
\* that is already active.
Booking(c) ==
    IF \E i \in 1 .. Len(rides) : rides[i].key = c.key
    THEN [answer |-> "ok", rides |-> rides, quotes |-> quotes]
    ELSE IF quotes[c.quote.id] # "open" \/ Riding
    THEN [answer |-> "conflict", rides |-> rides, quotes |-> quotes]
    ELSE [answer |-> "ok",
          rides |-> Append(rides, [phase |-> "Waiting", key |-> c.key,
                                   quote |-> c.quote.id]),
          quotes |-> [quotes EXCEPT ![c.quote.id] = "spent"]]

\* POST cancel: only a waiting ride can be called off.
Cancelling(id) ==
    IF rides[id].phase = "Waiting"
    THEN [answer |-> "ok", rides |-> [rides EXCEPT ![id].phase = "Cancelled"]]
    ELSE [answer |-> "conflict", rides |-> rides]

Replied(c, answer) ==
    calls' = (calls \ {c}) \cup
             {[c EXCEPT !.answer = answer, !.of = IF answer \in Active THEN Len(rides) ELSE 0]}

Serve(c) ==
    /\ Pending(c)
    /\ \/ /\ c.what = "quote"
          /\ quotes' = [quotes EXCEPT ![c.quote.id] = "open"]
          /\ Replied(c, "ok")
          /\ UNCHANGED rides
       \/ /\ c.what = "submit"
          /\ Len(Booking(c).rides) <= MaxRides
          /\ rides' = Booking(c).rides
          /\ quotes' = Booking(c).quotes
          /\ Replied(c, Booking(c).answer)
       \/ /\ c.what = "cancel"
          /\ rides' = Cancelling(c.ride).rides
          /\ Replied(c, Cancelling(c.ride).answer)
          /\ UNCHANGED quotes
       \/ /\ c.what \in {"poll", "load"}
          /\ Replied(c, CurrentRide)
          /\ UNCHANGED <<quotes, rides>>
       \/ /\ c.what = "detail"
          /\ Replied(c, rides[c.ride].phase)
          /\ UNCHANGED <<quotes, rides>>
       \/ /\ c.what = "submit" /\ quotes[c.quote.id] = "open"     \* its deadline passed
          /\ quotes' = [quotes EXCEPT ![c.quote.id] = "expired"]
          /\ Replied(c, "conflict")
          /\ UNCHANGED rides
    /\ UNCHANGED <<tab, screen, form, track, watch, asked, visits>>

\* The call never arrives, or its answer is lost on the way back.
Lose(c) ==
    /\ c.answer # Failure
    /\ Losing
    /\ Replied(c, Failure)
    /\ UNCHANGED <<screen, form, track, watch, asked, visits, quotes, rides>>

\* A driver accepts, the trip completes, or the search is given up.
RideMovesOn ==
    /\ Riding
    /\ \E phase \in IF LastRide.phase = "Waiting" THEN {"Engaged", "Cancelled"} ELSE {"Completed"} :
          rides' = [rides EXCEPT ![Len(rides)].phase = phase]
    /\ UNCHANGED <<tab, screen, form, track, watch, calls, asked, visits, quotes>>

-----------------------------------------------------------------------------
(* Moving between pages.  A component that unmounts drops its answers; the *)
(* writes it sent are still served, and a booking still navigates.         *)

Outlives(c) == \/ c.what = "submit" /\ c.answer \in {"pending", "ok"}
               \/ c.what = "cancel" /\ Pending(c)
Abandoned == {[c EXCEPT !.owner = None] : c \in {d \in calls : Outlives(d)}}

\* TrackPage: the ride is read on the server, and a failed read opens the
\* screen without one.
OpenTrack(phase) ==
    /\ screen' = "track"
    /\ form' = BlankForm
    /\ track' = IF phase = "none" THEN BlankTrack
                ELSE [BlankTrack EXCEPT !.opened = TRUE, !.last = Len(rides),
                                        !.ride = [id |-> Len(rides), phase |-> phase]]
    /\ watch' = Mount(FALSE)
    /\ UNCHANGED <<asked, quotes, rides>>

MountedCalls == IF hidden THEN {} ELSE {AboutRide("poll", track'.last, "poll")}

Visiting == asked + visits < MaxDeeds /\ visits' = visits + 1

VisitTrack ==
    /\ Visiting
    /\ screen # "track"
    /\ ~hidden
    /\ \/ OpenTrack(CurrentRide) /\ UNCHANGED tab
       \/ OpenTrack("none") /\ Losing
    /\ calls' = Abandoned \cup MountedCalls

\* RidePage: a passenger who is riding is sent to the tracker; when that
\* cannot be read, the panel is shown.
VisitRide ==
    /\ Visiting
    /\ screen # "ride"
    /\ ~hidden
    /\ \/ /\ Riding /\ screen # "track"
          /\ OpenTrack(CurrentRide)
          /\ calls' = Abandoned \cup MountedCalls
          /\ UNCHANGED tab
       \/ /\ screen' = "ride"
          /\ form' = BlankForm
          /\ track' = BlankTrack
          /\ watch' = NoLoop
          /\ calls' = Abandoned
          /\ IF Riding THEN Losing ELSE UNCHANGED tab
          /\ UNCHANGED <<asked, quotes, rides>>

\* The tab is hidden, or looked at again; hiding the panel changes nothing
\* unless a booking may open the tracker meanwhile.
LookAway ==
    /\ watch.on \/ form.sending
    /\ Hide
    /\ UNCHANGED passenger

LookBack ==
    /\ Show
    /\ watch' = Seen(watch)
    /\ calls' = calls \cup (IF watch' # watch THEN {AboutRide("poll", track.last, "poll")} ELSE {})
    /\ UNCHANGED <<screen, form, track, asked, visits, quotes, rides>>

-----------------------------------------------------------------------------
(* RideRequestPanel.                                                       *)

\* clearEstimate
Cleared(f) == [f EXCEPT !.quote = None, !.failed = FALSE, !.key = 0]

\* onZoneChange and onEndpointChange: a journey is chosen, or half of one.
\* The effect's cleanup stops the timer, and a whole journey starts another;
\* a quote already asked for is not called back.
Choose(j) ==
    /\ screen = "ride" /\ ~hidden
    /\ j # form.chosen
    /\ form' = [Cleared(form) EXCEPT !.chosen = j, !.timer = j # None]
    /\ UNCHANGED <<tab, screen, track, watch, calls, asked, visits, quotes, rides>>

\* The debounce runs out.
AskForQuote ==
    /\ form.timer
    /\ asked + visits < MaxDeeds
    /\ asked' = asked + 1
    /\ form' = [form EXCEPT !.timer = FALSE]
    /\ calls' = calls \cup {[Call("quote", "panel") EXCEPT !.quote = [id |-> asked', of |-> form.chosen]]}
    /\ UNCHANGED <<tab, screen, track, watch, visits, quotes, rides>>

\* mutant: a key for every attempt
KeyPerAttempt(f) == f.key + MaxDeeds * lost

\* The key sent with the booking: the one made for the quote.
KeyToSend(f) == f.key

\* onSubmit: the button is live when a price is shown.
Submit ==
    /\ screen = "ride" /\ ~hidden
    /\ form.quote # None /\ form.key # 0 /\ ~form.sending
    /\ form' = [form EXCEPT !.sending = TRUE]
    /\ calls' = calls \cup {[Call("submit", "panel") EXCEPT !.quote = form.quote, !.key = KeyToSend(form)]}
    /\ UNCHANGED <<tab, screen, track, watch, asked, visits, quotes, rides>>

LandQuote(c) ==
    /\ c.what = "quote" /\ ~Pending(c)
    /\ form' = IF c.answer = Failure
               THEN [form EXCEPT !.failed = TRUE]
               ELSE [form EXCEPT !.quote = c.quote, !.failed = FALSE, !.key = c.quote.id]
    /\ calls' = calls \ {c}
    /\ UNCHANGED <<tab, screen, track, watch, asked, visits, quotes, rides>>

\* onSubmit after the answer: on to the tracker, or the error; a quote the
\* server refused is dropped and the journey priced again.
LandSubmit(c) ==
    /\ c.what = "submit" /\ ~Pending(c)
    /\ \/ /\ c.answer = "ok" /\ screen # "track"
          /\ \/ OpenTrack(CurrentRide) /\ UNCHANGED tab
             \/ OpenTrack("none") /\ Losing
          /\ calls' = (Abandoned \ {[c EXCEPT !.owner = None]}) \cup MountedCalls
          /\ UNCHANGED visits
       \/ /\ c.answer # "ok" \/ screen = "track"
          /\ form' = IF c.owner = None THEN form
                     ELSE IF c.answer = "conflict"
                     THEN [Cleared(form) EXCEPT !.sending = FALSE, !.timer = form.chosen # None]
                     ELSE [form EXCEPT !.sending = FALSE]
          /\ calls' = calls \ {c}
          /\ UNCHANGED <<tab, screen, track, watch, asked, visits, quotes, rides>>

-----------------------------------------------------------------------------
(* RideTracker.                                                            *)

Ended == screen = "track" /\ track.ride = None /\ track.last # 0

\* load(): a ride, none, or a failure that leaves the last ride alone.
Loaded(t, c) ==
    IF c.answer = Failure THEN [t EXCEPT !.error = TRUE]
    ELSE IF c.answer = "none" THEN [t EXCEPT !.ride = None, !.error = FALSE]
    ELSE [t EXCEPT !.ride = [id |-> c.of, phase |-> c.answer], !.last = c.of, !.error = FALSE]

\* poll(): the timer fires and the question leaves with the ride last seen.
Poll ==
    /\ TimerDue(watch)
    /\ watch' = Fired(watch)
    /\ calls' = calls \cup (IF watch.busy THEN {} ELSE {AboutRide("poll", track.last, "poll")})
    /\ UNCHANGED <<tab, screen, form, track, asked, visits, quotes, rides>>

\* mutant: a failed question is the last one
EndsAtFailure(c) == c.answer \in {"none", Failure}

\* Nothing is left to learn: the server has no active ride.
EndsPolling(c) == c.answer = "none"

\* After poll()'s load: another question is scheduled, or settleArrival reads
\* how the ride in the closure ended.
LandPoll(c) ==
    /\ c.what = "poll" /\ ~Pending(c)
    /\ LET settles == c.answer = "none" /\ c.ride # 0
       IN  /\ track' = [Loaded(track, c) EXCEPT !.finishing = @ \/ settles]
           /\ calls' = (calls \ {c}) \cup
                       (IF settles THEN {AboutRide("detail", c.ride, "poll")} ELSE {})
           /\ watch' = IF settles THEN watch ELSE Answered(watch, ~EndsPolling(c), FALSE)
    /\ UNCHANGED <<tab, screen, form, asked, visits, quotes, rides>>

\* "Try again", offered when nothing could be read at all.
TryAgain ==
    /\ screen = "track" /\ ~hidden
    /\ track.error /\ track.ride = None /\ track.last = 0
    /\ calls' = calls \cup {Call("load", "button")}
    /\ UNCHANGED <<tab, screen, form, track, watch, asked, visits, quotes, rides>>

LandLoad(c) ==
    /\ c.what = "load" /\ ~Pending(c)
    /\ track' = Loaded(track, c)
    /\ calls' = calls \ {c}
    /\ UNCHANGED <<tab, screen, form, watch, asked, visits, quotes, rides>>

\* onCancel: the control is shown while the ride read last is cancellable, and
\* gives way to a notice after a conflict.
Cancel ==
    /\ screen = "track" /\ ~hidden
    /\ track.ride # None /\ track.ride.phase = "Waiting"
    /\ ~track.cancelling /\ track.refused # "conflict"
    /\ track' = [track EXCEPT !.cancelling = TRUE, !.refused = None]
    /\ calls' = calls \cup {AboutRide("cancel", track.ride.id, "button")}
    /\ UNCHANGED <<tab, screen, form, watch, asked, visits, quotes, rides>>

LandCancel(c) ==
    /\ c.what = "cancel" /\ ~Pending(c)
    /\ LET settles == c.answer = "ok" /\ c.owner # None
       IN  /\ track' = IF c.owner = None THEN track
                       ELSE IF settles THEN [track EXCEPT !.ride = None, !.finishing = TRUE]
                       ELSE [track EXCEPT !.cancelling = FALSE, !.refused = c.answer]
           /\ calls' = (calls \ {c}) \cup
                       (IF settles THEN {AboutRide("detail", c.ride, "cancel")} ELSE {})
    /\ UNCHANGED <<tab, screen, form, watch, asked, visits, quotes, rides>>

\* settleArrival's answer, back to whoever called it.
LandDetail(c) ==
    /\ c.what = "detail" /\ ~Pending(c)
    /\ track' = [track EXCEPT !.finishing = FALSE,
                              !.record = IF c.answer = Failure THEN @ ELSE c.answer,
                              !.error = @ \/ c.answer = Failure,
                              !.cancelling = @ /\ c.owner # "cancel"]
    /\ watch' = IF c.owner = "poll" THEN Answered(watch, FALSE, FALSE) ELSE watch
    /\ calls' = calls \ {c}
    /\ UNCHANGED <<tab, screen, form, asked, visits, quotes, rides>>

\* "Check the outcome again", on the screen of a ride that is over.
CheckOutcome ==
    /\ Ended /\ ~hidden
    /\ track.record = None /\ ~track.finishing
    /\ track' = [track EXCEPT !.finishing = TRUE]
    /\ calls' = calls \cup {AboutRide("detail", track.last, "button")}
    /\ UNCHANGED <<tab, screen, form, watch, asked, visits, quotes, rides>>

-----------------------------------------------------------------------------
Land(c) == LandQuote(c) \/ LandSubmit(c) \/ LandPoll(c) \/ LandLoad(c) \/ LandCancel(c) \/ LandDetail(c)

PassengerNext ==
    \/ VisitTrack \/ VisitRide \/ LookAway \/ LookBack
    \/ \E j \in Journeys \cup {None} : Choose(j)
    \/ AskForQuote \/ Submit \/ Poll \/ TryAgain \/ Cancel \/ CheckOutcome
    \/ \E c \in calls : Serve(c) \/ Lose(c) \/ Land(c)
    \/ RideMovesOn

PassengerFairness ==
    LET vars == <<tab, passenger>>
    IN  /\ WF_vars(Poll)
        /\ \A what \in {"poll", "detail"} :
              /\ WF_vars(\E c \in calls : c.what = what /\ Serve(c))
              /\ WF_vars(\E c \in calls : c.what = what /\ Land(c))

-----------------------------------------------------------------------------
(* Properties.                                                             *)

\* A lost answer costs the passenger nothing: a booking is never refused on
\* account of the ride that the same quote already made.  Pressing the button
\* again after a failed call is the same intent, because the key is made with
\* the quote and sent with every attempt.
LostAnswersAreHarmless ==
    \A c \in calls : c.what = "submit" /\ c.answer = "conflict" =>
        \A i \in 1 .. Len(rides) : rides[i].quote # c.quote.id

\* The journey booked is the journey chosen on the screen: "only the journey the
\* passenger settled on is ever priced".
BookedAsChosen ==
    [][\A c \in calls' \ calls :
          c.what = "submit" /\ c.owner = "panel" /\ Pending(c) => c.quote.of = form.chosen]_passenger

\* The tracking screen of a ride never goes quiet before the end: once the ride
\* is over, a screen that was opened with the ride on it and is being looked at
\* comes to say how it ended, or that this could not be read.  Polling must
\* survive failed reads, the hidden tab, and a cancellation overtaken by a poll.
RideIsOver == screen = "track" /\ track.opened /\ ~hidden /\ ~Riding

OutcomeShown ==
    /\ Ended /\ ~track.finishing
    /\ \/ track.record = rides[track.last].phase
       \/ track.record = None /\ track.error

ShowsTheOutcome == RideIsOver ~> OutcomeShown \/ hidden \/ screen # "track"

=============================================================================
