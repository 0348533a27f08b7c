-------------------------------- MODULE Polling --------------------------------
(***************************************************************************)
(* The browser side every screen shares: a tab the person may look away    *)
(* from, a network that may swallow an answer, and usePolling              *)
(* (lib/use-polling.js), which decides when a screen asks.                 *)
(*                                                                         *)
(* A loop is [on, timers, busy]: mounted, the timers that are pending, a   *)
(* question in flight.  More than one timer can be pending: coming back to *)
(* the tab asks at once and leaves the pending timer alone, and the answer *)
(* schedules another.                                                      *)
(***************************************************************************)
EXTENDS Naturals

CONSTANTS MaxHides,   \* bound: how often the person looks away
          MaxLost     \* bound: how many calls fail

VARIABLES hidden,     \* document.visibilityState = "hidden"
          hides,      \* how often the tab was hidden
          lost        \* how many calls failed

tab == <<hidden, hides, lost>>

\* What a call answers when the connection fails (ApiError, network: true).
Failure == "failure"

TabInit == hidden = FALSE /\ hides = 0 /\ lost = 0

NoLoop == [on |-> FALSE, timers |-> 0, busy |-> FALSE]

\* schedule(): `background` says the screen also asks in a hidden tab.
Schedule(loop, background) ==
    IF hidden /\ ~background THEN loop ELSE [loop EXCEPT !.timers = @ + 1]

\* run(): nothing when a question is in flight, else one question leaves.
MayAsk(loop) == loop.on /\ ~loop.busy
Asking(loop) == [loop EXCEPT !.busy = TRUE]

\* The effect's mount: one immediate question, unless the tab starts hidden.
Mount(background) == [NoLoop EXCEPT !.on = TRUE, !.busy = ~hidden \/ background]

\* A pending timer fires; run() may find a question in flight, and then this
\* chain of timers ends here.
TimerDue(loop) == loop.on /\ loop.timers > 0
Fired(loop) == [loop EXCEPT !.timers = @ - 1, !.busy = TRUE]

\* The question is answered: another is scheduled unless the tick said stop.
Answered(loop, keepGoing, background) ==
    LET after == [loop EXCEPT !.busy = FALSE]
    IN  IF keepGoing THEN Schedule(after, background) ELSE after

\* mutant: coming back to the tab asks nothing
SeenWithoutAsking(loop) == loop

\* onVisible: the tab is looked at again, and the loop asks at once.
Seen(loop) == IF MayAsk(loop) THEN Asking(loop) ELSE loop

\* A call fails on its way there or back.
Losing == lost < MaxLost /\ lost' = lost + 1 /\ UNCHANGED <<hidden, hides>>

\* The person looks away, and back.
Hide == ~hidden /\ hides < MaxHides /\ hidden' = TRUE /\ hides' = hides + 1 /\ UNCHANGED lost
Show == hidden /\ hidden' = FALSE /\ UNCHANGED <<hides, lost>>

=============================================================================
