-------------------------------- MODULE Client --------------------------------
(***************************************************************************)
(* The web client: whoever signs in is sent to the screens of their role,  *)
(* and no screen of the other role opens (lib/roles.js, lib/session.js).   *)
(***************************************************************************)
EXTENDS PassengerApp, DriverApp

VARIABLE role       \* who is signed in in this tab

vars == <<tab, passenger, driver, role>>

Roles == {"PASSENGER", "DRIVER"}

Init ==
    /\ TabInit
    /\ PassengerInit
    /\ DriverInit
    /\ role = "nobody"

SignIn ==
    /\ role = "nobody"
    /\ role' \in Roles
    /\ UNCHANGED <<tab, passenger, driver>>

\* requireRole: every page of a role's half asks for the role.
AsPassenger == role = "PASSENGER" /\ PassengerNext /\ UNCHANGED <<driver, role>>
AsDriver == role = "DRIVER" /\ DriverNext /\ UNCHANGED <<passenger, role>>

Next == SignIn \/ AsPassenger \/ AsDriver

(* Timers fire, requests are served and answered, continuations run.  The  *)
(* person owes nothing: no button, no page and no tab is fair.  Failed     *)
(* calls are finitely many, so a retry gets through.                       *)
Fairness == PassengerFairness /\ DriverFairness

Spec == Init /\ [][Next]_vars /\ Fairness

=============================================================================
