------------------------------- MODULE MCTrip -------------------------------
(***************************************************************************)
(* The instance of Trip that TLC checks.                                   *)
(***************************************************************************)
EXTENDS Trip


=============================================================================
