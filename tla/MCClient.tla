------------------------------- MODULE MCClient -------------------------------
(* One tab: a passenger with two journeys to choose from, or a driver.     *)
EXTENDS Client
=============================================================================
