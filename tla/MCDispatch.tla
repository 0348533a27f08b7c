----------------------------- MODULE MCDispatch -----------------------------
(* Small instances of Dispatch.  Requests, drivers and workers are         *)
(* interchangeable, and so are offer ids: a fresh one is taken by CHOOSE,  *)
(* which picks the same id in every state with the same free ids.          *)
EXTENDS Dispatch, TLC

Symmetry == Permutations(Requests) \cup Permutations(Drivers) \cup Permutations(Workers)

=============================================================================
