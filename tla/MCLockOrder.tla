----------------------------- MODULE MCLockOrder -----------------------------
(***************************************************************************)
(* The instances of LockOrder that TLC checks.  Requests and transactions  *)
(* are interchangeable.                                                    *)
(***************************************************************************)
EXTENDS LockOrder, TLC

Symmetry == Permutations(Requests) \cup Permutations(Transactions)

=============================================================================
