---------------------------- MODULE MCUserAdmin ----------------------------
(* Instances of UserAdmin for TLC. *)
EXTENDS UserAdmin, TLC

\* Addresses and goroutines are interchangeable; only safety is checked.
Symmetry == Permutations(AdminProcs) \cup Permutations(Accounts)
=============================================================================
