---------------------------- MODULE MCSessions ----------------------------
(* Instances of Sessions for TLC. *)
EXTENDS Sessions, TLC

\* Identifiers are interchangeable; only safety is checked.
Symmetry == Permutations(Procs) \cup Permutations(SessionIds) \cup Permutations(Users)
=============================================================================
