------------------------------- MODULE MCPim -------------------------------
(* Instances of Pim for TLC: days of three units, sessions of one or two. *)
EXTENDS Pim, TLC

\* Absent, negative and longer than allowed; BreakGlass adds the longest allowed.
MCBodyDurations == {-1, 0, 3}

\* Identifiers are interchangeable; every property checked under this
\* symmetry is a safety property.
Symmetry == Permutations(Procs) \cup Permutations(PimIds)
=============================================================================
