--------------------------- MODULE BoundedHistory ---------------------------
(***************************************************************************)
(* What the metrics buffer promises: the last Capacity snapshots, oldest   *)
(* first.  MetricsBuffer implements it with a ring.                        *)
(***************************************************************************)
EXTENDS Integers, Sequences

CONSTANTS
  Snapshots,  \* what can be stored
  Capacity    \* how many are kept, at least one

VARIABLE log

\* The longest suffix of s that fits.
Keep(s) == SubSeq(s, IF Len(s) > Capacity THEN Len(s) - Capacity + 1 ELSE 1, Len(s))

Init == log = << >>

Push(s) == log' = Keep(Append(log, s))

Next == \E s \in Snapshots : Push(s)

Spec == Init /\ [][Next]_log
=============================================================================
