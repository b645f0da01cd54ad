--------------------------- MODULE MetricsBuffer ---------------------------
(***************************************************************************)
(* The rolling buffer between the metrics collector and its readers        *)
(* (internal/metrics/buffer.go): a ring of BufferSize cells, each method   *)
(* under the buffer's lock and so one atomic step.                         *)
(***************************************************************************)
EXTENDS Integers, Sequences

CONSTANTS
  Snapshots,   \* what the collector produces
  BufferSize,
  None         \* nil

ASSUME BufferAssumption ==
  /\ BufferSize \in Nat \ {0}
  /\ None \notin Snapshots

VARIABLES
  data,   \* the cells, numbered from 0 as in Go
  head,   \* the cell the next Push writes
  count   \* how many cells are in use

bufferVars == <<data, head, count>>

Cells == 0 .. BufferSize - 1

BufferTypeOK ==
  /\ data \in [Cells -> Snapshots \cup {None}]
  /\ head \in Cells
  /\ count \in 0 .. BufferSize

NewBuffer ==
  /\ data = [i \in Cells |-> None]
  /\ head = 0
  /\ count = 0

Push_NoWrap(s) ==
  /\ data' = [data EXCEPT ![head] = s]
  /\ head' = head + 1
  /\ count' = IF count < BufferSize THEN count + 1 ELSE count
Push(s) ==
  /\ data' = [data EXCEPT ![head] = s]
  /\ head' = (head + 1) % BufferSize
  /\ count' = IF count < BufferSize THEN count + 1 ELSE count

Latest == IF count = 0 THEN None ELSE data[(head - 1 + BufferSize) % BufferSize]

\* Oldest first.
History_FromHead == [i \in 1 .. count |-> data[(head + i - 1) % BufferSize]]
History ==
  LET start == (head - count + BufferSize) % BufferSize
  IN  [i \in 1 .. count |-> data[(start + i - 1) % BufferSize]]

BufferNext == \E s \in Snapshots : Push(s)

BufferSpec == NewBuffer /\ [][BufferNext]_bufferVars

----------------------------------------------------------------------------
(* Properties *)

Abstract == INSTANCE BoundedHistory WITH Capacity <- BufferSize, log <- History

\* The ring is the abstract history: whatever the position of head, History is
\* the last BufferSize snapshots pushed, in the order of their pushes.
RefinesHistory == Abstract!Spec
=============================================================================
