------------------------------ MODULE MCWsHub ------------------------------
(* Instances of WsHub for TLC. *)
EXTENDS WsHub

CONSTANT MaxSnap  \* snapshots collected; from then on collections fail

MCSnapshots == 1 .. MaxSnap
=============================================================================
