------------------------------ MODULE MCAlerts ------------------------------
(* Instances of Alerts for TLC: the CPU and two disks. *)
EXTENDS Alerts

MCOrder == <<"cpu", "disk:/", "disk:/home">>
MCKeys == {"cpu", "disk:/", "disk:/home"}
MCMounts == {"disk:/home"}
MCTypeOf == [k \in MCKeys |-> IF k = "cpu" THEN "cpu" ELSE "disk"]
MCDefaultThresholds == [t \in {"cpu", "disk"} |-> [warning |-> 1, enabled |-> TRUE]]
MCWarnings == {1}
MCValues == 0 .. 1
=============================================================================
