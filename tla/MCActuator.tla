----------------------------- MODULE MCActuator -----------------------------
(* Instances of Actuator.  "Cpu": one floor under a moving thermal ceiling,  *)
(* where the environment may do everything at once.  "Line": the powersave   *)
(* tier, which owns a GPU floor and its ceiling together, then a memory bus  *)
(* that shows no ceiling and the PELT multiplier: three nodes of one apply,  *)
(* in the order the daemon finds them.                                       *)
EXTENDS Actuator

CpuAxis == <<0>>
CpuTable == <<<<1, 2, 3>>>>
CpuSettings == [p \in Path |-> IF p = Floor(1) THEN {1, 2} ELSE {2, 3}]

LineAxis == <<1, 2, 3>>
LineTable == <<<<1, 2, 3>>, <<1, 2>>, <<>>>>
LineSettings ==
    [p \in Path |->
        CASE p = Floor(1) -> {1}
          [] p = Ceil(1) -> {2, 3}
          [] p = Floor(2) -> {1}
          [] p = Floor(3) -> {2}
          [] OTHER -> {0}]
=============================================================================
