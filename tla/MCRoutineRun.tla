---------------------------- MODULE MCRoutineRun ----------------------------
(* The instance of RoutineRun for TLC: an agent step, a timed wait and a     *)
(* capability step.                                                          *)
EXTENDS RoutineRun, TLC

CapabilityLast == ("call1" :> 1 @@ "call2" :> 3)
NoRows == {}
=============================================================================
