------------------------------ MODULE MCTaskNode ------------------------------
(* The task node for TLC: its properties, and the contract it implements.    *)
EXTENDS TaskNode

-------------------------------------------------------------------------------
\* The pick, seen from outside (PickContract).
Stage ==
  CASE state = "READY"                                            -> "idle"
    [] state \in {"STREAM", "RESURVEY", "PICKSPOT", "REPARK"}     -> "survey"
    [] state \in {"COLLECT", "PROCESS"} /\ phase = "SPOT"         -> "survey"
    [] state \in {"COLLECT", "PROCESS"} /\ phase = "GRASP"        -> "look"
    [] state = "GOTOSPOT"                                         -> "drive"
    [] state \in {"PICKGRASP", "RETARGET"}                        -> "look"
    [] state = "GOTOGRASP"                                        -> "reach"
    [] state = "CLOSEJAW"                                         -> "close"
    [] state = "SUCCESS"                                          -> "done"
    [] state = "FAIL"                                             -> "failed"
    [] state = "ESTOP"                                            -> "stopped"

Pick == INSTANCE PickContract
  WITH Allowance <- ParkAttempts, stage <- Stage, spots <- parkAttempt,
       current <- viewed["cloud"]

\* The task node implements the contract: one pick drives to no more spots than it is
\* allowed and reaches only for what was looked at after the vehicle last moved, through
\* stops, restarts and servers still busy with the goals of an earlier run.
ImplementsPick == Pick!Spec
================================================================================
