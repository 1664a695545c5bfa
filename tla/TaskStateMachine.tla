--------------------------- MODULE TaskStateMachine ---------------------------
(***************************************************************************)
(* The table that task/src/StateMachine.cpp spells out: which state an     *)
(* event leads to.  It is a pure function, so this module has no variables *)
(* and TaskNode and StopChain both build on it.                            *)
(***************************************************************************)

\* The states a pick passes through while it is under way, and those it rests in.
Working == {"STREAM", "COLLECT", "PROCESS", "PICKSPOT", "GOTOSPOT", "RESURVEY",
            "PICKGRASP", "GOTOGRASP", "CLOSEJAW", "RETARGET", "REPARK"}

Resting == {"READY", "SUCCESS", "FAIL", "ESTOP"}

States == Working \cup Resting

Events == {"NONE", "START", "STOP", "STREAMING", "NO_STREAM", "PROCESSING",
           "CANDIDATES_SPOT", "CANDIDATES_GRASP", "NO_CANDIDATES_SPOT",
           "NO_CANDIDATES_GRASP", "SURVEY_AGAIN", "OUT_OF_TIME", "SPOT_CHOSEN",
           "SPOT_UNCHANGED", "NO_SPOT", "ARRIVED", "PLAN_FOUND", "NO_PLAN",
           "REACHED", "STALLED", "JAW_SETTLED", "LOOK_AGAIN", "OUT_OF_LOOKS",
           "PARK_AGAIN", "OUT_OF_PARKS", "COLLIDED", "FAILURE"}

IsWorking(s) == s \in Working

\* What each state answers to, and the state the answer leads to.  An event that is
\* not listed for a state does not apply there and leaves it as it is.
Table ==
  {<<"STREAM", "STREAMING", "COLLECT">>,
   <<"STREAM", "NO_STREAM", "FAIL">>,
   <<"COLLECT", "PROCESSING", "PROCESS">>,
   <<"RESURVEY", "SURVEY_AGAIN", "COLLECT">>,
   <<"RESURVEY", "OUT_OF_TIME", "FAIL">>,
   <<"PICKSPOT", "SPOT_CHOSEN", "GOTOSPOT">>,
   <<"PICKSPOT", "SPOT_UNCHANGED", "COLLECT">>,
   <<"PICKSPOT", "NO_SPOT", "REPARK">>,
   <<"GOTOSPOT", "ARRIVED", "COLLECT">>,
   <<"PICKGRASP", "PLAN_FOUND", "GOTOGRASP">>,
   <<"PICKGRASP", "NO_PLAN", "RETARGET">>,
   <<"GOTOGRASP", "REACHED", "CLOSEJAW">>,
   <<"GOTOGRASP", "STALLED", "RETARGET">>,
   <<"CLOSEJAW", "JAW_SETTLED", "SUCCESS">>,
   <<"RETARGET", "LOOK_AGAIN", "COLLECT">>,
   <<"RETARGET", "OUT_OF_LOOKS", "REPARK">>,
   <<"REPARK", "PARK_AGAIN", "COLLECT">>,
   <<"REPARK", "OUT_OF_PARKS", "FAIL">>}

\* COLLECT and PROCESS take the same verdicts of the cloud node.
Verdicts ==
  {<<"CANDIDATES_SPOT", "PICKSPOT">>, <<"CANDIDATES_GRASP", "PICKGRASP">>,
   <<"NO_CANDIDATES_SPOT", "RESURVEY">>, <<"NO_CANDIDATES_GRASP", "RETARGET">>}

\* nextState(s, e) = n, with n another state than s.  Contact, a stop, a failure and a
\* start are answered the same way in every state they apply to.
Leads(s, e, n) ==
  \/ e \in {"COLLIDED", "STOP"} /\ IsWorking(s) /\ n = "ESTOP"
  \/ e = "FAILURE" /\ IsWorking(s) /\ n = "FAIL"
  \/ e = "START" /\ s \in Resting /\ n = "STREAM"
  \/ <<s, e, n>> \in Table
  \/ s \in {"COLLECT", "PROCESS"} /\ <<e, n>> \in Verdicts
================================================================================
