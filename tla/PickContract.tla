----------------------------- MODULE PickContract -----------------------------
(***************************************************************************)
(* What the task node promises of one pick, without its servers, clocks or *)
(* transport: it surveys, may drive to a bounded number of spots, looks    *)
(* again from where it stands, and reaches only for what that look showed. *)
(* TaskNode is shown to implement this specification.                      *)
(***************************************************************************)
EXTENDS Naturals

CONSTANT Allowance       \* spots one pick may drive to, 0 for no limit

VARIABLES
  stage,    \* how far the pick has come
  spots,    \* spots driven to in this pick
  current   \* the last look was taken from where the vehicle stands

contract == <<stage, spots, current>>

Under == {"survey", "drive", "look", "reach", "close"}
Over == {"idle", "done", "failed", "stopped"}

Init == stage = "idle" /\ spots = 0 /\ current = FALSE

Begin ==
  /\ stage \in Over
  /\ stage' = "survey" /\ spots' = 0 /\ UNCHANGED current

\* Outside a reach what is known of the scene comes and goes.
Learn ==
  /\ stage \notin {"reach", "close"}
  /\ current' \in BOOLEAN /\ UNCHANGED <<stage, spots>>

\* From a survey the vehicle is driven, or stays where it stands.
Drive ==
  /\ stage = "survey" /\ (Allowance = 0 \/ spots < Allowance)
  /\ stage' = "drive" /\ spots' = spots + 1 /\ UNCHANGED current

Stand ==
  /\ stage \in {"survey", "drive"}
  /\ stage' = "look" /\ UNCHANGED <<spots, current>>

\* The looks from here gave nothing: survey again, if a spot is left to drive to.
SurveyAgain ==
  /\ stage = "look"
  /\ stage' = "survey" /\ UNCHANGED <<spots, current>>

Reach ==
  /\ stage = "look" /\ current
  /\ stage' = "reach" /\ UNCHANGED <<spots, current>>

LookAgain ==
  /\ stage = "reach"
  /\ stage' = "look" /\ UNCHANGED <<spots, current>>

Close ==
  /\ stage = "reach"
  /\ stage' = "close" /\ UNCHANGED <<spots, current>>

Finish ==
  /\ stage = "close"
  /\ stage' = "done" /\ UNCHANGED <<spots, current>>

GiveUp ==
  /\ stage \in Under
  /\ stage' \in {"failed", "stopped"} /\ UNCHANGED <<spots, current>>

Next == \/ Begin \/ Learn \/ Drive \/ Stand \/ SurveyAgain \/ Reach \/ LookAgain
        \/ Close \/ Finish \/ GiveUp

Spec == Init /\ [][Next]_contract
================================================================================
