-------------------------------- MODULE ArmLoop --------------------------------
(***************************************************************************)
(* The executor node and the driver node together, with the arm between    *)
(* them: waypoints go down, joint_states come back later and more rarely,  *)
(* standby is a call.  This is where what one node judges from readings    *)
(* meets what the other one really did to the arm.                         *)
(*                                                                         *)
(* The clock is the executor's: it turns its loop once per step, and the   *)
(* driver polls once in one to SlowestPoll steps.                          *)
(***************************************************************************)
EXTENDS Executor

CONSTANTS
  JointCount, Lower, Upper, Home, HomeStep, Speed, Released,   \* Driver
  SlowestPoll,     \* steps between two polls at most
  MaxMisses,       \* bound on polls that a joint does not answer
  MayTouch,        \* whether something may be in the arm's way
  MaxGoals         \* bound on goals

VARIABLES
  position, readAt, homing, aim, arm, order,   \* Driver
  reading,      \* joint_states on its way to the executor
  held,         \* joints that something holds
  misses, goals,
  sincePoll,    \* steps since the last poll
  turned,       \* the executor has turned its loop in this step
  lagging,      \* a waypoint has been on its way since an earlier step
  goal          \* where the last path leads

ASSUME LoopAssumption ==
  /\ SlowestPoll \in Nat \ {0} /\ MaxMisses \in Nat /\ MaxGoals \in Nat
  /\ MayTouch \in BOOLEAN

D == INSTANCE Driver
  WITH Oldest <- MaxAge, Requests <- {}, LineMayFail <- FALSE

\* The arm is one a driver can have, and has the joints that a path moves.
ASSUME ArmAssumption ==
  /\ JointCount \in Nat \ {0} /\ Moved \subseteq D!Joints
  /\ Lower \in Int /\ Upper \in Int /\ Lower < Upper
  /\ Home \in [D!Joints -> Lower..Upper]
  /\ HomeStep \in Nat \ {0} /\ Speed \in Nat \ {0} /\ Released \notin Int

-------------------------------------------------------------------------------
\* What the parameters have to be for a verdict to mean what it says.

\* Where a path leads, every joint can go.
PathsAreLegal == \A path \in Paths, j \in Moved : path # <<>> => path[Len(path)][j] \in Lower..Upper

\* The steps in which a joint that nothing holds goes from one limit to the other.
Crossing == (Upper - Lower + Speed - 1) \div Speed

\* A reading is younger than the timeout until the next one comes, and the time for the
\* arrival lasts until a joint has crossed its range and has been read there.
ArrivalIsTimely ==
  SlowestPoll <= FeedbackTimeout /\ Crossing + SlowestPoll <= ArrivalTimeout

\* A joint that stands still is struck at every reading, and there is time for the strikes.
ContactIsTimely ==
  /\ ArrivalIsTimely /\ MinStep <= MaxStep
  /\ Crossing + SlowestPoll + Strikes * (SlowestPoll + 1) <= ArrivalTimeout

\* A joint that moves at its speed moves more in a step than it takes to be seen to follow.
FollowingShows == MaxStep <= Speed * FollowShare
-------------------------------------------------------------------------------

paceVars == <<sincePoll, turned, lagging>>
factVars == <<held, misses, goals, goal>>
driverSide == <<position, readAt, homing, aim, arm, order>>
vars == <<executorVars, driverSide, target, reading, standby, paceVars, factVars>>

Init ==
  /\ ExecutorInit /\ D!DriverInit
  /\ arm = Home
  /\ held = {} /\ misses = 0 /\ goals = 0 /\ goal = Home
  /\ sincePoll = 1 /\ turned = FALSE /\ lagging = FALSE

-------------------------------------------------------------------------------
\* The driver's side.

Poll ==
  /\ sincePoll > 0
  /\ \E answered \in {D!Joints} \cup {D!Joints \ {j} : j \in D!Joints} :
       /\ misses' = IF answered = D!Joints THEN misses ELSE misses + 1
       /\ misses' <= MaxMisses
       /\ D!Poll(answered, D!Joints)
  /\ sincePoll' = 0
  /\ UNCHANGED <<executorVars, turned, lagging, held, goals, goal>>

\* While a goal runs and after it: a waypoint that has arrived is applied.
OnJointTargets ==
  /\ D!OnJointTargets(D!Joints)
  /\ lagging' = FALSE
  /\ UNCHANGED <<executorVars, sincePoll, turned, factVars>>

OnStandby ==
  /\ D!OnStandby(D!Joints)
  /\ UNCHANGED <<executorVars, paceVars, factVars>>
-------------------------------------------------------------------------------
\* The executor's side.

ReadingArrives ==
  /\ reading # D!Nothing
  /\ OnJointStates(reading)
  /\ reading' = D!Nothing
  /\ UNCHANGED <<driverSide, paceVars, factVars>>

GoalArrives ==
  /\ goals < MaxGoals
  /\ goals' = goals + 1
  /\ \E path \in Paths :
       /\ OnExecute(path)
       /\ goal' = IF run' = "following" THEN path[Len(path)] ELSE goal
  /\ UNCHANGED <<driverSide, reading, paceVars, held, misses>>

PreemptArrives ==
  /\ RequestPreempt
  /\ UNCHANGED <<driverSide, reading, paceVars, factVars>>

\* One turn of the loop per step.  A new waypoint replaces one that still waits, and
\* takes its place in the queue.
Turn ==
  /\ ~turned
  /\ Follow \/ StopOnRequest
  /\ turned' = TRUE
  /\ UNCHANGED <<driverSide, reading, sincePoll, lagging, factVars>>

GoalEnds ==
  /\ StandbyAnswers
  /\ UNCHANGED <<driverSide, reading, paceVars, factVars>>
-------------------------------------------------------------------------------
\* The arm and the clock.

\* Something gets in the way of a joint, and stays there.
Touch ==
  /\ MayTouch /\ held = {}
  /\ \E j \in Moved : held' = {j}
  /\ UNCHANGED <<executorVars, driverSide, target, reading, standby, paceVars, misses, goals, goal>>

\* A step ends when the executor has turned its loop, what the driver published has
\* arrived, and no waypoint waits for a second step.
Elapse ==
  /\ run = "following" => turned
  /\ sincePoll < SlowestPoll
  /\ reading = D!Nothing /\ ~lagging
  /\ D!Time(D!Joints \ held)
  /\ Age
  /\ sincePoll' = sincePoll + 1
  /\ turned' = FALSE /\ lagging' = (target # D!Nothing)
  /\ UNCHANGED <<run, preempt, verdict, outcome, factVars>>

\* What goes on whether or not anybody asks for anything.
Loops == Poll \/ OnJointTargets \/ ReadingArrives \/ Turn \/ Elapse
Call == OnStandby \/ GoalEnds

Next == Loops \/ Call \/ GoalArrives \/ PreemptArrives \/ Touch

Spec == Init /\ [][Next]_vars

\* Both nodes' loops go round, what is sent arrives, and time passes: within a step of the
\* clock each of them happens finitely often, so none can keep the others out.  A call of
\* standby is served, and returns.
FairSpec == Spec /\ WF_vars(Loops) /\ WF_vars(Call)
-------------------------------------------------------------------------------
TypeOK ==
  /\ run \in {"idle", "following", "releasing"} /\ outcome \in Outcomes
  /\ verdict \in Outcomes /\ preempt \in BOOLEAN
  /\ run = "following" => /\ follower.state \in {"SENDING", "SETTLING", "REACHED"}
                          /\ follower.sent \in 0..Len(follower.path)
                          /\ follower.strikes \in 0..(Strikes - 1)
  /\ D!TypeOK

\* The executor says that the arm hit something only when it did: slow and irregular
\* polls, readings seen twice, late waypoints and joints that miss an answer never add
\* up to contact, which would latch the whole pick.
ContactIsReal == verdict = "blocked" => held # {}

\* It says that the arm arrived only when the arm is where the path leads.
ArrivalIsReal ==
  outcome = "reached" => \A j \in Moved : Distance(arm[j], goal[j]) <= Tolerance

\* An arm that nothing holds, and whose joints always answer, arrives in time: STALLED,
\* which the task node answers by another attempt, is not the verdict of a healthy arm.
StallHasCause == verdict = "stalled" => held # {} \/ misses > 0

\* A joint held well short of the goal is reported as contact, not as a late arrival,
\* as long as the joints answer.
ContactIsReported ==
  verdict = "stalled" /\ misses = 0 =>
    \A j \in held : Distance(arm[j], goal[j]) < Tolerance + MinStep

\* Every goal ends, whatever holds the arm and whichever readings are lost.
EveryGoalEnds == run # "idle" ~> run = "idle"

\* ExecutorNode.cpp: a goal that ends otherwise says "arm released".
ReleasedWhenReported ==
  outcome \in {"stalled", "blocked", "stopped"} /\ target = D!Nothing =>
    \A j \in Moved : aim[j] = Released
================================================================================
