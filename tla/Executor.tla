------------------------------- MODULE Executor -------------------------------
(***************************************************************************)
(* The executor node (executor/src/ExecutorNode.cpp): one goal of the      *)
(* Execute action at a time, followed by a PathFollower in a loop that     *)
(* looks at the last joint_states, sends one waypoint and reports.         *)
(*                                                                         *)
(* It meets the driver node in three channels: joint_states comes in by    *)
(* reading, waypoints go out by target, and the standby service is called  *)
(* by standby.  A topic channel holds one message: every queue is 1 deep.  *)
(***************************************************************************)
EXTENDS PathFollower

CONSTANTS
  Paths,            \* the paths a goal may ask for, <<>> for one that is malformed
  StartTolerance,   \* start_tolerance
  FeedbackTimeout   \* feedback_timeout_s, in steps of the clock

ASSUME ExecutorAssumption ==
  /\ Paths \subseteq Seq(Pose)
  /\ StartTolerance \in Nat /\ FeedbackTimeout \in Nat \ {0}

\* A stamp is the time a joint was read: how many steps ago, and in which place within
\* that poll.  Stamps are not told apart once they are stale.
MaxAge == FeedbackTimeout + 1
NoStamp == [age |-> MaxAge, place |-> 0]
Grow(age) == IF age < MaxAge THEN age + 1 ELSE age
Older(stamp) == [stamp EXCEPT !.age = Grow(@)]

\* latest before the first message.
NoReading == [stamp |-> NoStamp, at |-> <<>>]
NoTarget == <<>>

VARIABLES
  run,        \* "idle", "following", or "releasing": waiting for standby to answer
  follower,   \* the PathFollower of the goal
  latest,     \* latest_joints_
  stamp,      \* stamp of the reading last measured
  preempt,    \* isPreemptRequested()
  verdict,    \* what the goal will be answered once the arm is released
  outcome,    \* how the last goal ended
  target,     \* waypoint on its way to the driver
  standby     \* "idle", "called" or "answered"

executorVars == <<run, follower, latest, stamp, preempt, verdict, outcome>>

Outcomes == {"none", "reached", "stalled", "blocked", "refused", "stopped"}

\* What a follower holds between two goals is never looked at.
NoFollower == [state |-> "REACHED"]

ExecutorInit ==
  /\ run = "idle" /\ follower = NoFollower
  /\ latest = NoReading /\ stamp = NoStamp
  /\ preempt = FALSE /\ verdict = "none" /\ outcome = "none"

Fresh == latest # NoReading /\ latest.stamp.age <= FeedbackTimeout

OnJointStates(message) ==
  /\ latest' = message
  /\ UNCHANGED <<run, follower, stamp, preempt, verdict, outcome, target, standby>>

AtStart(path) ==
  \A j \in Moved : Distance(latest.at[j], path[1][j]) <= StartTolerance

\* A goal is refused before anything is sent, or loaded.
OnExecute(path) ==
  /\ run = "idle"
  /\ preempt' = FALSE /\ verdict' = "none"
  /\ IF path # <<>> /\ Fresh /\ AtStart(path)
     THEN /\ run' = "following" /\ outcome' = "none"
          /\ follower' = Load(path) /\ stamp' = latest.stamp
     ELSE /\ outcome' = "refused"
          /\ UNCHANGED <<run, follower, stamp>>
  /\ UNCHANGED <<latest, target, standby>>

RequestPreempt ==
  /\ run = "following" /\ ~preempt
  /\ preempt' = TRUE
  /\ UNCHANGED <<run, follower, latest, stamp, verdict, outcome, target, standby>>

\* Every end but an arrival releases the arm first, and waits for the driver's answer.
Release(why) ==
  /\ run' = "releasing" /\ verdict' = why
  /\ standby' = "called"

StopOnRequest ==
  /\ run = "following" /\ preempt
  /\ Release("stopped")
  /\ follower' = NoFollower
  /\ UNCHANGED <<latest, stamp, preempt, outcome, target>>

\* Only a new stamp is a new measurement.
Measured ==
  IF ~Fresh THEN LoseMeasurement(follower)
  ELSE IF latest.stamp # stamp THEN Measure(follower, latest.at)
  ELSE follower

Answer(why) == run' = "idle" /\ outcome' = why

\* One turn of the loop.
Follow ==
  /\ run = "following" /\ ~preempt
  /\ stamp' = IF Fresh THEN latest.stamp ELSE NoStamp
  /\ target' = IF Sends(Measured) THEN Target(Measured) ELSE target
  /\ LET after == Tick(Measured)
     IN  \/ /\ after.state \in {"SENDING", "SETTLING"}
            /\ follower' = after
            /\ UNCHANGED <<run, verdict, outcome, standby>>
         \/ /\ after.state = "REACHED" /\ Answer("reached")
            /\ follower' = NoFollower
            /\ UNCHANGED <<verdict, standby>>
         \/ /\ after.state = "STALLED" /\ Release("stalled")
            /\ follower' = NoFollower
            /\ UNCHANGED outcome
         \/ /\ after.state = "BLOCKED" /\ Release("blocked")
            /\ follower' = NoFollower
            /\ UNCHANGED outcome
  /\ UNCHANGED <<latest, preempt>>

\* Whether standby worked is not asked.
StandbyAnswers ==
  /\ run = "releasing" /\ standby = "answered"
  /\ standby' = "idle"
  /\ Answer(verdict)
  /\ UNCHANGED <<follower, latest, stamp, preempt, verdict, target>>

\* Time passes: every age grows.
Age ==
  /\ latest' = IF latest = NoReading THEN latest ELSE [latest EXCEPT !.stamp = Older(@)]
  /\ stamp' = Older(stamp)
  /\ follower' = IF follower.state # "SETTLING" THEN follower
                 ELSE [follower EXCEPT !.settlingFor = IF @ > ArrivalTimeout THEN @ ELSE @ + 1]
================================================================================
