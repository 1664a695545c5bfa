------------------------------ MODULE ActionLink ------------------------------
(***************************************************************************)
(* One actionlib connection: a SimpleActionClient in the task node, a      *)
(* SimpleActionServer in another node, and the topics between them.  The   *)
(* library is not part of the repository; it is modelled from how          *)
(* task/src/TaskNode.cpp and the action servers use it.                    *)
(*                                                                         *)
(* Goals are told apart only by whether the client still follows them:     *)
(* sending a goal makes every earlier one "old", and what an old goal      *)
(* reports is dropped.  A cancel-all carries no goal id and no time, so    *)
(* the server cancels the goals it knows at that moment and remembers      *)
(* nothing.  Goals and cancels travel on different topics: neither order   *)
(* is promised.                                                            *)
(***************************************************************************)

Owner == {"none", "mine", "old"}

\* What the client reads: nothing sent yet, waiting, or the result of its goal.
NoAnswer == "none"
Waiting == "waiting"

Link(Results) ==
  [client      : {NoAnswer, Waiting} \cup Results,
   goal        : Owner,                  \* whose goal is in flight to the server
   cancel      : BOOLEAN,                \* a cancel-all is in flight to it
   run         : Owner,                  \* whose goal the server's callback runs
   preempt     : BOOLEAN,                \* isPreemptRequested() of that callback
   next        : Owner,                  \* the goal waiting for the callback
   nextPreempt : BOOLEAN,                \* it was cancelled before it began
   feedback    : BOOLEAN,                \* the one feedback that matters is in flight
   result      : {NoAnswer} \cup Results]

QuietLink ==
  [client |-> NoAnswer, goal |-> "none", cancel |-> FALSE,
   run |-> "none", preempt |-> FALSE, next |-> "none", nextPreempt |-> FALSE,
   feedback |-> FALSE, result |-> NoAnswer]

Disown(o) == IF o = "mine" THEN "old" ELSE o

\* The client stops following its goal.  Only an answer that is still going to be
\* read is worth keeping, so a client that has moved on drops it.
Abandon(l) ==
  [l EXCEPT !.client = NoAnswer, !.feedback = FALSE, !.result = NoAnswer,
            !.goal = Disown(@), !.run = Disown(@), !.next = Disown(@)]

\* sendGoal: an earlier goal still in flight reaches the server first.
SendGoal(l) ==
  LET arrived == l.goal # "none"
  IN  [Abandon(l) EXCEPT !.client = Waiting, !.goal = "mine",
                         !.preempt = @ \/ (arrived /\ l.run # "none"),
                         !.next = IF arrived THEN "old" ELSE @,
                         !.nextPreempt = @ /\ ~arrived]

\* A server that holds no goal, and is about to get none, has nothing to cancel.
Quiet(l) == l.goal = "none" /\ l.run = "none" /\ l.next = "none"

CancelAll(l) == [l EXCEPT !.cancel = @ \/ ~Quiet(l)]

\* A goal preempts the one being served and replaces the one that waits.
TakeGoal(l) ==
  [l EXCEPT !.goal = "none", !.preempt = @ \/ l.run # "none",
            !.next = l.goal, !.nextPreempt = FALSE]

\* A cancel-all reaches the goals the server holds, and no later one.
TakeCancel(l) ==
  [l EXCEPT !.cancel = FALSE, !.preempt = @ \/ l.run # "none",
            !.nextPreempt = @ \/ l.next # "none"]

CanBegin(l) == l.run = "none" /\ l.next # "none"

Begin(l) ==
  [l EXCEPT !.run = l.next, !.preempt = l.nextPreempt,
            !.next = "none", !.nextPreempt = FALSE]

Busy(l) == l.run # "none"

Answer(l, r) ==
  [l EXCEPT !.run = "none", !.preempt = FALSE,
            !.result = IF l.run = "mine" THEN r ELSE @]

Say(l) == [l EXCEPT !.feedback = @ \/ l.run = "mine"]

Hear(l) == [l EXCEPT !.feedback = FALSE]

CanRead(l) == l.result # NoAnswer

Read(l) == [l EXCEPT !.client = l.result, !.result = NoAnswer]
================================================================================
