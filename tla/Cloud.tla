--------------------------------- MODULE Cloud ---------------------------------
(***************************************************************************)
(* The cloud node (cloud/src/CloudNode.cpp): a collect gathers a window of  *)
(* frames, each a point cloud and its grasp poses, and hands it to the     *)
(* pipeline.  Two spinner threads bring clouds and poses, a third runs the *)
(* goal; they share the frames under one mutex, which the goal takes twice *)
(* in one turn of its loop.                                                *)
(*                                                                         *)
(* A stamp is the number of the shot, 0 for no message.  What toFrame makes *)
(* of a pair is free: a usable frame, one with no poses, or an error.      *)
(***************************************************************************)
EXTENDS Integers, FiniteSets, SequencesExt

CONSTANTS
  FramesToCollect,   \* frames_to_collect
  Needed,            \* frames of one window: FramesToCollect when averaging, otherwise 1
  FrameTimeout,      \* frame_timeout_s, in steps of the clock
  MaxShots           \* bound: shots the camera takes

ASSUME CloudAssumption ==
  /\ FramesToCollect \in Nat \ {0} /\ Needed \in {1, FramesToCollect}
  /\ FrameTimeout \in Nat \ {0} /\ MaxShots \in Nat

Stamps == 1..MaxShots
NoMessage == 0
Topics == {"cloud", "poses"}
Pairings == {"usable", "poseless", "unusable"}
Problems == {"none", "unpaired", "poseless", "unusable"}

VARIABLES
  subscribed, halves,        \* halves: latest_cloud_ and latest_poses_
  frames, problem, poseless, \* frames_, frame_problem_, poseless_
  run,                       \* "idle", "collecting", or "judging": between the two locks
  collected, told,           \* what the last look saw: frames_collected, problem
  waited,                    \* time since the goal
  preempt,                   \* isPreemptRequested()
  outcome, used,             \* how the last collect ended, and the frames it used
  shots, posed,              \* shots taken, and the last one that vision has looked at
  queue,                     \* the message that waits on each topic
  heard,                     \* history: every message handled, in order
  mark, lookedAt, judgedAt   \* history: its length at the goal, the last look, the verdict

buffer == <<halves, frames, problem, poseless>>
goal == <<run, collected, told, waited, outcome, used>>
world == <<shots, posed, queue>>
marks == <<mark, lookedAt, judgedAt>>
vars == <<subscribed, buffer, goal, preempt, world, heard, marks>>

Init ==
  /\ subscribed = FALSE /\ halves = [t \in Topics |-> NoMessage]
  /\ frames = <<>> /\ problem = "none" /\ poseless = 0
  /\ run = "idle" /\ collected = 0 /\ told = "none" /\ waited = 0 /\ preempt = FALSE
  /\ outcome = "none" /\ used = <<>>
  /\ shots = 0 /\ posed = 0 /\ queue = [t \in Topics |-> NoMessage]
  /\ heard = <<>> /\ mark = 0 /\ lookedAt = 0 /\ judgedAt = 0

------------------------------------------------------------------------------
\* The camera and vision.  A queue is one deep: what nobody has taken yet is replaced.

Publish(topic, stamp) ==
  queue' = IF subscribed THEN [queue EXCEPT ![topic] = stamp] ELSE queue

Shoot ==
  /\ shots < MaxShots
  /\ shots' = shots + 1
  /\ Publish("cloud", shots')
  /\ UNCHANGED <<subscribed, buffer, goal, preempt, posed, heard, marks>>

\* Vision takes its time, and may leave shots out.
See ==
  \E stamp \in (posed + 1)..shots :
    /\ posed' = stamp
    /\ Publish("poses", stamp)
    /\ UNCHANGED <<subscribed, buffer, goal, preempt, shots, heard, marks>>

------------------------------------------------------------------------------
\* The subscribers.

\* Mutants: every frame fits; the frame that does not is the new one.
Untrimmed(window) == window
TrimmedAtTheEnd(window) ==
  IF Len(window) > FramesToCollect THEN Front(window) ELSE window

Trimmed(window) ==
  IF Len(window) > FramesToCollect THEN Tail(window) ELSE window

\* Mutant: a new frame goes in front.
PairInFront(stamp, pairing) ==
  /\ halves' = [t \in Topics |-> NoMessage]
  /\ frames' = IF pairing = "usable" THEN Trimmed(<<stamp>> \o frames) ELSE frames
  /\ problem' = IF pairing = "usable" THEN problem ELSE pairing
  /\ poseless' = IF pairing = "poseless" THEN poseless + 1 ELSE poseless

\* pairLatest: both halves are at hand, and have one stamp.
Pair(stamp, pairing) ==
  /\ halves' = [t \in Topics |-> NoMessage]
  /\ frames' = IF pairing = "usable" THEN Trimmed(Append(frames, stamp)) ELSE frames
  /\ problem' = IF pairing = "usable" THEN problem ELSE pairing
  /\ poseless' = IF pairing = "poseless" THEN poseless + 1 ELSE poseless

\* They have not, or one of them is missing.
Keep(latest) ==
  /\ halves' = latest
  /\ problem' = IF \A t \in Topics : latest[t] # NoMessage THEN "unpaired" ELSE problem
  /\ UNCHANGED <<frames, poseless>>

\* onCloud, onGraspPoses
OnMessage(topic) ==
  LET stamp == queue[topic]
      latest == [halves EXCEPT ![topic] = stamp]
  IN  /\ stamp # NoMessage
      /\ queue' = [queue EXCEPT ![topic] = NoMessage]
      /\ \E pairing \in Pairings :
           /\ IF \A t \in Topics : latest[t] = stamp THEN Pair(stamp, pairing)
              ELSE pairing = "unusable" /\ Keep(latest)
           /\ heard' = Append(heard, [topic |-> topic, stamp |-> stamp, pairing |-> pairing])
      /\ UNCHANGED <<subscribed, goal, preempt, shots, posed, marks>>

------------------------------------------------------------------------------
\* The goal.

\* Mutants: what went wrong for the last goal, or how many pairs without poses it had, is
\* not forgotten.
ClearedButProblem == frames' = <<>> /\ UNCHANGED problem /\ poseless' = 0
ClearedButPoseless == frames' = <<>> /\ problem' = "none" /\ UNCHANGED poseless

\* What a goal begins with.
Cleared == frames' = <<>> /\ problem' = "none" /\ poseless' = 0

OnCollect ==
  /\ run = "idle"
  /\ run' = "collecting" /\ waited' = 0 /\ preempt' = FALSE
  /\ outcome' = "none" /\ used' = <<>> /\ collected' = 0 /\ told' = "none"
  /\ Cleared
  /\ subscribed' = TRUE
  /\ mark' = Len(heard) /\ lookedAt' = Len(heard) /\ judgedAt' = Len(heard)
  /\ UNCHANGED <<halves, world, heard>>

Cancel ==
  /\ run # "idle" /\ ~preempt
  /\ preempt' = TRUE
  /\ UNCHANGED <<subscribed, buffer, goal, world, heard, marks>>

Finish(how) == run' = "idle" /\ outcome' = how

\* The first lock of a turn: a whole window is enough, whatever else is the case.
Look ==
  /\ run = "collecting"
  /\ collected' = Len(frames) /\ told' = problem
  /\ lookedAt' = Len(heard)
  /\ IF Len(frames) >= Needed
     THEN /\ Finish("cloud")
          /\ used' = SubSeq(frames, Len(frames) - Needed + 1, Len(frames))
     ELSE /\ run' = "judging"
          /\ UNCHANGED <<outcome, used>>
  /\ UNCHANGED <<subscribed, buffer, waited, preempt, world, heard, mark, judgedAt>>

NothingInView == poseless > 0 /\ collected = 0

\* Mutant: the deadline is for the first frame.
ExpiredEmpty == waited > FrameTimeout /\ collected = 0

Expired == waited > FrameTimeout

\* The rest of the turn, with the second lock.
Judge ==
  /\ run = "judging"
  /\ judgedAt' = Len(heard)
  /\ \/ preempt /\ Finish("preempted")
     \/ ~preempt /\ Expired /\ NothingInView /\ Finish("empty")
     \/ ~preempt /\ Expired /\ ~NothingInView /\ Finish("failed")
     \/ ~preempt /\ ~Expired /\ run' = "collecting" /\ UNCHANGED outcome
  /\ UNCHANGED <<subscribed, buffer, collected, told, waited, preempt, used, world, heard,
                 mark, lookedAt>>

Elapse ==
  /\ run # "idle" /\ waited <= FrameTimeout
  /\ waited' = waited + 1
  /\ UNCHANGED <<subscribed, buffer, run, collected, told, preempt, outcome, used, world,
                 heard, marks>>

Next ==
  \/ Shoot \/ See \/ \E topic \in Topics : OnMessage(topic)
  \/ OnCollect \/ Cancel \/ Look \/ Judge \/ Elapse

Spec == Init /\ [][Next]_vars

\* The goal's thread runs and time passes.  Nothing is owed by the camera.
Fairness == WF_vars(Look) /\ WF_vars(Judge) /\ WF_vars(Elapse)
FairSpec == Spec /\ Fairness

------------------------------------------------------------------------------
\* What came, told from the messages alone.

Between(first, last) == (first + 1)..last

\* The other half that was at hand when message i came: the last message of the other
\* topic, unless a pair was made since.
Partner(i) ==
  LET Others == {k \in 1..(i - 1) : heard[k].topic # heard[i].topic}
  IN  IF Others = {} THEN 0 ELSE Max(Others)

Pairs(i) == Partner(i) # 0 /\ heard[Partner(i)].stamp = heard[i].stamp
Misses(i) ==
  /\ Partner(i) # 0 /\ ~Pairs(i)
  /\ \A k \in Partner(i)..(i - 1) : ~Pairs(k)

Came(first, last, pairing) ==
  {i \in Between(first, last) : Pairs(i) /\ heard[i].pairing = pairing}

Troubles(first, last) ==
  {i \in Between(first, last) : Misses(i) \/ (Pairs(i) /\ heard[i].pairing # "usable")}

Trouble(i) == IF Misses(i) THEN "unpaired" ELSE heard[i].pairing

\* TypeOK: the shape of the state, with the length of the window in it.
TypeOK ==
  /\ subscribed \in BOOLEAN /\ preempt \in BOOLEAN
  /\ halves \in [Topics -> 0..MaxShots] /\ queue \in [Topics -> 0..MaxShots]
  /\ frames \in Seq(Stamps) /\ Len(frames) <= FramesToCollect
  /\ used \in Seq(Stamps) /\ Len(used) \in {0, Needed}
  /\ problem \in Problems /\ told \in Problems
  /\ poseless \in Nat /\ collected \in 0..FramesToCollect
  /\ run \in {"idle", "collecting", "judging"}
  /\ outcome \in {"none", "cloud", "empty", "failed", "preempted"}
  /\ waited \in 0..(FrameTimeout + 1)
  /\ posed \in 0..shots /\ shots \in 0..MaxShots

\* A collect that answers with a cloud used exactly the newest usable pairs that had come
\* since the goal: none that an earlier goal left behind, none that was pushed out
\* (pairLatest, and the frames taken at the end of onCollect's loop).
WindowIsNewest ==
  outcome = "cloud" =>
    LET usable == Came(mark, lookedAt, "usable")
    IN  /\ Cardinality(usable) >= Needed
        /\ \A i \in usable :
             heard[i].stamp \in ToSet(used) <=> Cardinality({k \in usable : k > i}) < Needed

\* The frames of a collect are as many different shots as it needs, in the order they were
\* taken: averaging never counts one shot twice (the halves that pairLatest resets).
FramesAreInOrder ==
  /\ outcome = "cloud" => Len(used) = Needed
  /\ \A m, n \in 1..Len(used) : m < n => used[m] < used[n]

\* A collect that brings no cloud says why, truly.  It calls the scene empty only if pairs
\* without poses came for this goal and no usable one had at the last look: a camera with
\* nothing in view, not a silent one (finishEmpty).  It fails only if too few usable pairs had
\* come at the last look, and then not over a scene with nothing in view; and what it tells of
\* is the last thing that went wrong for this goal until that look (finishFailed).
EndIsExplained ==
  /\ outcome = "empty" =>
       /\ Came(mark, judgedAt, "poseless") # {}
       /\ Came(mark, lookedAt, "usable") = {}
  /\ outcome = "failed" =>
       /\ Cardinality(Came(mark, lookedAt, "usable")) < Needed
       /\ Came(mark, lookedAt, "usable") = {} => Came(mark, judgedAt, "poseless") = {}
       /\ told = LET troubles == Troubles(mark, lookedAt)
                 IN  IF troubles = {} THEN "none" ELSE Trouble(Max(troubles))

\* Every collect ends, whatever the camera does or leaves undone (the deadline of onCollect).
EveryCollectEnds == run # "idle" ~> run = "idle"

\* "Every collect takes its whole window fresh. Anything buffered before the goal was sent
\* may have seen the arm moving through the view" (CloudNode.cpp:164): both halves of every
\* frame of a window came after the goal.
WindowIsFresh ==
  outcome = "cloud" =>
    \A i \in Between(0, mark) : heard[i].stamp \notin ToSet(used)
================================================================================
