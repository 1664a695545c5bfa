----------------------------- MODULE PathFollower -----------------------------
(***************************************************************************)
(* The follower of executor/src/PathFollower.cpp: it cuts a joint path     *)
(* into waypoints, hands out one per tick, and judges from the readings it *)
(* is given whether the arm keeps up.  It has no state of its own here:    *)
(* every operator takes a follower (a record) and gives the next one.      *)
(*                                                                         *)
(* Joint positions are integers, in a unit that makes every cut exact.     *)
(***************************************************************************)
EXTENDS Integers, Sequences, SequencesExt

CONSTANTS
  Moved,           \* the joints a path moves
  MaxStep,         \* max_joint_step
  Tolerance,       \* arrival_tolerance
  MinStep,         \* blocked_min_commanded_step
  FollowShare,     \* one over blocked_min_follow_fraction
  Strikes,         \* blocked_strikes
  ArrivalTimeout   \* in steps of the clock

ASSUME FollowAssumption ==
  /\ IsFiniteSet(Moved) /\ Moved # {}
  /\ {MaxStep, Tolerance, MinStep, FollowShare, Strikes} \subseteq Nat \ {0}
  /\ ArrivalTimeout \in Nat

Pose == [Moved -> Int]

Distance(a, b) == IF a < b THEN b - a ELSE a - b
Least(a, b) == IF a < b THEN a ELSE b

-------------------------------------------------------------------------------
\* load: the straight lines between corners, cut so that no joint moves further than
\* max_joint_step at once.  The first corner is where the arm already is.

\* The least number of cuts for which no joint of the line goes too far at once.
Cuts(from, to) ==
  CHOOSE n \in 1..(1 + Max({Distance(from[j], to[j]) : j \in Moved})) :
    /\ \A j \in Moved : Distance(from[j], to[j]) <= n * MaxStep
    /\ n > 1 => \E j \in Moved : Distance(from[j], to[j]) > (n - 1) * MaxStep

Line(from, to) ==
  LET n == Cuts(from, to)
  IN  [s \in 1..n |-> [j \in Moved |-> from[j] + ((to[j] - from[j]) * s) \div n]]

Waypoints(corners) ==
  FlattenSeq([k \in 1..(Len(corners) - 1) |-> Line(corners[k], corners[k + 1])])

States == {"SENDING", "SETTLING", "REACHED", "STALLED", "BLOCKED"}

\* A follower is made anew for every goal.
Load(corners) ==
  LET path == Waypoints(corners)
  IN  [path |-> path, sent |-> 0, strikes |-> 0,
       state |-> IF path = <<>> THEN "REACHED" ELSE "SENDING",
       settlingFor |-> 0,
       now |-> corners[1], haveNow |-> FALSE,
       previous |-> corners[1], havePrevious |-> FALSE, unjudged |-> FALSE]

\* One joint reading, not looked at before; and a reading too old to go by.
Measure(f, pose) == [f EXCEPT !.now = pose, !.haveNow = TRUE, !.unjudged = TRUE]

LoseMeasurement(f) ==
  [f EXCEPT !.haveNow = FALSE, !.havePrevious = FALSE, !.unjudged = FALSE, !.strikes = 0]
-------------------------------------------------------------------------------
\* tick

\* Mutant: one joint at the goal is enough.
OneArrived(f) ==
  /\ f.haveNow
  /\ \E j \in Moved : Distance(f.now[j], Last(f.path)[j]) <= Tolerance

Arrived(f) ==
  /\ f.haveNow
  /\ \A j \in Moved : Distance(f.now[j], Last(f.path)[j]) <= Tolerance

\* While sending: a joint asked to move that barely moved since the last reading.
JointNotFollowing(f) ==
  /\ f.haveNow /\ f.havePrevious /\ f.sent >= 2
  /\ \E j \in Moved :
       LET asked == Distance(f.path[f.sent][j], f.path[f.sent - 1][j])
       IN  /\ asked >= MinStep
           /\ Distance(f.now[j], f.previous[j]) * FollowShare < asked

\* While settling: a joint still far from the goal that barely closed in on it.
JointNotClosingIn(f) ==
  /\ f.haveNow /\ f.havePrevious
  /\ \E j \in Moved :
       LET goal == Last(f.path)[j]
           before == Distance(goal, f.previous[j])
           owed == Least(before - Tolerance, MaxStep)
       IN  /\ owed >= MinStep
           /\ (before - Distance(goal, f.now[j])) * FollowShare < owed

\* Mutant: one strike more than it takes.
StrikeOneMore(f, failing) ==
  IF failing /\ f.strikes + 1 > Strikes
  THEN [f EXCEPT !.strikes = @ + 1, !.state = "BLOCKED"]
  ELSE [f EXCEPT !.strikes = IF failing THEN @ + 1 ELSE 0,
                 !.previous = f.now, !.havePrevious = f.haveNow]

\* Consecutive readings with a joint that does not follow mean that it hit something.
Strike(f, failing) ==
  IF failing /\ f.strikes + 1 >= Strikes
  THEN [f EXCEPT !.strikes = @ + 1, !.state = "BLOCKED"]
  ELSE [f EXCEPT !.strikes = IF failing THEN @ + 1 ELSE 0,
                 !.previous = f.now, !.havePrevious = f.haveNow]

\* Mutant: the last reading is judged at every tick.
JudgeAgain(f, failing) ==
  IF f.haveNow THEN Strike([f EXCEPT !.unjudged = FALSE], failing) ELSE f

\* Mutant: a tick without a new reading takes the strikes back.
JudgeOrForgive(f, failing) ==
  Strike([f EXCEPT !.unjudged = FALSE], f.unjudged /\ failing)

\* A reading is judged once: the tick that judges it uses it up.
Judge(f, failing) ==
  IF f.unjudged THEN Strike([f EXCEPT !.unjudged = FALSE], failing) ELSE f

Sends(f) == f.state = "SENDING" /\ Judge(f, JointNotFollowing(f)).state # "BLOCKED"
Target(f) == f.path[f.sent + 1]

\* Mutant: the last waypoint is not sent.
SendAllButLast(f) ==
  IF f.state = "BLOCKED" THEN f
  ELSE [f EXCEPT !.sent = @ + 1,
                 !.state = IF f.sent + 2 >= Len(f.path) THEN "SETTLING" ELSE @]

SendOne(f) ==
  IF f.state = "BLOCKED" THEN f
  ELSE [f EXCEPT !.sent = @ + 1,
                 !.state = IF f.sent + 1 >= Len(f.path) THEN "SETTLING" ELSE @]

\* Mutant: the clock of the arrival starts again at every tick.
GiveUpLater(f) ==
  IF f.state # "BLOCKED" /\ f.settlingFor > ArrivalTimeout
  THEN [f EXCEPT !.state = "STALLED"] ELSE [f EXCEPT !.settlingFor = 0]

GiveUpInTime(f) ==
  IF f.state # "BLOCKED" /\ f.settlingFor > ArrivalTimeout
  THEN [f EXCEPT !.state = "STALLED"] ELSE f

Tick(f) ==
  IF f.state = "SENDING" THEN SendOne(Judge(f, JointNotFollowing(f)))
  ELSE IF f.state # "SETTLING" THEN f
  ELSE IF Arrived(f) THEN [f EXCEPT !.state = "REACHED", !.unjudged = FALSE]
  ELSE GiveUpInTime(Judge(f, JointNotClosingIn(f)))
================================================================================
