-------------------------------- MODULE Park --------------------------------
(***************************************************************************)
(* The park node (park/src/ParkNode.cpp): a goal searches for a spot from   *)
(* which the arm gets at the scene, compares it with staying, latches the   *)
(* scene and drives.  The goal runs on a thread of its own; the reset       *)
(* service and the timer that broadcasts the vehicle's pose run on the      *)
(* spinner's two threads and share where_ and the scene with it.            *)
(*                                                                          *)
(* What the reach table and the collision check say of a spot is a Verdict  *)
(* of the goal's world, and any verdicts their code can give are tried.     *)
(* Poses are lattice points with a yaw in quarter turns; z, which no        *)
(* rotation mixes with the rest, is left out.                               *)
(***************************************************************************)
EXTENDS Integers, FiniteSets

CONSTANTS
  Displacements,   \* spots the search can offer, seen from the vehicle
  Verdicts,        \* what verify can say of a spot
  Obstacles,       \* sets of displacements at which the arm as it is held hits the scene
  TravelCost,      \* grasps a unit of driving is worth giving up
  MinRoutable,     \* routes a spot must have before anything moves
  VerifyExact,     \* screened spots that are checked exactly
  TransitSamples,  \* points of a drive that are checked, less one
  MaxGoals, MaxResets  \* bounds on goals and on resets

Origin == [x |-> 0, y |-> 0, yaw |-> 0]
Poses == [x : Int, y : Int, yaw : Int]

\* screened: held at the screening stride, which misses contacts; solid: held at full
\* fidelity; routes: those with a straight route, at the stride; solidRoutes: exactly.
VerdictType == [screened : Nat, solid : Nat, routes : Nat, solidRoutes : Nat]

ASSUME SpotsAssumption ==
  /\ Displacements \subseteq Poses
  /\ \A o \in Obstacles : o \subseteq Poses
ASSUME VerdictsAssumption ==
  /\ Verdicts \subseteq VerdictType
  /\ \A v \in Verdicts : v.solid <= v.screened /\ v.routes <= v.screened
                         /\ v.solidRoutes <= v.solid /\ v.solidRoutes <= v.routes
ASSUME SettingsAssumption ==
  /\ TravelCost \in Nat /\ MinRoutable \in Nat /\ VerifyExact \in Nat
  /\ TransitSamples \in Nat \ {0} /\ MaxGoals \in Nat /\ MaxResets \in Nat

\* The offset (x, y) seen from outside a frame that has turned by yaw quarters.
Turned(x, y, yaw) ==
  LET quarter == yaw % 4 IN
  CASE quarter = 0 -> <<x, y>>
    [] quarter = 1 -> <<-y, x>>
    [] quarter = 2 -> <<-x, -y>>
    [] OTHER -> <<y, -x>>

\* Mutant of Compose: the displacement taken for one in the locked frame.
ComposeUnturned(p, d) == [x |-> p.x + d.x, y |-> p.y + d.y, yaw |-> p.yaw + d.yaw]

\* Where a displacement from p leads.
Compose(p, d) ==
  LET offset == Turned(d.x, d.y, p.yaw) IN
  [x |-> p.x + offset[1], y |-> p.y + offset[2], yaw |-> p.yaw + d.yaw]

\* Where w stands as seen from p, which is how an obstacle map built at p is asked.
SeenFrom(p, w) ==
  LET offset == Turned(w.x - p.x, w.y - p.y, -p.yaw) IN
  [x |-> offset[1], y |-> offset[2], yaw |-> w.yaw - p.yaw]

Along(from, to, n, parts) ==
  [x |-> from.x + ((to.x - from.x) * n) \div parts,
   y |-> from.y + ((to.y - from.y) * n) \div parts,
   yaw |-> from.yaw + ((to.yaw - from.yaw) * n) \div parts]

Larger(a, b) == IF a > b THEN a ELSE b
Size(a) == IF a < 0 THEN -a ELSE a
Travel(d) == Larger(Size(d.x), Size(d.y))

\* The steps of a drive: a lattice unit or a quarter turn in each.
Steps(from, to) == Larger(Travel([x |-> to.x - from.x, y |-> to.y - from.y]), Size(to.yaw - from.yaw))

\* Mutant of TransitClear: only the end is looked at.
ClearAtTheEnd(from, to, obstacles) == to \notin obstacles

\* Whether the arm is clear of the obstacles at the points looked at between two poses,
\* both taken as displacements in the map's frame.
TransitClear(from, to, obstacles) ==
  \A n \in 0..TransitSamples : Along(from, to, n, TransitSamples) \notin obstacles

Options == {Origin} \cup Displacements

Nothing == [screened |-> 0, solid |-> 0, routes |-> 0, solidRoutes |-> 0]

NoPose == [x |-> 0, y |-> 0, yaw |-> 0, none |-> TRUE]

-----------------------------------------------------------------------------
(* The search of one goal.  verdict is what verify says of each spot, and   *)
(* clear the spots that transitClear lets the vehicle drive to.             *)

\* What is screened of the shortlist before the budget runs out: staying comes first,
\* so it is screened unless nothing is.
Screened == {{}} \cup {{Origin} \cup s : s \in SUBSET Displacements}

\* What is checked exactly: the first VerifyExact of those that hold something at the
\* screening stride, std::sort leaving equals in any order.
Ranked(s, verdict) == {o \in s : verdict[o].screened > 0}
Exact(s, verdict) ==
  {e \in SUBSET Ranked(s, verdict) :
     /\ Cardinality(e) <= VerifyExact
     /\ Cardinality(e) = VerifyExact \/ e = Ranked(s, verdict)
     /\ \A o \in e, p \in Ranked(s, verdict) \ e : verdict[o].screened >= verdict[p].screened}

Value(o, v) == v.solid - TravelCost * Travel(o)

\* More routes first, then more value.
Beats(o, p, verdict) ==
  \/ verdict[o].routes > verdict[p].routes
  \/ /\ verdict[o].routes = verdict[p].routes
     /\ Value(o, verdict[o]) > Value(p, verdict[p])

\* Of those that can be driven to and hold something, the ones that no other beats; of
\* equals the one that is ranked first.
Bests(sound, verdict) ==
  {o \in sound : \A p \in sound :
     /\ ~Beats(p, o, verdict)
     /\ Beats(o, p, verdict) \/ verdict[o].screened >= verdict[p].screened}

\* Mutant of StayWins: what staying holds is not looked at.
StayWinsByRoutes(v, routes, value) == v.solidRoutes > routes

\* Staying is checked exactly too, and compared with the routes and the value found.
StayWins(v, routes, value) ==
  v.solidRoutes > routes \/ (v.solidRoutes = routes /\ v.solid > value)

Choice(found, o, routes, verdict) ==
  [found |-> found, pose |-> o, routes |-> routes, spot |-> verdict[o], staying |-> verdict[Origin]]
Stay(verdict) == Choice(TRUE, Origin, verdict[Origin].solidRoutes, verdict)

ChoicesOf(sound, verdict) ==
  IF sound = {}
  THEN {IF StayWins(verdict[Origin], 0, 0) THEN Stay(verdict) ELSE Choice(FALSE, Origin, 0, verdict)}
  ELSE {IF StayWins(verdict[Origin], verdict[o].routes, Value(o, verdict[o]))
        THEN Stay(verdict) ELSE Choice(TRUE, o, verdict[o].routes, verdict) : o \in Bests(sound, verdict)}

\* What a goal can settle on, with the spots it can drive to, for every verdict of verify.
Choices ==
  UNION {UNION {{clear} \X ChoicesOf({o \in e \cap clear : verdict[o].solid > 0}, verdict) :
                e \in UNION {Exact(s, verdict) : s \in Screened}} :
         clear \in SUBSET Options, verdict \in [Options -> Verdicts]}

-----------------------------------------------------------------------------
VARIABLES
  where,      \* the vehicle's pose in the locked frame
  scene,      \* whether the scene is locked, and where the vehicle stood then
  stage,      \* where the goal's thread is
  preempt,    \* whether the client has asked it to stop
  before,     \* where the vehicle stood when the goal looked
  chosen,     \* the displacement it has chosen
  spot, staying, obstacles,  \* what it saw there, where it stood, and in between
  start, target, step,       \* its drive
  outcome,    \* how the last goal ended
  resetting,  \* where the reset service is
  disturbed,  \* whether a reset has written where_ or the scene since the goal came
  tick,       \* the pose the timer has read and not sent yet
  tf,         \* what listeners have been told last
  goals, resets

searchVars == <<before, chosen, spot, staying, obstacles>>
driveVars == <<start, target, step>>
resetVars == <<resetting, resets>>
tfVars == <<tick, tf>>
vars == <<where, scene, stage, preempt, searchVars, driveVars, outcome, resetVars, disturbed,
          tfVars, goals>>

Unlocked == [locked |-> FALSE, at |-> Origin]

Init ==
  /\ where = Origin /\ scene = Unlocked
  /\ stage = "idle" /\ preempt = FALSE /\ outcome = "none"
  /\ before = Origin /\ chosen = Origin /\ spot = Nothing /\ staying = Nothing /\ obstacles = {}
  /\ start = Origin /\ target = Origin /\ step = 0
  /\ resetting = "no" /\ disturbed = FALSE
  /\ tick = NoPose /\ tf = [body |-> Origin, scene |-> NoPose]
  /\ goals = 0 /\ resets = 0

-----------------------------------------------------------------------------
(* The goal's thread.                                                       *)

OnPark ==
  /\ stage = "idle" /\ goals < MaxGoals
  /\ stage' = "searching" /\ preempt' = FALSE /\ outcome' = "none" /\ disturbed' = FALSE
  /\ goals' = goals + 1
  /\ UNCHANGED <<where, scene, searchVars, driveVars, resetVars, tfVars>>

\* Whatever the goal ends with, what it worked out goes with its callback.
Ends(how) ==
  /\ stage' = "idle" /\ outcome' = how
  /\ spot' = Nothing /\ staying' = Nothing /\ obstacles' = {}
  /\ start' = Origin /\ target' = Origin /\ step' = 0

\* The cloud is in another frame, or its obstacle map cannot be used.
Refuse ==
  /\ stage = "searching"
  /\ Ends("aborted")
  /\ UNCHANGED <<where, scene, preempt, before, chosen, resetVars, disturbed, tfVars, goals>>

ReadWhere ==
  /\ stage = "searching"
  /\ before' = where
  /\ stage' = "verifying"
  /\ UNCHANGED <<where, scene, preempt, chosen, spot, staying, obstacles, driveVars, outcome, resetVars,
                 disturbed, tfVars, goals>>

\* The obstacle map of the goal says which spots can be driven to; what it says of each
\* spot decides the rest.
Found(o) ==
  LET clear == {d \in Options : TransitClear(before, d, o)}
  IN {entry[2] : entry \in {x \in Choices : x[1] = clear}}

Decline ==
  /\ stage = "verifying"
  /\ \E o \in Obstacles : \E c \in Found(o) : ~c.found \/ c.routes < MinRoutable
  /\ Ends("declined")
  /\ UNCHANGED <<where, scene, preempt, before, chosen, resetVars, disturbed, tfVars, goals>>

LockScene(at) == scene' = [locked |-> TRUE, at |-> at]

Choose ==
  /\ stage = "verifying"
  /\ \E o \in Obstacles : \E c \in Found(o) :
       /\ c.found /\ c.routes >= MinRoutable
       /\ chosen' = c.pose /\ target' = Compose(before, c.pose)
       /\ spot' = c.spot /\ staying' = c.staying /\ obstacles' = o
  /\ LockScene(before)
  /\ stage' = "chosen"
  /\ UNCHANGED <<where, preempt, before, start, step, outcome, resetVars, disturbed, tfVars, goals>>

\* walkTo: a target the vehicle stands on already is not a drive.
SetOff ==
  /\ stage = "chosen"
  /\ IF where = target THEN Ends("settled")
     ELSE /\ stage' = "driving" /\ start' = where
          /\ UNCHANGED <<spot, staying, obstacles, outcome, target, step>>
  /\ UNCHANGED <<where, scene, preempt, before, chosen, resetVars, disturbed, tfVars, goals>>

\* Mutant of Walk: one step too many.
WalkPast ==
  /\ stage = "driving" /\ step <= Steps(start, target) /\ ~preempt
  /\ step' = step + 1
  /\ where' = Along(start, target, step', Steps(start, target))
  /\ UNCHANGED <<scene, stage, preempt, searchVars, start, target, outcome, resetVars, disturbed, tfVars, goals>>

Walk ==
  /\ stage = "driving" /\ step < Steps(start, target) /\ ~preempt
  /\ step' = step + 1
  /\ where' = Along(start, target, step', Steps(start, target))
  /\ UNCHANGED <<scene, stage, preempt, searchVars, start, target, outcome, resetVars, disturbed, tfVars, goals>>

Stop ==
  /\ stage = "driving" /\ step < Steps(start, target) /\ preempt
  /\ Ends("preempted")
  /\ UNCHANGED <<where, scene, preempt, before, chosen, resetVars, disturbed, tfVars, goals>>

Arrive ==
  /\ stage = "driving" /\ step = Steps(start, target)
  /\ Ends("settled")
  /\ UNCHANGED <<where, scene, preempt, before, chosen, resetVars, disturbed, tfVars, goals>>

GoalThread == Refuse \/ ReadWhere \/ Decline \/ Choose \/ SetOff \/ Walk \/ Stop \/ Arrive

\* The client cancels, or sends another goal.
Preempt ==
  /\ stage # "idle" /\ ~preempt
  /\ preempt' = TRUE
  /\ UNCHANGED <<where, scene, stage, searchVars, driveVars, outcome, resetVars, disturbed, tfVars, goals>>

-----------------------------------------------------------------------------
(* The spinner's threads.                                                   *)

\* Mutant of Sent: the scene is left out.
SentWithoutScene(pose) == [body |-> pose, scene |-> tf.scene]

\* What a broadcast of a pose tells: the scene only while it is locked.
Sent(pose) == [body |-> pose, scene |-> IF scene.locked THEN scene.at ELSE tf.scene]

\* onReset asks whether a park runs, then writes where_ and the scene under their locks.
ResetAsks ==
  /\ resetting = "no" /\ resets < MaxResets
  /\ stage = "idle"
  /\ resetting' = "asked" /\ resets' = resets + 1
  /\ UNCHANGED <<where, scene, stage, preempt, searchVars, driveVars, outcome, disturbed, tfVars, goals>>

ResetMoves ==
  /\ resetting = "asked"
  /\ where' = Origin
  /\ resetting' = "moved"
  /\ disturbed' = TRUE
  /\ UNCHANGED <<scene, stage, preempt, searchVars, driveVars, outcome, resets, tfVars, goals>>

ResetForgets ==
  /\ resetting = "moved"
  /\ scene' = [scene EXCEPT !.locked = FALSE]
  /\ resetting' = "forgot" /\ disturbed' = TRUE
  /\ UNCHANGED <<where, stage, preempt, searchVars, driveVars, outcome, resets, tfVars, goals>>

ResetTells ==
  /\ resetting = "forgot"
  /\ tf' = Sent(Origin)
  /\ resetting' = "no"
  /\ UNCHANGED <<where, scene, stage, preempt, searchVars, driveVars, outcome, resets, disturbed, tick, goals>>

OnReset == ResetAsks \/ ResetMoves \/ ResetForgets \/ ResetTells

\* onTick copies where_ under its lock and broadcasts the copy without it.
TickReads ==
  /\ tick = NoPose
  /\ tick' = where
  /\ UNCHANGED <<where, scene, stage, preempt, searchVars, driveVars, outcome, resetVars, disturbed, tf, goals>>

TickSends ==
  /\ tick # NoPose
  /\ tf' = Sent(tick)
  /\ tick' = NoPose
  /\ UNCHANGED <<where, scene, stage, preempt, searchVars, driveVars, outcome, resetVars, disturbed, goals>>

OnTick == TickReads \/ TickSends

Next == OnPark \/ GoalThread \/ Preempt \/ OnReset \/ OnTick

\* The timer fires for as long as the node spins.
Spec == Init /\ [][Next]_vars /\ WF_vars(OnTick)

-----------------------------------------------------------------------------
(* Properties.                                                              *)

Stages == {"idle", "searching", "verifying", "chosen", "driving"}

\* The variables keep to what the node can hold: where_ is a pose, a drive is at one of
\* its steps, and what listeners know is a pose.
TypeOK ==
  /\ where \in Poses /\ scene \in [locked : BOOLEAN, at : Poses]
  /\ stage \in Stages /\ preempt \in BOOLEAN
  /\ before \in Poses /\ chosen \in Options
  /\ {spot, staying} \subseteq Verdicts \cup {Nothing} /\ obstacles \in Obstacles \cup {{}}
  /\ start \in Poses /\ target \in Poses /\ step \in 0..Steps(start, target)
  /\ outcome \in {"none", "aborted", "declined", "settled", "preempted"}
  /\ resetting \in {"no", "asked", "moved", "forgot"} /\ disturbed \in BOOLEAN
  /\ tick \in Poses \cup {NoPose} /\ tf.body \in Poses /\ tf.scene \in Poses \cup {NoPose}
  /\ goals \in 0..MaxGoals /\ resets \in 0..MaxResets

Committed == stage \in {"chosen", "driving"}

\* What moves the vehicle is a spot where the arm holds something with the whole of its
\* body and has the routes that are asked for, and which is no worse than where it
\* stands, whatever the screening took it for and wherever the budget cut it short
\* (onPark, from the verify loop to the comparison with staying).
NeverWorseThanStaying ==
  (Committed /\ chosen # Origin) =>
    /\ spot.solid > 0 /\ spot.routes >= MinRoutable
    /\ \/ spot.routes > staying.solidRoutes
       \/ spot.routes = staying.solidRoutes /\ Value(chosen, spot) >= staying.solid

\* At every point of the drive that transit_samples stands for the arm is clear of the
\* scene, which is a map built where the vehicle stood (transitClear, walkTo).
DriveIsClear ==
  stage = "driving" =>
    \A n \in 0..TransitSamples :
      SeenFrom(before, Along(start, target, n, TransitSamples)) \notin obstacles

\* A drive from the origin is clear of the scene all the way (transitClear): the
\* one case in which the displacement and the locked frame are the same.
FirstDriveIsClear == before = Origin => DriveIsClear

\* A park that has settled has the vehicle at the spot that was chosen from where it
\* stood when the scene was measured, and the scene locked there; a reset that came in
\* between can only have taken the vehicle to the origin or unlocked the scene (onPark,
\* walkTo, lockScene, onReset).
SettlesWhereChosen ==
  outcome = "settled" =>
    /\ SeenFrom(before, where) = chosen \/ (disturbed /\ where = Origin)
    /\ scene.at = before /\ (scene.locked \/ disturbed)

\* However the timer's copy of where_, a drive and a reset overtake one another,
\* listeners are told the truth again (onTick, broadcast).
ListenersCatchUp ==
  []<>(tf.body = where /\ (scene.locked => tf.scene = scene.at))

=============================================================================
