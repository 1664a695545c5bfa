-------------------------------- MODULE Driver --------------------------------
(***************************************************************************)
(* The driver node (driver/src/DriverNode.cpp) and the arm on its serial   *)
(* line, as driver/src/SimulatedArm.cpp stands in for it.  Every handler   *)
(* and the poll run under one mutex, so each is one action; which joint    *)
(* answers a poll, and which command can be written, is up to the line.    *)
(*                                                                         *)
(* Joints are numbered in the order a poll reads them, the jaw first.      *)
(***************************************************************************)
EXTENDS Integers, FiniteSets

CONSTANTS
  JointCount,
  Lower, Upper,    \* limits of every joint
  Home,            \* home position of each joint, the open jaw included
  HomeStep,        \* how far the home ramp moves a joint per poll
  Speed,           \* how far a joint moves in one step of the clock
  Oldest,          \* ages are not told apart beyond this
  Requests,        \* messages somebody may publish on joint_targets
  LineMayFail,     \* whether a command can fail to be written
  Released         \* what a joint was told when it was told to let go

Joints == 1..JointCount
Jaw == 1

ASSUME DriverAssumption ==
  /\ JointCount \in Nat \ {0}
  /\ Lower \in Int /\ Upper \in Int /\ Lower < Upper
  /\ Home \in [Joints -> Lower..Upper]
  /\ HomeStep \in Nat \ {0} /\ Speed \in Nat \ {0} /\ Oldest \in Nat
  /\ LineMayFail \in BOOLEAN /\ Released \notin Int

Unread == Oldest + 1
Nothing == <<>>

VARIABLES
  position, readAt,   \* what was last read of each joint, and how long ago
  homing,
  aim,                \* what each joint was last told: a position, or nothing
  arm,                \* where each joint is
  target,             \* message on its way to onJointTargets
  reading,            \* joint_states on its way to whoever listens
  standby,            \* the standby service: "idle", "called" or "answered"
  order               \* what was asked of the arm last: "move", "home", or "none" since
                      \* every joint was released

nodeVars == <<position, readAt, homing>>
driverVars == <<position, readAt, homing, aim, arm, target, reading, standby, order>>

Gap(j, p) == IF Home[j] > p THEN Home[j] - p ELSE p - Home[j]
Ahead(j, p) == IF Gap(j, p) <= HomeStep THEN Home[j]
               ELSE IF Home[j] > p THEN p + HomeStep ELSE p - HomeStep

\* main() wakes the arm and releases every joint before the node is there.
DriverInit ==
  /\ position = [j \in Joints |-> 0] /\ readAt = [j \in Joints |-> Unread]
  /\ homing = FALSE
  /\ aim = [j \in Joints |-> Released] /\ arm \in [Joints -> Lower..Upper]
  /\ target = Nothing /\ reading = Nothing /\ standby = "idle" /\ order = "none"

\* The commands that reach the arm.
Written == IF LineMayFail THEN SUBSET Joints ELSE {Joints}

Tell(wanted, written) ==
  aim' = [j \in Joints |-> IF j \in DOMAIN wanted /\ j \in written THEN wanted[j] ELSE aim[j]]

\* The stamp of a message: the oldest reading it carries.  A poll reads joint after joint,
\* so of two joints read by the same poll the earlier one is older.
OldestReading(ages) ==
  LET j == CHOOSE k \in Joints : \A l \in Joints : ages[k] > ages[l] \/ (ages[k] = ages[l] /\ k <= l)
  IN  [age |-> ages[j], place |-> j]

Publish(ages, at) ==
  reading' = IF \A j \in Joints : ages[j] # Unread
             THEN [stamp |-> OldestReading(ages), at |-> at] ELSE reading

\* Mutant: the ramp ends when one joint is near.
StepHomeOfOne(at, written) ==
  IF homing
  THEN /\ Tell([j \in Joints |-> Ahead(j, at[j])], written)
       /\ homing' = \A j \in Joints : Gap(j, at[j]) > HomeStep
  ELSE UNCHANGED <<aim, homing>>

\* The home ramp goes from where each joint was last read, until every joint is near.
StepHome(at, written) ==
  IF homing
  THEN /\ Tell([j \in Joints |-> Ahead(j, at[j])], written)
       /\ homing' = \E j \in Joints : Gap(j, at[j]) > HomeStep
  ELSE UNCHANGED <<aim, homing>>

Poll(answered, written) ==
  LET at == [j \in Joints |-> IF j \in answered THEN arm[j] ELSE position[j]]
      ages == [j \in Joints |-> IF j \in answered THEN 0 ELSE readAt[j]]
  IN  /\ position' = at /\ readAt' = ages
      /\ StepHome(at, written)
      /\ Publish(ages, at)
      /\ UNCHANGED <<arm, target, standby, order>>

\* Mutant: only the names are looked at.
LegalNames(message) == DOMAIN message \subseteq Joints

Legal(message) ==
  /\ DOMAIN message \subseteq Joints
  /\ \A j \in DOMAIN message : message[j] \in Lower..Upper

\* moveJoint for each joint of the message: the first ends the home ramp, and a command
\* that cannot be written keeps none of the others back.
OnJointTargets(written) ==
  /\ target # Nothing
  /\ target' = Nothing
  /\ IF Legal(target)
     THEN /\ Tell(target, written)
          /\ homing' = FALSE /\ order' = "move"
     ELSE UNCHANGED <<aim, homing, order>>
  /\ UNCHANGED <<position, readAt, arm, reading, standby>>

\* A ramp may not start from a position nobody has read.
OnHome ==
  /\ \A j \in Joints : readAt[j] # Unread
  /\ homing' = TRUE /\ order' = "home"
  /\ UNCHANGED <<position, readAt, aim, arm, target, reading, standby>>

\* onOpenJaw and onCloseJaw.
MoveJaw(written) ==
  /\ \E p \in {Home[Jaw], Lower} : Tell([j \in {Jaw} |-> p], written)
  /\ homing' = FALSE /\ order' = "move"
  /\ UNCHANGED <<position, readAt, arm, target, reading, standby>>

\* Mutant: standby leaves the home ramp running.
StandbyWhileHoming(written) ==
  /\ standby = "called"
  /\ standby' = "answered"
  /\ Tell([j \in Joints |-> Released], written)
  /\ order' = IF written = Joints THEN "none" ELSE order
  /\ UNCHANGED <<position, readAt, homing, arm, target, reading>>

\* Every joint is told to let go, whichever of them can be told.
OnStandby(written) ==
  /\ standby = "called"
  /\ standby' = "answered"
  /\ homing' = FALSE
  /\ Tell([j \in Joints |-> Released], written)
  /\ order' = IF written = Joints THEN "none" ELSE order
  /\ UNCHANGED <<position, readAt, arm, target, reading>>

\* One step of the clock: a joint that is energised and free moves towards its aim.
Moves(j) ==
  IF aim[j] = Released THEN arm[j]
  ELSE IF aim[j] > arm[j]
  THEN IF aim[j] - arm[j] <= Speed THEN aim[j] ELSE arm[j] + Speed
  ELSE IF arm[j] - aim[j] <= Speed THEN aim[j] ELSE arm[j] - Speed

Later(age) == IF age >= Oldest THEN age ELSE age + 1

Time(free) ==
  /\ arm' = [j \in Joints |-> IF j \in free THEN Moves(j) ELSE arm[j]]
  /\ readAt' = [j \in Joints |-> Later(readAt[j])]
  /\ reading' = IF reading = Nothing THEN reading
                ELSE [reading EXCEPT !.stamp.age = Later(@)]
  /\ UNCHANGED <<position, homing, aim, target, standby, order>>
-------------------------------------------------------------------------------
\* The node on its own, with clients that may ask for anything at any time.

SomeoneSends ==
  /\ target = Nothing
  /\ target' \in Requests
  /\ UNCHANGED <<nodeVars, aim, arm, reading, standby, order>>

SomeoneReleases ==
  /\ standby = "idle"
  /\ standby' = "called"
  /\ UNCHANGED <<nodeVars, aim, arm, target, reading, order>>

SomeoneIsAnswered ==
  /\ standby = "answered"
  /\ standby' = "idle"
  /\ UNCHANGED <<nodeVars, aim, arm, target, reading, order>>

SomeoneListens ==
  /\ reading # Nothing
  /\ reading' = Nothing
  /\ UNCHANGED <<nodeVars, aim, arm, target, standby, order>>

Next ==
  \/ \E answered \in SUBSET Joints, written \in Written : Poll(answered, written)
  \/ \E written \in Written : OnJointTargets(written) \/ MoveJaw(written) \/ OnStandby(written)
  \/ OnHome
  \/ SomeoneSends \/ SomeoneReleases \/ SomeoneIsAnswered \/ SomeoneListens
  \/ Time(Joints)

Spec == DriverInit /\ [][Next]_driverVars

\* The node polls for ever, every joint answers and is written to again and again, and
\* nothing holds the arm.
FairSpec == Spec /\ WF_driverVars(Poll(Joints, Joints)) /\ WF_driverVars(Time(Joints))
-------------------------------------------------------------------------------
TypeOK ==
  /\ position \in [Joints -> Int] /\ readAt \in [Joints -> 0..Unread]
  /\ homing \in BOOLEAN
  /\ aim \in [Joints -> (Lower..Upper) \cup {Released}]
  /\ arm \in [Joints -> Lower..Upper]
  /\ standby \in {"idle", "called", "answered"} /\ order \in {"none", "move", "home"}

\* Once every joint was released, none is energised before somebody asks for motion
\* again: a home ramp that was under way does not go on.
OnlyEnergisedOnRequest == order # "none" \/ \A j \in Joints : aim[j] = Released

\* A home ramp that nothing else cuts short takes every joint home, the jaw open, and
\* stops asking: its last command is the one that gets there.
HomeArrives ==
  order = "home" ~> order # "home" \/ (~homing /\ \A j \in Joints : arm[j] = Home[j])
================================================================================
