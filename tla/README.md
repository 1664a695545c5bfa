# TLA+ verification of the grasping stack

This directory models the program of this repository, a ROS (C++) stack that
lets an underwater vehicle with a Reach Alpha 5 arm find a handle, park in
front of it, plan a path for the arm and grasp it. TLC checks the modules on
small instances, TLAPS proves theorems about them for every value of their
constants. Every definition is written from the source; `PROJECT.json` ("map")
names the lines each of them stands for.

## The system

Six nodes, each a process, and the arm behind a serial line:

```
             task/start, task/stop
                     |
                  [ task ]----- collect ---> [ cloud ]   <- camera
                     |  \------ park -----> [ park ]     -> vehicle pose
                     |   \----- plan -----> [ planner ]
                     |    \---- execute --> [ executor ] -- joint_targets --> [ driver ] == arm
                     |                           ^-------- joint_states -------/   ^
                     \------------- close jaw, standby ----------------------------/
```

| Part | State it keeps | Operations | Interacts by |
|---|---|---|---|
| task: state machine (`StateMachine.cpp`) | none: a table | `nextState` | called by the node |
| task: node (`TaskNode.cpp`) | state, phase, counters of looks and spots, three clocks, what feedback said, what the jaw did | `tick`, `onStart`, `onStop`, four subscriber or feedback callbacks | four actionlib clients, two trigger services of the driver; one mutex for tick, start and stop, two spinner threads |
| executor: follower (`PathFollower.cpp`) | waypoints, how many were sent, strikes, last two readings, settle clock | `load`, `measure`, `loseMeasurement`, `tick` | called by the node |
| executor: node (`ExecutorNode.cpp`) | last joint_states, the goal's loop | `onExecute`, `onJointStates` | action server, joint_states in, joint_targets out, standby of the driver |
| driver (`DriverNode.cpp`) | last reading of each joint and its time, whether it is homing | `poll`, `onJointTargets`, `onHome`, `onOpenJaw`, `onCloseJaw`, `onStandby` | one mutex; serial request and answer (`ArmLink.cpp`, `Protocol.cpp`) |
| cloud (`CloudNode.cpp`) | a window of paired frames, the halves of the next, what went wrong last | `onCloud`, `onGraspPoses`, `onCollect` | action server, camera topics; one mutex, taken twice in a turn of the goal's loop |
| driver: serial link (`ArmLink.cpp`, `Protocol.cpp`, `SerialPort.cpp`, `main.cpp`) | the reader's bytes, one request at a time | `request`, `feed`, `wakeArm`, release at start and end | bytes both ways; a reply carries its device and field, and no number |
| cloud: pipeline (`CloudPipeline.cpp`) | the launch switches | `process`: crop, occupancy, consensus on candidates, vote, carving | called by the goal's loop |
| park: node (`ParkNode.cpp`) | where the vehicle is, the locked scene, the chosen spot | `onPark` with `walkTo`, `onReset`, `onTick` | action server; a timer and a service on other threads; one mutex, given up between the steps; tf |
| park: pose search (`PoseSearch.cpp`) | none | a shortlist of spots by score | called by `onPark` |
| planner (`PlannerNode.cpp`, `CandidatePlanner.cpp`, `BiRrt.cpp`) | last joint_states; during a goal the two trees | `onPlan`, goals of each candidate, a bi-directional RRT* per goal, shortening | action server |
| kine: reach table (`Reach.cpp`, `ReachBuild.cpp`) | a table in memory, a file that caches it | build, save, verify, rename, load | the file outlives the process |
| kine: kinematics, params, viz, msgs, description, bringup | none that others depend on | | |

What is hard in it: answers of four nodes and a stop that arrive in any order
with respect to a tick; three nested retry loops with counts and clocks that
are reset in different places; a loop at 20 Hz that judges an arm from readings
published at 10 Hz and stamped with the oldest of five serial answers;
messages, services and cancels that overtake each other; joints that do not
answer, or answer after their timeout, so that the reply is taken for the next
one's; a drive whose frame moves while a timer and a reset read and write it
between two locks; a random search that has no clock in its innermost loop; a
file that is written by a process that may die; votes counted in bytes; a stop,
which must be able to end all of it. `PROJECT.json` ("hazards")
lists each at its line, with the properties that cover it or why none does yet.

What makes each part correct:

- task: no more drives and looks than allowed; a path is followed only for what
  was seen after the vehicle last moved; arm and vehicle never move at once;
  every pick ends; a stop releases the arm.
- executor and driver: contact, arrival and stall are reported when and only
  when they happened; every goal ends; the arm is released when it is said to be.
- driver: no joint is told anything outside its limits; a released arm stays
  released until somebody asks; a home ramp gets home.
- cloud: node: a survey uses only frames taken after it was asked for, from where the
  vehicle stands; an empty scene is not a fault and a silent camera is.
- cloud: pipeline: a cell is an obstacle when enough frames saw it; a spot is
  one that enough frames agree on, and none of those is lost; no obstacle is left
  where the jaw closes.
- park: it moves only to what is better than staying, along what it checked,
  and the pose it drives to is the one it chose.
- planner: a path starts where the arm is, ends at a grasp, and every edge of
  it was found clear, shortened or not.
- serial link: a reading is that of its joint and explained by the replies that
  were late; the arm does what was written; the reader finds back after any noise.
- reach table: what a node runs with is the table its configuration wants.

## Modules

| Module | Models | Correspondence |
|---|---|---|
| `TaskStateMachine` | `StateMachine.cpp` | `Leads(state, event, next)` is `nextState` |
| `ActionLink` | one actionlib client, server and their topics (external) | a record per connection; goals are "mine" or "old"; goals, cancels, feedback and results overtake each other, none overtakes its own kind |
| `TaskNode` | `TaskNode.cpp` | one action per check of `tick`, per handler and per callback; `Enter` is `enter`, `Apply` is `apply`; the four nodes are servers that give any answer their code can give |
| `PickContract` | nothing: the abstract specification | a pick surveys, drives to at most so many spots, looks, and reaches only for what the last look from there showed |
| `MCTaskNode` | | the refinement mapping from `TaskNode` to `PickContract` |
| `TaskNode_proofs` | | theorems about the budgets, the links, the drives and the looks, and that `TaskNode` implements `PickContract` |
| `PathFollower` | `PathFollower.cpp` | operators on a follower record: `Load`, `Measure`, `LoseMeasurement`, `Tick` and their parts |
| `Executor` | `ExecutorNode.cpp` | `OnExecute` is the code before the loop, `Follow` one turn of it, `Release` and `StandbyAnswers` the two ends of the call of standby |
| `Driver` | `DriverNode.cpp`, the arm as `SimulatedArm.cpp` stands in for it | one action per handler and `Poll`, each under the one mutex; which joints answer and which commands are written is free |
| `MCDriver`, `Driver_proofs` | | constants for TLC; theorems about limits and release |
| `ArmLoop` | executor, driver and arm together | composes `Executor` and `Driver` over the topic of waypoints, the topic of readings and the standby service, with a clock |
| `MCArmLoop`, `ArmLoop_proofs` | | constants for TLC, which satisfy the hypotheses of the theorems (`VerdictsAreTimely`); theorems about types, waypoints, strikes, contact, stalls and arrival |
| `Cloud` | `CloudNode.cpp` | `OnMessage` is `onCloud` and `onGraspPoses` with `pairLatest`; `OnCollect` is the code before the loop, `Look` and `Judge` the halves of a turn, one for each lock |
| `Cloud_proofs` | | theorems about the frames of a window and about what a collect answers |
| `Vote` | `Occupancy.cpp` | `OccupiedCells` is one frame; `CastVote` is one turn of the loop over a frame's cells, `EndFrame` the step to the next frame |
| `Consensus` | `ConsensusAveraging.cpp` | `CrossingsOf` and `Lateral` are `crossPlane`, `AgreeOn` is `agreeOn`, `TryAnchor` one turn of the loop of `average`, `Verdict` its end |
| `Pipeline` | `CloudPipeline.cpp`, `Regions.cpp` | extends both; one action per part of `process` |
| `MCPipeline`, `Pipeline_proofs` | | shots for TLC; theorems about the vote, the carving and the consensus |
| `Park` | `ParkNode.cpp` | `OnPark` to `Arrive` are the parts of `onPark` between two locks, `SetOff`, `Walk` and `Stop` are `walkTo`; three actions for `onReset` and two for `onTick`, one per lock |
| `MCPark`, `Park_proofs` | | spots, verdicts and obstacles for TLC; theorems about types, the choice, the first drive and where a park ends |
| `BiRrt` | `BiRrt.cpp`, `JointSpace.h` | two trees as functions from a posture to its parent; `Straight`, `Plant`, `Grow`, `Reach` and `Join`, the reading off of the path and one attempt of the shortening (`Shortcut`) are actions |
| `Planner` | `PlannerNode.cpp`, `CandidatePlanner.cpp`, `GraspGoals.cpp`, `CollisionChecker.cpp` | extends `BiRrt`; `OnPlan`, `FindGraspGoals`, `Sort`, the loop over goals (`NextGoal`, `NoPath`, `Keep`, `Cancel`, `Enough`) and `Answer` |
| `MCPlanner`, `Planner_proofs` | | a plane of postures for TLC; theorems about the path, the cheapest plan and the outcomes, and about `ReachCache` |
| `SerialLink` | `ArmLink.cpp`, `Protocol.cpp`, `SerialPort.cpp`, `main.cpp` of the driver, the arm as `SimulatedArm.cpp` | bytes are frames, zero bytes and junk; `main` says where the driver's main is |
| `MCSerialLink`, `SerialLink_proofs` | | constants for TLC; theorems about lags, readings, commands and the start |
| `ReachCache` | `Reach.cpp`, `ReachBuild.cpp` | one action per call that can fail or be interrupted; a file is a sequence of blocks |
| `MCReachCache` | | geometries for TLC; its theorems, about what is loaded and what is kept, end `Planner_proofs`, as the planner runs with the table; its specification is `ReachSpec` |

Definitions that say "Mutant" are the definition after them with a plausible
bug. They take no part in a specification; each is there to see that the
property it is meant for notices the bug.

Abstractions. In `TaskNode`, clocks are ages that stop at `MaxAge`, the cloud is
reduced to whether it is current (`viewed`), and the jaw to a few positions. In
`PathFollower`, positions are integers and the unit is small enough that every
cut, tolerance and fraction is exact; a clock step is one turn of the executor's
loop. A stamp is an age and a place within a poll, which is enough to tell
stamps apart and to tell fresh from stale. The ways in which a path can be
malformed are one input, `<<>>`.

`drives`, `missed`, `powered`, `viewed`, `stops` in `TaskNode`, `order` in `Driver`,
`held`, `misses`, `goal` in `ArmLoop`, `told`, `late`, `faults` in `SerialLink`,
`disturbed` in `Park`, `tries` in `Planner`, `saved`, `cut`, `faults` in `ReachCache`,
`heard`, `mark`, `lookedAt`, `judgedAt` in
`Cloud` are history: the code has no such
variable, and no guard of a code action reads them, except for the bounds on
`stops`, `missed`, `misses`, `late` and `faults`. The properties of `Cloud` are stated from `heard`, the list
of messages that came, and from nothing the node keeps: what it does step by
step is compared with what those messages amount to.

In `Park`, poses lie on a lattice with quarter turns, z is left out, and a
distance is the larger of its parts. Which spots the search proposes, and what
the screening and the exact check say of each, is free as far as one cannot
contradict the other. In `BiRrt`, postures and how they interpolate are
constants, a draw is any posture, of equally near nodes any is taken, and a
time budget may end a loop before any turn. In `SerialLink`, checksum and
escaping are abstracted to a frame being whole or not, and a reading to how many
requests it lags behind. In `ReachCache`, a file is a header and the blocks of
tables, and different geometries have different hashes. In `Pipeline`, the grid
is a plane that holds every region, bars run along its first axis
(`Straight`), so that a crossing is a second coordinate, and how far the scene
drifted is free. The outlier filter and the depth image are inputs: which points
the one supports, which cells the other saw through.

`TaskNode` takes each frame of a collect to be from after its goal
(`viewed["window"]`). `cloud_fresh` shows a frame for which that is not so, a
pair whose one half came before the goal; what the task node guarantees about
fresh frames holds up to that.

## Runs

| Run | Question | Result |
|---|---|---|
| `task` | every order of ticks, starts, stops, feedback, results and cancels, a result of the park ahead of the word that it drives included | what the task node counts keeps the budgets (`CountsWithinAllowance`); the drives the park node begins exceed `park_attempts` by those whose result overtook that word, and by no other (`DrivesWithinAllowance`); `ArmAndVehicleTakeTurns`, the pick keeps its contract (`ImplementsPick`), `EveryPickEnds` |
| `driver` | clients that ask for anything at any moment between two polls | `TypeOK` (with the limits of every joint in it), `OnlyEnergisedOnRequest`, `HomeArrives` |
| `arm` | slow polls, late readings and waypoints, a missed answer, an obstacle, a preemption, at any moment | `ContactIsReal`, `ContactIsReported`, `ArrivalIsReal`, `StallHasCause`, `EveryGoalEnds` |
| `arm_release` | ExecutorNode.cpp:142, "arm released" | violated: a waypoint in flight is applied after standby |
| `cloud` | messages in any order, replaced, not pairing or not usable; collects one after another, cancelled or not | `WindowIsNewest`, `FramesAreInOrder`, `EndIsExplained`, `EveryCollectEnds` |
| `cloud_fresh` | CloudNode.cpp:164, "its whole window fresh" | violated: a cloud at hand when the goal comes pairs with its poses afterwards |
| `pipeline` | every window of one to three of four shots, every setting of the switches | `VoteIsCount`, `SpotsAreAgreed`, `GraspIsFree` |
| `park` | two parks after each other, any verdicts, a budget that ends anywhere, a cancel and a reset between any two locks, the timer | `NeverWorseThanStaying`, `FirstDriveIsClear`, `SettlesWhereChosen`, `ListenersCatchUp` |
| `park_drive` | ParkNode.h:53, "stays clear of the scene for the whole drive" | violated: from the second drive on, the line that is checked is not the line that is driven |
| `planner` | every draw, tie and end of a budget of the search; several postures per candidate; cancels | `PathIsClear`, `CheapestIsKept`, `OutcomesAreTrue`, `EveryPlanEnds` |
| `serial` | frames damaged, cut or lost, replies after their timeout, reads of any size, a reader that is full; from the start of the driver to its end | `LagIsExplained`, `ReadingsInOrder`, `CommandsAreObeyed`, `Woken`, `EveryJointIsRead` |
| `reach` | writes that fail, a process that dies, a machine that loses power anywhere in a save; the configuration changes in between | `LoadedIsWanted`, `CacheIsLastSaved` |

### Bounds, and why they are enough

- `task`: two looks and two spots, so that a counter can be at its limit, one
  short of it, and reset; clocks of 1 and 2 steps with `MaxAge` 2, so that each
  timeout is reached before, with and after the event it races with; one stop,
  so that ESTOP and a second pick over the remains of the first happen;
  `RetryDelay` 0, its configured value; two spinner threads as in `main.cpp`. In one
  run one result of the park may overtake the word that the vehicle drives
  (`MaxMissed` 1): with two spots that is a drive lost from the count at the first,
  at the last or between, and a third drive follows. The theorem has any number.
  What the task node is told after it has sent the next park goal is dropped, as the
  client drops it.
- `driver`: a jaw and one joint on positions 0..3, messages for both, one of
  them, one out of range and one unknown. Every command is written (`LineMayFail`
  FALSE): `HomeArrives` needs that, and the other two properties are proved for a
  line that loses any command.
- `arm`: a jaw and two moving joints; paths of three and four waypoints with
  and without a corner, one with nothing to do, one that cannot be read; one
  goal, one obstacle, one missed answer. A poll comes every one or two turns of
  the loop (the configured rates give two). The strikes matter: one goal can
  lawfully collect four in a row, one each from a late waypoint, a corner, a
  late reading and a missed answer, and with `Strikes` 4 `ContactIsReal` is
  violated; the run has 5, the configuration 10. `ArrivalTimeout` 28 is long
  enough for five strikes at the slowest delivery, in which every second reading
  is replaced before it is seen; the configured 15 s are 300 turns for 10
  strikes.
- `ArrivalIsReal` is checked on paths that do not turn back. Arrival is judged
  from a reading up to `feedback_timeout_s` old: when the last corners of a path
  lead away from the goal and back again within that time, the reading can be
  from before the joint left, and REACHED is reported with the arm elsewhere.
  The checked paths say where the promise holds; the hazard is listed.
- A waypoint or a reading is on its way for at most one step of the clock
  (`lagging`, and the guard of `Elapse`).

- `cloud`: three shots and a window of two, so that a window is short of one,
  full, and has pushed one out; any number of collects over those shots, so
  that whatever one leaves behind meets the next. `cloud_fresh` has a window of
  one, the configuration without averaging.

- `pipeline`: four columns and seven rows of cells. The four shots are a bar, one
  half a step along and a little to the side, one too far off to agree, and a
  view of two bars, so that each refusal of `agreeOn` occurs, an average lies
  where no frame had a pose, two spots are returned, and a spot is found twice.
  `Width` 2 makes a window of three the largest that the counters hold, as 255 is
  for the code.
- `park`: one spot ahead and one to the side with a quarter turn, so that the
  second park starts elsewhere and turned; drives of up to three steps; seven
  verdicts, one for each way in which screening and exact check can differ; two
  goals and one reset.
- `planner`: nine postures on a plane of two joints, edges with one and with
  three samples inside, scenes that are open, have a way round, have none, and
  start inside an obstacle; three iterations, two attempts at shortening, two
  paths to compare.
- `serial`: two joints, reads of one or two bytes, a reader of three: the cut
  fires. One fault, and no more replies are late once a joint had one that was
  (safety was also tried with two of each). The reader that is cut is the host's: the
  arm's takes one byte at a time and stays within its limit, and that a cut there
  loses no command that counts is what the theorem `CommandsHold` adds. A reader holds more than two bytes
  (`SerialAssumption`), the code's 4096; with fewer the end of one command could
  push out the beginning of the next.
- `reach`: three geometries, two of which have tables of one size, so that only
  the header tells them apart; two faults, one while the next save recovers from
  another.

### Fairness

- `TaskNode`: `tick` runs at a fixed rate and time passes (`main.cpp`, the
  loop), what has arrived is delivered by the spinner, in any order of feedback and
  result, and each server's callback ends. None of these is assumed of a stop, a start or feedback of the
  collect. A server that dies is outside of it: see Disagreements.
- `Driver`: the node polls for ever, every joint answers and is written to again
  and again, and nothing holds the arm. Clients owe nothing.
- `ArmLoop`: the loops go round and time passes; a call of standby is served and
  returns. Readings may get lost and the arm may be held for ever.

- `Cloud`: the goal's loop goes round and time passes. The camera and vision owe
  nothing.

- `Park`: the timer fires again and again, `WF(OnTick)`, and nothing else: a goal
  may stop anywhere for ever.
- `Planner`: the thread that runs `onPlan` goes on. That a draw is random is not
  used: no draw need ever lead to the goal, the budget ends the search, and what
  ends `connect`, which no budget does, is that a step brings nearer
  (`TowardsByNothing` is the mutant without).
- `SerialLink`: the driver's main goes on and its calls return, and the arm
  takes the bytes that are on the line. Faults and late replies are bounded.

`EveryPickEnds`, `EveryGoalEnds`, `HomeArrives`, `EveryCollectEnds`, `ListenersCatchUp`, `EveryPlanEnds`
and `EveryJointIsRead` need it; the other properties are safety.

## Disagreements

Three runs end in a violation, and each is a disagreement between the code and
what is written beside it: `arm_release`, `cloud_fresh`, `park_drive` are listed
under "findings" with the lines they quote; of the following the models were
checked too, and what they show is short enough to say:

- README.md:26 says that stop "stops everything and releases the arm". In a state
  that rests, `onStop` changes nothing, calls no standby, and its answer
  (TaskNode.cpp:119-123) says that the arm is released.
- TaskNode.cpp:278 says "Everything is cancelled and the arm released". The cancel
  is `cancelAllGoals` on a topic of its own; a cancel that its server takes before
  the goal it was meant for leaves that goal running after standby.
- TaskNode.cpp:207-209 says that a spot is spent "once the vehicle actually drives to
  one" and that the allowance is so many "places to stand". A drive is counted when
  its "moving" feedback is heard in PICKSPOT (TaskNode.cpp:373, 211). Feedback and
  result are two topics, read by two spinner threads: when a tick finds the result
  and not yet the feedback, `checkPark` answers SPOT_UNCHANGED (TaskNode.cpp:392), the
  drive stays uncounted, and with `park_attempts` 2 the vehicle is driven to three
  places. TLC finds that when `DrivesWithinAllowance` is stated without `missed`; as
  it stands the property says that this is the only way to lose a drive. The wait
  between a drive's first word and its end makes it unlikely, and nothing rules it out.
- StateMachine.h:69 provides for "a node refused or died". No check of `tick` has
  a timeout, and a server that dies with a goal never answers (TaskNode.cpp:490).
- DriverNode.cpp:89 promises that the commands of a message are "legal and sent,
  or none is"; the loop at 114-119 logs a command that could not be written and
  goes on.
- ParkNode.cpp:504 has staying win ties; 505 compares with a strict `>`, so that
  a spot whose value equals that of staying is driven to.
- ConsensusAveraging.h keeps the spots "that enough frames agree on". An anchor
  that was refused keeps the ones near it from being tried, so a spot that would
  be agreed on from the next pose along can be passed over; `SpotsAreAgreed` says
  how far that goes.

## Proofs

A theorem about a state is proved from an inductive invariant that TLC was first
run on; one about a step from the same invariant, before and after the step.

`TaskNode_proofs`, for any allowances and times.

- `LooksWithinAllowance` and `SpotsWithinAllowance` are not inductive: nothing in
  a counter below its limit says that the next entry of RETARGET or GOTOSPOT will
  not exceed it. `Budgets` adds which states may still choose: while a run is
  under way and not in RETARGET a look is left, and while a drive may still be
  chosen a spot is left. `ApplyKeepsBudgets` proves the step for any event the
  table allows; `CountsAreBounded` is the property.
- `GoalInv` is about the links: of each connection at most one goal was not
  cancelled and the node follows it exactly in the states that wait for it, only a
  goal that its server runs moves anything, and unless a pick was stopped nothing
  is left on the links that the node does not follow. That is what
  `ArmAndVehicleTakeTurns` says nothing of: a goal of a connection that is not
  followed could start to move at any time.
- `DriveInv` compares `drives`, which the park node's server counts, with
  `parkAttempt`, which the task node counts: the latter is one short from when a drive
  begins until PICKSPOT takes it up, for good if PICKSPOT takes the result first
  (`missed`), and a goal that has begun its drive begins no other. `DrivesWithinAllowance` follows with `Budgets`.
- `ViewInv` is about looks: the vehicle rests, the window is current and so is the
  cloud, through every state from the look to the closing of the jaw.
- `PickIsImplemented` is the refinement of `PickContract`: the initial states map to
  its initial state, and every step to one of its actions or to none. The count of
  spots needs `Budgets`, the reach and the loss of the view `ViewInv`, and what is
  read of a collect that the node follows it exactly where it waits (`GoalInv`). The
  mapping is that of `MCTaskNode`, which this module extends.

`Driver_proofs`, for any number of joints, any limits, home, speeds and
requests, a line that loses any answer or command. `DriverInv` adds to the two
properties what the home ramp rests on: a position that counts as read is within
the limits, a ramp that is under way has one for every joint, and was asked for.
`LimitsHold` is the type invariant with the limits in it; `ReleaseHolds` is
`OnlyEnergisedOnRequest`, also for a standby that reaches only some joints.

`Cloud_proofs`, for any window, any number of shots and whatever the two topics
bring. `FramesAreInOrder` follows from the order of the window, which is not
inductive: a message may pair with a half that came long ago. `WindowInv` adds
that what waits on a topic is younger than the half at hand, and that every
frame in the window is older than all that can still be paired. `TypesHold`
follows from the same invariant. `WindowIsNewest` and `EndIsExplained` speak of
`heard`, the list of all messages. `HeardInv` ties the node's halves to it (a half
at hand is the last message of its topic and has not been paired since), and
`NewsInv` the window (the last usable pairs), the count and the words of trouble,
at the present and at the last look and the last verdict of a goal.

`Pipeline_proofs`, for any grid, radius, width of the counters, windows and
settings.

- `VoteIsCount` speaks of the end of `process`; in the middle of a frame a count is
  the frames that are done and see the cell, and one more if the frame that is
  voting has reached it (`CountInv`). That the marks tell which is the case needs
  that no frame before has its mark and that the first mark is not what the cells
  start with; both follow from a window below `2^Width`. `OneFrameMore` counts,
  `NearIsMutual` turns "the cells a cell votes for" into "the cells that vote for
  it".
- `GraspIsFree` needs of a spot only that it is a point of the plane, an average
  too (`GraspInv`, `ListsInv`): what is carved is carved around the very candidates
  that are returned.
- `SpotsAreAgreed`: `AgreedSpot` shows that what `agreeOn` returns lies within twice
  the outlier distance of each pose it averages, across the bar (each is that near
  the median, so their mean is), and along the bar within the larger of
  `MaxPoseGap` and `EndTolerance` (`AlongBar`); so each frame in it supports the
  spot. `Loop` is the invariant of the loop over anchors: one that was tried was
  refused, or is near a spot, by the triangle inequality from the anchor that gave
  it. That a mean lies between bounds is shown up the number of frames in it.

`Park_proofs`, for any spots, verdicts, costs, obstacles and any number of parks
and resets. `ParkInv` adds to `NeverWorseThanStaying` where the vehicle is until it
sets off and that a spot that is chosen has had its way looked at, from which
`FirstDriveIsClear` follows because at the origin a displacement is the pose it
leads to (`FromOrigin`). `SettleInv` adds how far a drive has come and that only a
reset can have taken the vehicle away; `TurnedBack` and `SeenFromCompose` are the
geometry, that a pose seen from where the displacement began is the displacement.
`TypesHold` follows from the two.

`Planner_proofs`, for any joint space, scenes, candidates, draws and budgets.
`PathInv` says that both trees are trees of clear edges with start and goal at
their roots, that the posture they share is in both, and that what has been read
off is a clear path so far. `StridesCover` shows that the strides of halving
length visit every sample inside an edge; it needs a least element of a set of
numbers, which `LeastElement` gets from finite cardinalities. `CostInv` says of
every path that was tried that it is one, so that its cost is a number
(`CostType`, by the first edge at which it would not be) and the kept one can be
compared with it. `OutcomeInv` adds to `OutcomesAreTrue` that while candidates are
looked at nothing has been tried and every goal is of one that was looked at.

`SerialLink_proofs`, for any number of joints, reads of any size, readers of any
size above that, and any number of faults and late replies. A direction of the
line is what its reader holds and what is under way, as one sequence of bytes
(`Inward`, `Outward`): so a read moves nothing, and reading a frame only drops the
oldest bytes. `LinkInv` has these parts:

- `LineInv`: the only packets inward are replies, and those outward commands and
  requests, each followed by its zero byte. `MainInv`: what is asked when.
- `LagInv`: of the packets about one joint's position, each is fewer requests
  behind than the one before it, those inward are further behind than those
  outward, and none is further behind than late replies explain. From it follow
  `LagIsExplained`, and `ReadingsInOrder`, as the reading that is replaced is older
  than all that is still to come.
- `ObeyInv`: the commands to a joint that the arm's reader will find are those
  that follow a zero byte; the last of them is the last that was written whole, and
  without any the joint is in that mode. From it follows `CommandsAreObeyed`.
- `WakeInv`: until the wrist is found awake no command but a nudge was written, and a
  reply that says it is awake is right, however old.
  From it follows `Woken`.

The lemmas about the reader say what `Split` makes of any sequence of bytes: what is
left is the end of it, from after its last zero byte, and what is found are
the packets that lie between two cuts, in their order (`LoopCuts`, `FeedIs`). The
loop is a recursive function on the number of bytes, and the lemmas go up by one
byte at a time (`CountingUp`).

The end of `Planner_proofs` is about `ReachCache`, for any geometries and sizes of
tables and any number of faults. The argument is one invariant: every file there
ever is holds a part of the table of one geometry. So a header that fits and a length that fits are
enough for the table to be all of the wanted one.

`ArmLoop_proofs`, for any joints, paths, delays and timeouts, any joint held or let
go at any time, any readings lost and any waypoint overtaken by the next one. The
invariants build on each other:

- `Types` has the type invariant and what the parts of the loop owe each other: the
  follower is `OnTheWay` through its waypoints while a goal runs, and what is sent
  is the waypoint `sent`. That the waypoints of a path end where it does and lie
  `MaxStep` apart (`WaypointsAreSmallSteps`) needs the flattening of a sequence of
  sequences, which `Flattened` follows up its length.
- `Ages`: the reading on the topic is of now, the latest one is as old as the polls
  are apart, and what the loop has measured is not younger.
- `Settles`: once the last waypoint is sent the driver aims at the end of the
  path, or hears of it at the next turn of its own (`ArrivalIsTold`), and every joint
  that nothing holds has come one step's way closer in every step since.
- `Looks`: with no reading missed, a reading that is younger than the time since the
  arm must have stopped shows it where it is. From it follows `StallHasCause`.
- `Strikeful`: a goal with a joint held short of its end has waited no longer than
  the readings that struck it account for. From it follows `ContactIsReported`.
- `Near`: what was measured is near where the arm is, by its age. From it
  follows `ArrivalIsNear`, on paths that turn back too.
- `Rests`: after an arrival whatever is on its way to the driver leads to the goal.
  From it follows `ArrivedArmStays`.
- `Closing`: while a goal settles, a free arm comes one step's way closer every step,
  and so do the readings, from one to the next. From it follows `LateContactIsReal`:
  a verdict of contact that falls later than a reading takes after the last waypoint
  is of an arm that met something, or of a joint that did not answer.
- `Approaches`: what was read since the last waypoint was sent was no closer to the
  goal than the arm is now, held joints and missed answers included. From it follows
  `LateArrivalIsReal`: an arrival that is judged by a reading younger than the last
  waypoint is within the tolerance, on every path.

`StrikesNeedReadings` needs no more than the types, and follows the code of one turn
(`StruckIs`).

The hypotheses of these theorems are about parameters. `PathsAreLegal`: a path
ends within the driver's limits. The executor does not look, but the only paths it
gets are the planner's (`TaskNode.cpp:223`), whose goals are checked against the limits of
the same `arm.yaml` (`CollisionChecker.cpp:19`). `PathsLeadOn`: no path is a single
corner; the planner's begin as start and goal and keep both (`BiRrt.cpp:36`). `ArrivalIsTimely`: the range at full speed, and the delays of
waypoints and readings, fit into `arrival_timeout`; `ContactIsTimely`: so do
`blocked_strikes` polls. `FollowingShows`: at its speed a joint moves more in a
step than the fraction of a waypoint's step that counts as following.

With the repository's values a turn is 0.05 s, a poll is due every 0.1 s,
`arrival_timeout` is 15 s and there are 10 strikes; at the 28.65 degrees a second of
the simulated arm, a joint with a range of 360 degrees takes 12.6 s, and the strikes
and delays less than 2 s more; in a turn it goes 1.43 degrees, where a fifth of 1.25
counts. For a slower arm or a shorter timeout the properties need not hold: then the
clock calls a moving arm stalled, which is what the timeout is for.

All rest on the named assumptions of the modules, which are what the
configuration loaders enforce (`TaskConfig.cpp`, `DriverConfig.cpp`,
`CloudConfig.cpp`), what the geometry gives (a step brings nearer, verdicts do not
contradict each other), in `Pipeline`, that bars are straight, and in
`SerialLink`, that a reader is larger than a read and than a frame.

How recursion is reasoned about. The library's induction theorems take an operator
as a parameter, which the provers cannot instantiate. Where a loop had to be
followed, it is written as a recursive function on a number, and the induction is
stated over a set: one that holds 0, and with a number below n the next, holds all
numbers up to n (`CountingUp`), or a set of numbers has a least element. Folds over
sets are such functions on subsets (`TotalExists`), followed up their cardinality.
`SelectSeq` of the standard modules is recursive in a way that the provers do not
see into; `Cropped` of `Pipeline` is written as such a function instead.

Only model-checked: everything about liveness (out of the prover's reach), and two
invariants of `ArmLoop` that are not true of every value of the constants, so that
the run shows them for paths and delays with ratios like the configured ones.
`ContactIsReal` fails while waypoints are still being sent, on paths whose corners
alternate faster than a waypoint comes round, where an arm that is free strikes itself
out; `LateContactIsReal` is the part that holds on all paths, and
`StrikesNeedReadings` says what every strike takes. `ArrivalIsReal` fails on paths that
turn back close to their end, where a reading from before the last waypoint may be
of an arm that passes the goal; `LateArrivalIsReal` is the part that holds on all
paths, and `ArrivalIsNear` and `ArrivedArmStays` give the bound for the rest.

## Not modelled

- Kinematics, collision geometry, the scores of the pose search, the fitting of
  the grid, the depth image, the outlier filter and the solution for the drift
  are floating-point functions without steps of their own. The models take any
  result they may give.
- In `Consensus`, the angle between bars and the plane (`max_axis_angle`), which
  straight bars never exceed, and the axes and approaches that are averaged with
  the points.
- In `Park`, z and the texts of answers; in `ReachCache`, two park nodes on one
  cache (the name of the temporary file is fixed), blocks that a power loss fills
  with zeros, and colliding hashes. Caching is off unless `cache_path` is set.
- In `TaskNode`, a feedback of the park that is handled in the instant between the reset
  of `driving_` and `sendGoal` in the next PICKSPOT (TaskNode.cpp:197-201); it would be
  taken for the new goal's. One that comes after the node has moved on only sets
  `driving_`, which the next PICKSPOT resets, and is dropped.
- What main leaves of the arm when waking it fails (driver/src/main.cpp:82): it returns
  without a release.
- In `SerialLink`, a damaged frame that passes the 8-bit checksum.
- viz draws; msgs, description and bringup are data; params reads yaml.
- Shutdown of a process other than the driver's.
- Publishing of the task's state, log lines and texts of results, except where a
  finding is about what they say.

## What is left

1. `ContactIsReal` while waypoints are being sent: how far apart corners must be for
   an arm that is free never to be struck out.
2. `PoseSearch` as a shortlist with its scores abstract: spots are distinct, the
   best of each neighbourhood is kept.
3. The whole pick with `Park`, `Planner` and `Cloud` in the place of the servers of
   `TaskNode`, as far as TLC can take it.
