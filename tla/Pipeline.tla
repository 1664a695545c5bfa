------------------------------ MODULE Pipeline ------------------------------
(***************************************************************************)
(* Frames in, candidates and obstacle cells out (CloudPipeline.cpp): the   *)
(* frames one by one, the consensus on candidates, the vote on cells, and  *)
(* the carving of the handle out of the obstacles.                         *)
(***************************************************************************)
EXTENDS Vote, Consensus

CONSTANTS
  Windows,        \* windows of shots that collects may bring, oldest first
  Voxel,          \* size of a cell
  HandleRadius, HandleGap,  \* the handle around a pose, and between two poses
  Bar(_, _),      \* cells around the bar between two poses
  Corridor(_),    \* cells in front of a pose, along its approach
  InReach(_)      \* poses the arm could reach after a park

\* A shot: the poses that vision saw, the points in each cell and those of them the outlier
\* filter supports, and the cells the camera saw through.
Points == Int \X Int
Shots == [poses : Seq(Points), points : [Cells -> Nat], supported : [Cells -> Nat], through : SUBSET Cells]

\* Bars run along the first axis.
Straight(poses) == \A i, j \in DOMAIN poses : Joined(poses[i], poses[j]) => poses[i][2] = poses[j][2]

ASSUME WindowsAssumption ==
  \A w \in Windows : w \in Seq(Shots) /\ w # <<>> /\ \A i \in DOMAIN w : Straight(w[i].poses)
ASSUME RegionsAssumption ==
  /\ Voxel \in Nat \ {0} /\ HandleRadius \in Nat /\ HandleGap \in Nat

\* The launch switches.
Switches == [outlier_filter : BOOLEAN, handle_carving : BOOLEAN, corridor_carving : BOOLEAN,
             candidate_averaging : BOOLEAN, obstacle_averaging : BOOLEAN]

VARIABLES
  switches,
  stage,       \* where process() is
  window,      \* its frames
  results,     \* what was made of each frame so far
  candidates, obstacle_cells, handle_cells

outputVars == <<candidates, obstacle_cells, handle_cells>>
vars == <<switches, stage, window, results, outputVars, voteVars, consensusVars>>

-----------------------------------------------------------------------------
(* Regions (Regions.cpp).                                                   *)

CellOf(p) == <<p[1] \div Voxel, p[2] \div Voxel>>

Around(p) ==
  {c \in Cells : CellOf(p) \in Cells /\ Apart(c, CellOf(p)) * Voxel * Voxel <= HandleRadius * HandleRadius}

HandleRegion(poses) ==
  LET near == UNION {Around(poses[i]) : i \in DOMAIN poses}
      bars == UNION {Bar(poses[i], poses[i + 1]) :
                       i \in {i \in 1..(Len(poses) - 1) :
                                poses[i] # poses[i + 1] /\ Within(poses[i], poses[i + 1], HandleGap)}}
  IN near \cup bars

CorridorRegion(poses) == UNION {Corridor(poses[i]) : i \in DOMAIN poses}

-----------------------------------------------------------------------------
Init ==
  /\ switches \in Switches /\ stage = "idle" /\ window = <<>> /\ results = <<>>
  /\ candidates = <<>> /\ obstacle_cells = {} /\ handle_cells = {}
  /\ votes = [c \in Cells |-> 0] /\ counted = [c \in Cells |-> 0] /\ measured = {} /\ voted = 0 /\ cast = {}
  /\ next = 1 /\ tried = {} /\ accepted = <<>> /\ drifting = FALSE

\* A collect has its window: of one frame when neither average is taken.
Process ==
  /\ stage = "idle"
  /\ \E w \in Windows :
       /\ switches.candidate_averaging \/ switches.obstacle_averaging \/ Len(w) = 1
       /\ window' = w
  /\ stage' = "frames" /\ results' = <<>>
  /\ candidates' = <<>> /\ obstacle_cells' = {} /\ handle_cells' = {}
  /\ NoVotes /\ NothingTried
  /\ UNCHANGED switches

\* Without the vote only the newest frame's cells are built.
Wanted(i) == switches.obstacle_averaging \/ i = Len(window)

\* The poses within the crop, in their order.
Cropped(poses) ==
  LET kept[i \in 0..Len(poses)] ==
        IF i = 0 THEN <<>>
        ELSE IF InReach(poses[i]) THEN Append(kept[i - 1], poses[i]) ELSE kept[i - 1]
  IN kept[Len(poses)]

ProcessFrame ==
  /\ stage = "frames" /\ Len(results) < Len(window)
  /\ LET i == Len(results) + 1
         shot == window[i]
     IN results' = Append(results,
          [poses |-> shot.poses,
           candidates |-> Cropped(shot.poses),
           occupied |-> IF Wanted(i) THEN OccupiedCells(shot, switches.outlier_filter, HandleRegion(shot.poses))
                        ELSE {}])
  /\ UNCHANGED <<switches, stage, window, outputVars, voteVars, consensusVars>>

PerFrame == [i \in DOMAIN results |-> results[i].candidates]

\* Every frame is done: on to the consensus, or with what the newest frame saw.
Average ==
  /\ stage = "frames" /\ Len(results) = Len(window)
  /\ IF switches.candidate_averaging THEN stage' = "agreeing" /\ UNCHANGED candidates
     ELSE stage' = "voting" /\ candidates' = Last(results).candidates
  /\ UNCHANGED <<switches, window, results, obstacle_cells, handle_cells, voteVars, consensusVars>>

Agree ==
  /\ stage = "agreeing"
  /\ \/ TryAnchor(PerFrame) /\ UNCHANGED <<stage, candidates>>
     \/ Verdict(PerFrame) /\ stage' = "voting" /\ candidates' = Agreed'
  /\ UNCHANGED <<switches, window, results, obstacle_cells, handle_cells, voteVars>>

Count ==
  /\ stage = "voting" /\ switches.obstacle_averaging /\ voted < Len(results)
  /\ LET occupied == results[voted + 1].occupied IN CastVote(occupied) \/ EndFrame(occupied)
  /\ UNCHANGED <<switches, stage, window, results, outputVars, consensusVars>>

\* Mutant of CarveFrom: only what vision saw is carved.
CarveFromPoses ==
  IF switches.obstacle_averaging THEN FlattenSeq([i \in DOMAIN results |-> results[i].poses])
  ELSE Last(results).poses

\* What is carved: the poses of every frame that voted, and the candidates, which lie between them.
CarveFrom ==
  (IF switches.obstacle_averaging THEN FlattenSeq([i \in DOMAIN results |-> results[i].poses])
   ELSE Last(results).poses) \o candidates

Handle ==
  (IF switches.handle_carving THEN HandleRegion(CarveFrom) ELSE {})
  \cup (IF switches.corridor_carving THEN CorridorRegion(CarveFrom) ELSE {})

Occupied == IF switches.obstacle_averaging THEN Elected ELSE Last(results).occupied

Carve ==
  /\ stage = "voting"
  /\ ~switches.obstacle_averaging \/ voted = Len(results)
  /\ obstacle_cells' = Occupied \ Handle
  /\ handle_cells' = Occupied \cap Handle
  /\ stage' = "idle"
  /\ UNCHANGED <<switches, window, results, candidates, voteVars, consensusVars>>

Next == Process \/ ProcessFrame \/ Average \/ Agree \/ Count \/ Carve

Spec == Init /\ [][Next]_vars

-----------------------------------------------------------------------------
(* Properties.                                                              *)

Done == stage = "idle" /\ window # <<>>

\* A cell comes out of the vote when it was measured and enough frames saw it, or a cell
\* within the radius, occupied, each frame counting once whatever marks it shares and however
\* many of its cells are near (voteOccupied, Occupancy.h).  True up to 2^Width - 1 frames.
Seers(c) == {k \in DOMAIN results : Near(c) \cap results[k].occupied # {}}

VoteIsCount ==
  (Done /\ switches.obstacle_averaging /\ Len(results) < 2 ^ Width) =>
    obstacle_cells \cup handle_cells =
      {c \in UNION {results[k].occupied : k \in DOMAIN results} : Cardinality(Seers(c)) >= MinFrames}

\* Where the arm is sent to grip, and the way it comes in, no obstacle is left, also at a spot
\* that is an average and where no frame had a pose (process, the poses that are carved).
GraspIsFree ==
  Done => \A i \in DOMAIN candidates :
    /\ switches.handle_carving => obstacle_cells \cap Around(candidates[i]) = {}
    /\ switches.corridor_carving => obstacle_cells \cap Corridor(candidates[i]) = {}

\* How far along the bar from an anchor a pose that crosses its plane may lie.
AlongBar == IF MaxPoseGap < EndTolerance THEN EndTolerance ELSE MaxPoseGap

\* The consensus returns the spots that enough frames agree on.  A spot it returns has, in
\* enough frames, a pose no farther along the bar than poses are joined or an end may be off the
\* plane, and across it than inliers lie apart.  A pose of any frame has a spot beside it, or a
\* pose beside it, itself perhaps, that the frames do not agree on: skipping anchors near what
\* was tried, in whatever order, loses no spot for another reason (average, the loop over
\* anchors).
Supports(poses, spot) ==
  \E i \in DOMAIN poses : /\ poses[i][1] - spot[1] \in -AlongBar..AlongBar
                          /\ poses[i][2] - spot[2] \in -(2 * OutlierDistance)..(2 * OutlierDistance)

SpotsAreAgreed ==
  (Done /\ switches.candidate_averaging /\ ~drifting) =>
    LET anchors == Anchors(PerFrame)
    IN /\ \A j \in DOMAIN candidates :
            Cardinality({k \in DOMAIN PerFrame : Supports(PerFrame[k], candidates[j])}) >= MinAgreeing
       /\ \A i \in DOMAIN anchors :
            \/ \E j \in DOMAIN candidates :
                 Within(candidates[j], anchors[i], 2 * DuplicateDistance + MatchDistance)
            \/ \E j \in DOMAIN anchors : /\ Within(anchors[j], anchors[i], DuplicateDistance)
                                         /\ AgreeOn(anchors[j], PerFrame).refusal # "NONE"
=============================================================================
