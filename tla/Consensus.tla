------------------------------ MODULE Consensus ------------------------------
(***************************************************************************)
(* The candidates that enough frames agree on (ConsensusAveraging.cpp), on *)
(* a plane of integer points.  Bars run along the first axis, so the plane *)
(* through a pose and square to its bar is the line of its first           *)
(* coordinate, and a crossing is a second coordinate on it.                *)
(***************************************************************************)
EXTENDS Integers, FiniteSets, SequencesExt

CONSTANTS
  MinAgreeing,       \* frames that must agree
  MatchDistance,     \* how near the anchor a crossing must be
  MaxPoseGap,        \* poses nearer than this are joined into a bar
  EndTolerance,      \* a pose this near to the plane crosses it
  OutlierDistance,   \* distance from the median that is still an inlier
  MaxSpread,         \* root mean square distance from the centre
  DuplicateDistance, \* spots nearer than this are one spot
  DriftChecked       \* whether max_drift is above zero

ASSUME ConsensusAssumption ==
  /\ MinAgreeing \in Nat \ {0} /\ DriftChecked \in BOOLEAN
  /\ {MatchDistance, MaxPoseGap, EndTolerance, OutlierDistance, MaxSpread, DuplicateDistance} \subseteq Nat

Apart(p, q) == (p[1] - q[1]) * (p[1] - q[1]) + (p[2] - q[2]) * (p[2] - q[2])
Within(p, q, distance) == Apart(p, q) <= distance * distance

Joined(a, b) == a # b /\ Within(a, b, MaxPoseGap)

\* Where pose i, or the bar that begins at it, is on the plane: how far from the anchor.
Off(anchor, p) == IF p[2] < anchor[2] THEN anchor[2] - p[2] ELSE p[2] - anchor[2]

\* The bars that cross the plane, and the poses that lie near it, within the match distance.
Bars(anchor, poses) ==
  {i \in 1..(Len(poses) - 1) :
     /\ Joined(poses[i], poses[i + 1])
     /\ (poses[i][1] - anchor[1]) * (poses[i + 1][1] - anchor[1]) <= 0
     /\ Off(anchor, poses[i]) <= MatchDistance}
Ends(anchor, poses) ==
  {i \in DOMAIN poses : /\ poses[i][1] - anchor[1] \in -EndTolerance..EndTolerance
                        /\ Off(anchor, poses[i]) <= MatchDistance}

\* Poses near the plane count when no bar crosses it.
CrossingsOf(anchor, poses) ==
  IF Bars(anchor, poses) # {} THEN Bars(anchor, poses) ELSE Ends(anchor, poses)

\* Where the chain crosses the plane: at the nearest, of equals the last.
Lateral(anchor, poses) ==
  LET at == CrossingsOf(anchor, poses)
      off(i) == Off(anchor, poses[i])
  IN poses[CHOOSE i \in at : \A j \in at : off(i) < off(j) \/ (off(i) = off(j) /\ j <= i)][2]

\* The n-th least of the values of f on S.
Least(f, S, n) ==
  CHOOSE v \in {f[k] : k \in S} :
    /\ Cardinality({k \in S : f[k] < v}) < n
    /\ Cardinality({k \in S : f[k] <= v}) >= n

\* Twice the median.
TwiceMedian(f, S) ==
  LET n == Cardinality(S)
  IN IF n % 2 = 1 THEN 2 * Least(f, S, n \div 2 + 1) ELSE Least(f, S, n \div 2) + Least(f, S, n \div 2 + 1)

Total(f, S) == FoldFunctionOnSet(+, 0, f, S)

\* The root mean square distance from the mean is more than the most.
Spread(f, S) ==
  LET n == Cardinality(S)
      squares == [k \in S |-> f[k] * f[k]]
  IN n * Total(squares, S) - Total(f, S) * Total(f, S) > MaxSpread * MaxSpread * n * n

Size(n) == IF n < 0 THEN -n ELSE n

Refused(why) == [refusal |-> why, point |-> <<0, 0>>, frames |-> {}]

\* What the frames make of an anchor.
AgreeOn(anchor, frames) ==
  LET found == {k \in DOMAIN frames : CrossingsOf(anchor, frames[k]) # {}}
      lateral == [k \in found |-> Lateral(anchor, frames[k])]
      inliers == {k \in found : Size(2 * lateral[k] - TwiceMedian(lateral, found)) <= 2 * OutlierDistance}
  IN IF Cardinality(found) < MinAgreeing THEN Refused("TOO_FEW_FRAMES")
     ELSE IF Cardinality(inliers) < MinAgreeing THEN Refused("OUTLIERS")
     ELSE IF Spread(lateral, inliers) THEN Refused("SPREAD")
     ELSE [refusal |-> "NONE", frames |-> found,
           point |-> <<anchor[1], Total(lateral, inliers) \div Cardinality(inliers)>>]

\* The anchors, the newest frame's first.
Anchors(frames) ==
  IF frames = <<>> THEN <<>> ELSE Last(frames) \o FlattenSeq(Front(frames))

-----------------------------------------------------------------------------
VARIABLES
  next,      \* the anchor to be tried next
  tried,     \* anchors that were tried, and spots that were accepted
  accepted,  \* the spots, in their order
  drifting   \* whether the scene was found to have moved

consensusVars == <<next, tried, accepted, drifting>>

NothingTried == next' = 1 /\ tried' = {} /\ accepted' = <<>> /\ drifting' = FALSE

NearTried(anchor) == \E q \in tried : Within(q, anchor, DuplicateDistance)

\* Mutant of IsNew: a spot is compared with all that was tried, its own anchor among them.
IsNewToTried(spot, anchor) ==
  \A q \in tried \cup {anchor} : ~Within(q, spot.point, DuplicateDistance)

IsNew(spot, anchor) ==
  \A i \in DOMAIN accepted : ~Within(accepted[i].point, spot.point, DuplicateDistance)

TryAnchor(frames) ==
  /\ next <= Len(Anchors(frames))
  /\ next' = next + 1
  /\ LET anchor == Anchors(frames)[next]
         spot == AgreeOn(anchor, frames)
     IN IF NearTried(anchor) THEN UNCHANGED <<tried, accepted>>
        ELSE IF spot.refusal = "NONE" /\ IsNew(spot, anchor)
        THEN tried' = tried \cup {anchor, spot.point} /\ accepted' = Append(accepted, spot)
        ELSE tried' = tried \cup {anchor} /\ UNCHANGED accepted
  /\ UNCHANGED drifting

\* How far the scene moved over the frames is measured from two frames on, and may be
\* anything; with the check switched on it rejects the whole set.
DriftIsMeasured == Cardinality(UNION {accepted[i].frames : i \in DOMAIN accepted}) >= 2

Verdict(frames) ==
  /\ next > Len(Anchors(frames))
  /\ drifting' \in IF DriftChecked /\ DriftIsMeasured THEN BOOLEAN ELSE {FALSE}
  /\ UNCHANGED <<next, tried, accepted>>

Agreed == IF drifting THEN <<>> ELSE [i \in DOMAIN accepted |-> accepted[i].point]
=============================================================================
