------------------------------ MODULE MCPlanner ------------------------------
(* Two joints.  Postures lie 4 apart, so an edge between neighbours has one sample inside and a *)
(* longer one three.                                                                             *)
EXTENDS Planner

Plane == {0, 4, 8} \X {0, 4, 8}
Gap(a, b, i) == IF a[i] < b[i] THEN b[i] - a[i] ELSE a[i] - b[i]
Farthest(a, b) == IF Gap(a, b, 1) > Gap(a, b, 2) THEN Gap(a, b, 1) ELSE Gap(a, b, 2)

PlaneInterpolate(a, b, i, n) == [j \in 1..2 |-> a[j] + ((b[j] - a[j]) * i) \div n]
PlaneSamples(a, b) == IF a = b THEN 1 ELSE Farthest(a, b) \div 2
PlaneStep(a, b) ==
  [j \in 1..2 |-> IF b[j] > a[j] THEN a[j] + 4 ELSE IF b[j] < a[j] THEN a[j] - 4 ELSE a[j]]
PlaneTravel(a, b) == Gap(a, b, 1) + Gap(a, b, 2)

\* Nothing in the way; a way round; a start inside an obstacle; all walled in.
PlaneScenes ==
  { {}, {<<4, 0>>}, {<<0, 0>>, <<2, 0>>, <<2, 1>>, <<6, 4>>}, {<<2, 0>>, <<2, 1>>, <<2, 2>>, <<2, 4>>, <<2, 6>>, <<2, 8>>} }

Asked(one, two) == <<[postures |-> one, short |-> "JOINT_LIMIT"], [postures |-> two, short |-> "UNREACHABLE"]>>
PlaneRequests == { Asked({<<8, 0>>, <<4, 0>>}, {<<8, 4>>}), Asked({<<4, 0>>}, {}) }
PlaneFloor == {<<4, 0>>}
PlaneReadings == {<<0, 0>>, <<-1, 0>>, <<-9, 0>>}
PlaneSnap(q) == IF q[1] < -4 THEN NoNode ELSE <<IF q[1] < 0 THEN 0 ELSE q[1], q[2]>>
==============================================================================
