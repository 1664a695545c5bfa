----------------------------- MODULE MCPipeline -----------------------------
(* Four columns and seven rows of cells, three across.  Bars lie along the rows; a scene has a   *)
(* wall behind the bar, and what one frame sees through or the filter does not support differs.  *)
EXTENDS Pipeline

Straightly(y, xs) == [i \in DOMAIN xs |-> <<xs[i], y>>]

\* Points on the row of the bar, in the cells of a stripe beside it, and a loose one.
Seen(poses, row, loose) ==
  [poses |-> poses,
   points |-> [c \in Cells |-> IF c[2] = row THEN 2 ELSE IF c = loose THEN 1 ELSE 0],
   supported |-> [c \in Cells |-> IF c[2] = row THEN 2 ELSE 0],
   through |-> {c \in Cells : c[1] = 3}]

\* A bar; the bar a little to the side, half a step along; the same far off; two bars in one view.
PlaneShots ==
  { Seen(Straightly(6, <<0, 6>>), 2, <<0, 3>>),
    Seen(Straightly(12, <<3, 9>>), 3, <<3, 5>>),
    Seen(Straightly(18, <<0, 6, 11>>), 3, <<1, 3>>),
    Seen(Straightly(0, <<0, 6>>) \o Straightly(12, <<6, 0>>), 4, <<2, 0>>) }

PlaneWindows == UNION {[1..n -> PlaneShots] : n \in 1..3}
PlaneBar(p, q) == {c \in Cells : c[2] = p[2] \div Voxel /\ (c[1] * Voxel - p[1]) * (c[1] * Voxel - q[1]) <= 0}
PlaneCorridor(p) == {c \in Cells : c[1] = p[1] \div Voxel /\ c[2] \in (p[2] \div Voxel)..SizeY}
PlaneInReach(p) == p[1] < 11
=============================================================================
