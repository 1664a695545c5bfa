------------------------------ MODULE MCReachCache -----------------------------
(* The reach table for TLC: three geometries, two of them with grids of one size. *)
EXTENDS ReachCache, TLC

CONSTANTS g1, g2, g3

SomeGeometries == {g1, g2, g3}
SomeCells == (g1 :> 2) @@ (g2 :> 2) @@ (g3 :> 3)
================================================================================
