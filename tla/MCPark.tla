------------------------------ MODULE MCPark ------------------------------
(***************************************************************************)
(* A park node small enough for TLC: two spots to drive to, one straight   *)
(* ahead and one to the side with a quarter turn, so that the second drive *)
(* starts somewhere else and turned.                                       *)
(***************************************************************************)
EXTENDS Park

At(x, y, yaw) == [x |-> x, y |-> y, yaw |-> yaw]
MCDisplacements == {At(2, 0, 0), At(0, 1, 1)}

Says(screened, solid, routes, solidRoutes) ==
  [screened |-> screened, solid |-> solid, routes |-> routes, solidRoutes |-> solidRoutes]
\* Nothing held; contacts that the screening missed, in a hold and in a route; one hold
\* without a route; one with; two with one route between them, and two of which one is
\* a contact that the screening missed.
MCVerdicts ==
  {Says(0, 0, 0, 0), Says(1, 0, 1, 0), Says(1, 1, 1, 0), Says(1, 1, 0, 0), Says(1, 1, 1, 1),
   Says(2, 2, 1, 1), Says(2, 1, 1, 1)}

\* An open scene, one with something half way ahead, one with something where the side
\* spot leads.
MCObstacles == {{}, {At(1, 0, 0)}, {At(0, 1, 1)}}
=============================================================================
