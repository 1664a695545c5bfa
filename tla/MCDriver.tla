-------------------------------- MODULE MCDriver --------------------------------
(* The driver on its own for TLC: a jaw and one joint.                           *)
EXTENDS Driver, TLC

SomeHome == (1 :> 2) @@ (2 :> 1)

\* Both joints, one of them, one out of its limits, and one that the arm has not got.
SomeRequests == {(1 :> 1) @@ (2 :> 3), 2 :> 0, (1 :> 0) @@ (2 :> 4), 3 :> 0}
================================================================================
