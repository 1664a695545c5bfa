------------------------------- MODULE MCArmLoop -------------------------------
(* The executor, the driver and a small arm for TLC: a jaw and two joints.    *)
EXTENDS ArmLoop, TLC

P(a, b) == (2 :> a) @@ (3 :> b)

\* One joint after the other, both at once, nothing to do, and a path that cannot be
\* read.
SomePaths == {<<P(0, 0), P(8, 0), P(8, 8)>>, <<P(0, 0), P(12, 5)>>, <<P(0, 0)>>, <<>>}
SomeMoved == {2, 3}
SomeHome == (1 :> 0) @@ P(0, 0)

\* The parameters of the run are such as the theorems are about.
ASSUME VerdictsAreTimely == PathsAreLegal /\ ContactIsTimely /\ FollowingShows
================================================================================
