-------------------------------- MODULE BiRrt --------------------------------
(***************************************************************************)
(* The search for one path (planner/src/BiRrt.cpp): two trees of arm        *)
(* postures grown towards one another, the path read off them by their      *)
(* parents, and shortcuts.  The actions here are the steps of plan();       *)
(* module Planner runs them for one goal after another.                     *)
(*                                                                          *)
(* What a posture is, how far two are apart and what lies between them are  *)
(* parameters: the search only compares distances and checks postures.      *)
(***************************************************************************)
EXTENDS Integers, Sequences, FiniteSets

CONSTANTS
  Joints,               \* postures within the limits of the joints
  NoNode,               \* the parent of a tree's root
  Distance(_, _),       \* jointDistance
  Interpolate(_, _, _, _),  \* the posture i n-ths of the way from one to another
  Samples(_, _),        \* pieces that edgeClear divides an edge into
  Step(_, _),           \* the posture extend_step from one towards another
  ExtendStep,
  MaxIterations, ShortcutAttempts

ASSUME NodesAssumption == NoNode \notin Joints
ASSUME EdgesAssumption ==
  \A a, b \in Joints :
    /\ Samples(a, b) \in Nat \ {0} /\ Samples(a, b) = Samples(b, a)
    /\ \A i \in 1..(Samples(a, b) - 1) :
         Interpolate(a, b, i, Samples(a, b)) = Interpolate(b, a, Samples(a, b) - i, Samples(a, b))
    /\ Distance(a, b) \in Nat
    /\ Step(a, b) \in Joints
    /\ Distance(a, b) > ExtendStep => Distance(Step(a, b), b) < Distance(a, b)
ASSUME SearchAssumption == {ExtendStep, MaxIterations, ShortcutAttempts} \subseteq Nat

VARIABLES
  stage,     \* where plan() is
  blocked,   \* postures at which the arm collides
  start, goal,
  tree,      \* for each of the two trees, its postures with their parents
  growing, iteration,
  aim,       \* the posture both trees are to share
  node,      \* where the reading off has got to
  corners, attempt

treeVars == <<tree, growing, iteration, aim>>
pathVars == <<node, corners, attempt>>
rrtVars == <<stage, blocked, start, goal, treeVars, pathVars>>

Sides == {"start", "goal"}
Other(side) == IF side = "start" THEN "goal" ELSE "start"

\* The strides of edgeClear on n pieces: 1, and twice every stride while that is less than n.
Strides(n) ==
  {s \in 1..n : \A T \in SUBSET (1..n) : 1 \in T /\ (\A t \in T : 2 * t < n => 2 * t \in T) => s \in T}

\* Mutant of Looked: the last round, at stride 1, is left out.
LookedCoarsely(n) == {i \in 1..(n - 1) : \E s \in Strides(n) \ {1}, k \in 0..n : i = s + 2 * s * k}

\* The samples looked at, coarse to fine: of every stride the odd multiples.
Looked(n) == {i \in 1..(n - 1) : \E s \in Strides(n), k \in 0..n : i = s + 2 * s * k}

LookedAt == [n \in {Samples(e[1], e[2]) : e \in Joints \X Joints} |-> Looked(n)]

\* edgeClear: the inside of the edge; its ends are not looked at.
EdgeClear(a, b) ==
  LET n == Samples(a, b) IN {Interpolate(a, b, i, n) : i \in LookedAt[n]} \cap blocked = {}

Nearest(t, q) == {n \in DOMAIN t : \A m \in DOMAIN t : Distance(n, q) <= Distance(m, q)}

\* Mutant of Towards: extend_step / distance in whole numbers, a step of nothing.
TowardsByNothing(n, q) == IF Distance(n, q) <= ExtendStep THEN q ELSE n

\* The posture that extend would add to reach q from the node nearest to it.
Towards(n, q) == IF Distance(n, q) <= ExtendStep THEN q ELSE Step(n, q)

\* Whether extend adds a node, from n towards q.
Extends(t, n, q) ==
  /\ q \notin DOMAIN t
  /\ Towards(n, q) \notin blocked
  /\ EdgeClear(n, Towards(n, q))

Grown(t, n, q) == [m \in DOMAIN t \cup {Towards(n, q)} |-> IF m = Towards(n, q) THEN n ELSE t[m]]

NoTrees == [s \in Sides |-> <<>>]

\* plan() leaves, or reads its trees no more.
TreesGone == tree' = NoTrees /\ growing' = "start" /\ iteration' = 0 /\ aim' = NoNode

Planted(q) == [m \in {q} |-> NoNode]

-----------------------------------------------------------------------------
\* A straight line is tried first.
Straight ==
  /\ stage = "begin" /\ EdgeClear(start, goal)
  /\ corners' = <<start, goal>>
  /\ stage' = "found"
  /\ UNCHANGED <<blocked, start, goal, treeVars, node, attempt>>

Plant ==
  /\ stage = "begin" /\ ~EdgeClear(start, goal)
  /\ tree' = [s \in Sides |-> IF s = "start" THEN Planted(start) ELSE Planted(goal)]
  /\ growing' = "start" /\ iteration' = 0
  /\ stage' = "growing"
  /\ UNCHANGED <<blocked, start, goal, aim, pathVars>>

\* The iterations are used up, or the time is.
GiveUp ==
  /\ stage = "growing"
  /\ stage' = "failed" /\ TreesGone
  /\ UNCHANGED <<blocked, start, goal, pathVars>>

\* The next iteration grows the other tree.
Swapped == growing' = Other(growing) /\ iteration' = iteration + 1

Grow ==
  /\ stage = "growing" /\ iteration < MaxIterations
  /\ \E q \in Joints : \E n \in Nearest(tree[growing], q) :
       \/ /\ Extends(tree[growing], n, q)
          /\ tree' = [tree EXCEPT ![growing] = Grown(@, n, q)]
          /\ aim' = Towards(n, q)
          /\ stage' = "connecting"
          /\ UNCHANGED <<growing, iteration>>
       \/ ~Extends(tree[growing], n, q) /\ Swapped /\ UNCHANGED <<tree, aim, stage>>
  /\ UNCHANGED <<blocked, start, goal, pathVars>>

\* connect() extends the other tree until it reaches the new posture or is blocked; no
\* clock stops it.
Reach ==
  /\ stage = "connecting" /\ aim \notin DOMAIN tree[Other(growing)]
  /\ \E n \in Nearest(tree[Other(growing)], aim) :
       \/ /\ Extends(tree[Other(growing)], n, aim)
          /\ tree' = [tree EXCEPT ![Other(growing)] = Grown(@, n, aim)]
          /\ UNCHANGED <<stage, growing, iteration>>
       \/ /\ ~Extends(tree[Other(growing)], n, aim)
          /\ stage' = "growing" /\ Swapped /\ UNCHANGED tree
  /\ UNCHANGED <<blocked, start, goal, aim, pathVars>>

Join ==
  /\ stage = "connecting" /\ aim \in DOMAIN tree[Other(growing)]
  /\ stage' = "to_start" /\ node' = aim /\ corners' = <<>>
  /\ UNCHANGED <<blocked, start, goal, treeVars, attempt>>

\* The path is read off from the shared posture back to the start, and turned round;
ReadToStart ==
  /\ stage = "to_start"
  /\ corners' = <<node>> \o corners
  /\ IF tree["start"][node] # NoNode
     THEN node' = tree["start"][node] /\ UNCHANGED stage
     ELSE node' = tree["goal"][aim] /\ stage' = "to_goal"
  /\ UNCHANGED <<blocked, start, goal, treeVars, attempt>>

\* then from that posture's parent on to the goal.
ReadToGoal ==
  /\ stage = "to_goal"
  /\ IF node # NoNode
     THEN corners' = Append(corners, node) /\ node' = tree["goal"][node] /\ UNCHANGED <<stage, treeVars, attempt>>
     ELSE stage' = "shortcutting" /\ attempt' = 0 /\ TreesGone /\ UNCHANGED <<corners, node>>
  /\ UNCHANGED <<blocked, start, goal>>

\* What is left of a path when the corners between the i-th and the k-th go.
Without(path, i, k) == SubSeq(path, 1, i) \o SubSeq(path, k, Len(path))

Shortcut ==
  /\ stage = "shortcutting" /\ attempt < ShortcutAttempts /\ Len(corners) > 2
  /\ attempt' = attempt + 1
  /\ \/ \E i, k \in 1..Len(corners) :
          /\ k - i > 1 /\ EdgeClear(corners[i], corners[k])
          /\ corners' = Without(corners, i, k)
     \/ UNCHANGED corners
  /\ UNCHANGED <<stage, blocked, start, goal, treeVars, node>>

\* The attempts, the corners or the time are used up.
Settle ==
  /\ stage = "shortcutting"
  /\ stage' = "found" /\ attempt' = 0 /\ node' = NoNode
  /\ UNCHANGED <<blocked, start, goal, treeVars, corners>>

Rrt == Straight \/ Plant \/ GiveUp \/ Grow \/ Reach \/ Join \/ ReadToStart \/ ReadToGoal \/ Shortcut \/ Settle
==============================================================================
