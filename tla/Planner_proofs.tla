---------------------------- MODULE Planner_proofs ----------------------------
(* Proofs about the planner: the path it chooses is clear, all along, it is the cheapest of   *)
(* those found, and the outcomes of the candidates are what became of them.  And about the     *)
(* reach table it runs with: what is loaded is what is wanted.                                 *)
EXTENDS Planner, ReachCache, FiniteSetTheorems, SequenceTheorems, TLAPS

(* A set of numbers up to n has a least element.  Were there none, the numbers below all of  *)
(* the set would be closed under adding one, which a finite set that holds 0 is not.         *)
LEMMA LeastElement ==
  ASSUME NEW n \in Nat, NEW S \in SUBSET (0..n), S # {}
  PROVE  \E m \in S : \A s \in S : m <= s
<1> SUFFICES ASSUME \A m \in S : \E s \in S : s < m
             PROVE  FALSE
  OBVIOUS
<1> DEFINE D == {x \in 0..n : \A s \in S : x < s}
           f == [x \in D |-> x + 1]
<1>1. 0 \in D
  OBVIOUS
<1>2. \A x \in D : x + 1 \in D \ {0}
  <2> SUFFICES ASSUME NEW x \in D PROVE x + 1 \in D \ {0}
    OBVIOUS
  <2>1. x \in Nat /\ \A s \in S : s \in Nat /\ s <= n /\ x + 1 <= s
    OBVIOUS
  <2>2. x + 1 \notin S
    BY <2>1
  <2>3. \A s \in S : x + 1 < s
    BY <2>1, <2>2
  <2>4. x + 1 \in 0..n
    <3>1. PICK s \in S : TRUE
      OBVIOUS
    <3> QED BY <2>1, <3>1
  <2>5. x + 1 \in D
    BY <2>3, <2>4
  <2> QED BY <2>1, <2>5
<1>3. IsFiniteSet(0..n)
  BY FS_Interval
<1>4. IsFiniteSet(D)
  BY <1>3, FS_Subset
<1>5. IsFiniteSet(D \ {0}) /\ Cardinality(D \ {0}) = Cardinality(D) - 1
  BY <1>1, <1>4, FS_RemoveElement
<1>6. Cardinality(D) \in Nat
  BY <1>4, FS_CardinalityType
<1>7. f \in [D -> D \ {0}]
  BY <1>2
<1>8. Cardinality(D \ {0}) < Cardinality(D)
  BY <1>5, <1>6
<1> HIDE DEF f
<1>9. \E x, y \in D : x # y /\ f[x] = f[y]
  BY <1>4, <1>5, <1>7, <1>8, FS_PigeonHole
<1> QED BY <1>9 DEF f

(* edgeClear's rounds look at every sample between the ends: an odd one in the last round,   *)
(* an even one in the round of twice the stride that looks at its half.                      *)
LEMMA StridesCover ==
  ASSUME NEW n \in Nat
  PROVE  Looked(n) = 1..(n - 1)
<1>1. Looked(n) \subseteq 1..(n - 1)
  BY DEF Looked
<1> DEFINE Missed == (1..(n - 1)) \ Looked(n)
<1>2. Missed = {}
  <2> SUFFICES ASSUME Missed # {} PROVE FALSE
    OBVIOUS
  <2>1. Missed \in SUBSET (0..n)
    OBVIOUS
  <2> HIDE DEF Missed
  <2>2. PICK m \in Missed : \A s \in Missed : m <= s
    BY <2>1, LeastElement
  <2>3. m \in 1..(n - 1) /\ m \notin Looked(n)
    BY DEF Missed
  <2>4. PICK h \in Nat : m = 2 * h \/ m = 2 * h + 1
    <3>1. m = 2 * (m \div 2) \/ m = 2 * (m \div 2) + 1
      BY <2>3
    <3>2. m \div 2 \in Nat
      BY <2>3
    <3> QED BY <3>1, <3>2
  <2>5. 1 \in Strides(n)
    BY <2>3 DEF Strides
  <2>6. CASE m = 2 * h + 1
    <3>1. h \in 0..n /\ m = 1 + 2 * 1 * h
      BY <2>3, <2>6
    <3> QED BY <2>3, <2>5, <3>1 DEF Looked
  <2>7. CASE m = 2 * h
    <3>1. h \in 1..(n - 1) /\ h < m
      BY <2>3, <2>7
    <3>2. h \in Looked(n)
      BY <2>2, <3>1 DEF Missed
    <3>3. PICK s \in Strides(n), k \in 0..n : h = s + 2 * s * k
      BY <3>2 DEF Looked
    <3>4. s \in 1..n /\ s * k \in Nat /\ 2 * s * k = 2 * (s * k)
      BY <3>3 DEF Strides
    <3>5. 2 * s < n
      BY <2>3, <2>7, <3>3, <3>4
    <3>6. 2 * s \in Strides(n)
      BY <3>3, <3>4, <3>5 DEF Strides
    <3>7. m = 2 * s + 2 * (2 * s) * k
      <4>1. 2 * (2 * s) * k = 4 * (s * k)
        BY <3>4
      <4> QED BY <2>7, <3>3, <3>4, <4>1
    <3> QED BY <2>3, <3>3, <3>6, <3>7 DEF Looked
  <2> QED BY <2>4, <2>6, <2>7
<1> QED BY <1>1, <1>2


-----------------------------------------------------------------------------
(* Clear edges, trees and paths. *)
Clear(a, b) == Inside(a, b) \cap blocked = {}

Good(p) == \A k \in 2..Len(p) : p[k] \notin blocked /\ Clear(p[k - 1], p[k])

TreeOK(t, root) ==
  /\ DOMAIN t \subseteq Joints
  /\ t \in [DOMAIN t -> DOMAIN t \cup {NoNode}]
  /\ \A n \in DOMAIN t : t[n] = NoNode => n = root
  /\ \A n \in DOMAIN t : t[n] # NoNode => n \notin blocked /\ Clear(t[n], n)

LEMMA EdgeIsClear ==
  ASSUME NEW a \in Joints, NEW b \in Joints
  PROVE  EdgeClear(a, b) <=> Clear(a, b)
<1>1. Samples(a, b) \in Nat
  BY EdgesAssumption
<1>2. LookedAt[Samples(a, b)] = 1..(Samples(a, b) - 1)
  <2>1. <<a, b>> \in Joints \X Joints
    OBVIOUS
  <2>2. Samples(a, b) \in {Samples(e[1], e[2]) : e \in Joints \X Joints}
    BY <2>1
  <2> QED BY <1>1, <2>2, StridesCover DEF LookedAt
<1> QED BY <1>2 DEF EdgeClear, Clear, Inside

LEMMA ClearBothWays ==
  ASSUME NEW a \in Joints, NEW b \in Joints, Clear(a, b)
  PROVE  Clear(b, a)
<1> DEFINE n == Samples(a, b)
<1>1. n \in Nat /\ Samples(b, a) = n
  BY EdgesAssumption
<1>2. SUFFICES ASSUME NEW i \in 1..(n - 1) PROVE Interpolate(b, a, i, n) \notin blocked
  BY <1>1 DEF Clear, Inside
<1>3. n - i \in 1..(n - 1) /\ n - (n - i) = i
  BY <1>1, <1>2
<1>4. Interpolate(a, b, n - i, n) = Interpolate(b, a, i, n)
  BY <1>1, <1>3, EdgesAssumption
<1>5. Interpolate(a, b, n - i, n) \notin blocked
  BY <1>3 DEF Clear, Inside
<1> QED BY <1>4, <1>5

LEMMA GrownOK ==
  ASSUME NEW t, NEW root, TreeOK(t, root), NEW q \in Joints, NEW n \in Nearest(t, q), Extends(t, n, q)
  PROVE  /\ Towards(n, q) \in Joints
         /\ TreeOK(Grown(t, n, q), root)
         /\ DOMAIN Grown(t, n, q) = DOMAIN t \cup {Towards(n, q)}
         /\ Grown(t, n, q)[Towards(n, q)] # NoNode
<1> DEFINE p == Towards(n, q)
<1>1. n \in DOMAIN t /\ n \in Joints
  BY DEF Nearest, TreeOK
<1>2. p \in Joints
  BY <1>1, EdgesAssumption DEF Towards
<1>3. p \notin blocked /\ EdgeClear(n, p)
  BY DEF Extends
<1>4. Clear(n, p)
  BY <1>1, <1>2, <1>3, EdgeIsClear
<1>5. n # NoNode
  BY <1>1, NodesAssumption
<1> HIDE DEF p
<1>6. Grown(t, n, q) = [m \in DOMAIN t \cup {p} |-> IF m = p THEN n ELSE t[m]]
  BY DEF Grown, p
<1>7. TreeOK(Grown(t, n, q), root)
  BY <1>1, <1>2, <1>3, <1>4, <1>5, <1>6 DEF TreeOK
<1> QED BY <1>2, <1>5, <1>6, <1>7 DEF p

LEMMA GoodFront ==
  ASSUME NEW p \in Seq(Joints), NEW n \in Joints, Good(p), p # <<>> => p[1] \notin blocked /\ Clear(n, p[1])
  PROVE  Good(<<n>> \o p)
<1> DEFINE r == <<n>> \o p
<1>1. Len(r) = Len(p) + 1 /\ r[1] = n /\ \A k \in 2..Len(r) : r[k] = p[k - 1]
  OBVIOUS
<1> HIDE DEF r
<1>2. ASSUME NEW k \in 2..Len(r) PROVE r[k] \notin blocked /\ Clear(r[k - 1], r[k])
  <2>1. CASE k = 2
    BY <1>1, <2>1
  <2>2. CASE k # 2
    <3>1. k - 1 \in 2..Len(p) /\ r[k] = p[k - 1] /\ r[k - 1] = p[(k - 1) - 1]
      BY <1>1, <1>2, <2>2
    <3> QED BY <3>1 DEF Good
  <2> QED BY <2>1, <2>2
<1> QED BY <1>2 DEF Good, r

LEMMA GoodBack ==
  ASSUME NEW p \in Seq(Joints), NEW n \in Joints, Good(p), p # <<>>, n \notin blocked, Clear(p[Len(p)], n)
  PROVE  Good(Append(p, n))
<1> DEFINE r == Append(p, n)
<1>1. Len(r) = Len(p) + 1 /\ r[Len(p) + 1] = n /\ \A k \in 1..Len(p) : r[k] = p[k]
  OBVIOUS
<1> HIDE DEF r
<1>2. ASSUME NEW k \in 2..Len(r) PROVE r[k] \notin blocked /\ Clear(r[k - 1], r[k])
  <2>1. CASE k = Len(p) + 1
    BY <1>1, <2>1
  <2>2. CASE k # Len(p) + 1
    <3>1. k \in 2..Len(p) /\ r[k] = p[k] /\ r[k - 1] = p[k - 1]
      BY <1>1, <1>2, <2>2
    <3> QED BY <3>1 DEF Good
  <2> QED BY <2>1, <2>2
<1> QED BY <1>2 DEF Good, r

LEMMA GoodWithout ==
  ASSUME NEW p \in Seq(Joints), NEW i \in 1..Len(p), NEW k \in 1..Len(p), k - i > 1, Good(p), Clear(p[i], p[k])
  PROVE  LET r == Without(p, i, k)
         IN  r \in Seq(Joints) /\ Len(r) > 1 /\ Good(r) /\ r[1] = p[1] /\ r[Len(r)] = p[Len(p)]
<1> DEFINE r == Without(p, i, k)
           short == (k - i) - 1
<1>1. r \in Seq(Joints) /\ Len(r) = Len(p) - short
  BY DEF Without
<1>2. \A m \in 1..i : r[m] = p[m]
  BY DEF Without
<1>3. ASSUME NEW m \in (i + 1)..Len(r) PROVE r[m] = p[m + short]
  <2> DEFINE head == SubSeq(p, 1, i)
             tail == SubSeq(p, k, Len(p))
  <2>1. r = head \o tail
    BY DEF Without
  <2>2. head \in Seq(Joints) /\ Len(head) = i
    OBVIOUS
  <2>3. /\ tail \in Seq(Joints) /\ Len(tail) = (Len(p) - k) + 1
        /\ \A x \in 1..Len(tail) : tail[x] = p[(k + x) - 1]
    OBVIOUS
  <2>4. m - i \in 1..Len(tail) /\ (k + (m - i)) - 1 = m + short
    BY <1>1, <2>3
  <2> HIDE DEF head, tail, r, short
  <2>5. r[m] = tail[m - i]
    BY <2>1, <2>2, <2>3, <2>4
  <2>6. tail[m - i] = p[(k + (m - i)) - 1]
    BY <2>3, <2>4
  <2> QED BY <2>4, <2>5, <2>6
<1>4. Len(p) \in Nat /\ short \in Nat /\ i + short + 1 = k
  OBVIOUS
<1> HIDE DEF r
<1>5. Len(r) > 1 /\ r[1] = p[1] /\ r[Len(r)] = p[Len(p)]
  BY <1>1, <1>2, <1>3, <1>4
<1>6. ASSUME NEW m \in 2..Len(r) PROVE r[m] \notin blocked /\ Clear(r[m - 1], r[m])
  <2>1. CASE m <= i
    <3>1. m \in 2..Len(p) /\ r[m] = p[m] /\ r[m - 1] = p[m - 1]
      BY <1>2, <1>6, <2>1
    <3> QED BY <3>1 DEF Good
  <2>2. CASE m = i + 1
    <3>1. r[m] = p[k] /\ r[m - 1] = p[i] /\ k \in 2..Len(p)
      BY <1>1, <1>2, <1>3, <1>4, <1>6, <2>2
    <3> QED BY <3>1 DEF Good
  <2>3. CASE m > i + 1
    <3>1. m + short \in 2..Len(p) /\ r[m] = p[m + short] /\ r[m - 1] = p[(m + short) - 1]
      BY <1>1, <1>3, <1>4, <1>6, <2>3
    <3> QED BY <3>1 DEF Good
  <2> QED BY <1>6, <2>1, <2>2, <2>3
<1> QED BY <1>1, <1>5, <1>6 DEF Good, r

-----------------------------------------------------------------------------
(* What holds all along: a goal being tried is clear and holds its candidate; both trees are  *)
(* trees of clear edges with the start and the goal at their roots; the posture they share    *)
(* was added to one of them, so a path has two ends; what has been read off so far is clear.  *)
Searching == {"begin", "growing", "connecting", "to_start", "to_goal", "shortcutting", "found", "failed"}

Holds(c, q) == c \in Candidates /\ q \in Joints /\ q \notin blocked /\ q \in request[c].postures

GoalsOK ==
  /\ index \in Nat \ {0}
  /\ stage \in Searching \cup {"finding", "choosing"} => start \in Joints /\ request \in Requests
  /\ \A g \in goals : Holds(g.candidate, g.joints)
  /\ stage \in Searching => Holds(trying, goal)

TreesOK ==
  stage \in {"growing", "connecting", "to_start", "to_goal"} =>
    /\ growing \in Sides /\ DOMAIN tree = Sides
    /\ TreeOK(tree["start"], start) /\ TreeOK(tree["goal"], goal)

SharedOK ==
  /\ stage \in {"connecting", "to_start"} =>
       aim \in Joints /\ aim \in DOMAIN tree[growing] /\ tree[growing][aim] # NoNode
  /\ stage \in {"to_start", "to_goal"} => aim \in DOMAIN tree["start"] /\ aim \in DOMAIN tree["goal"]

ReadOK ==
  /\ stage = "to_start" =>
       /\ corners \in Seq(Joints) /\ Good(corners) /\ node \in DOMAIN tree["start"]
       /\ corners = <<>> => node = aim
       /\ corners # <<>> => /\ corners[Len(corners)] = aim
                            /\ corners[1] \notin blocked /\ Clear(node, corners[1])
  /\ stage = "to_goal" =>
       /\ corners \in Seq(Joints) /\ Good(corners) /\ corners # <<>> /\ corners[1] = start
       /\ corners[Len(corners)] \in DOMAIN tree["goal"]
       /\ node = tree["goal"][corners[Len(corners)]]
       /\ Len(corners) > 1 \/ node # NoNode
  /\ stage \in {"shortcutting", "found"} =>
       /\ corners \in Seq(Joints) /\ Good(corners) /\ Len(corners) > 1 /\ corners[1] = start
       /\ corners[Len(corners)] = goal

PathInv == GoalsOK /\ TreesOK /\ SharedOK /\ ReadOK /\ PathIsClear

LEMMA InitPath == Init => PathInv
BY DEF Init, PathInv, GoalsOK, TreesOK, SharedOK, ReadOK, PathIsClear, Searching, NoResult

(* The steps of the loop over the candidates. *)
LEMMA LoopKeepsPath ==
  ASSUME PathInv, Refuse \/ OnPlan \/ FindGraspGoals \/ Sort \/ Cancel \/ NextGoal \/ NoPath \/ Keep \/ Enough \/ Answer
                  \/ Preempt
  PROVE  PathInv'
<1> USE DEF PathInv, Searching, NoResult
<1>1. CASE Refuse
  BY <1>1 DEF Refuse, Accept, GoalsOK, TreesOK, SharedOK, ReadOK, PathIsClear
<1>2. CASE OnPlan
  <2>1. PICK scene \in Scenes, r \in Requests, q \in Readings :
          /\ blocked' = scene /\ request' = r /\ start' = Snap(q)
          /\ IF Snap(q) = NoNode THEN stage' = "done" ELSE stage' \in {"finding", "done"}
    BY <1>2 DEF OnPlan
  <2>2. stage' = "finding" => start' \in Joints
    BY <2>1, RequestsAssumption
  <2> QED BY <1>2, <2>1, <2>2 DEF OnPlan, Accept, GoalsOK, TreesOK, SharedOK, ReadOK, PathIsClear
<1>3. CASE FindGraspGoals
  <2>1. index \in Candidates
    BY <1>3, CandidatesAssumption DEF FindGraspGoals, GoalsOK, Candidates
  <2>2. Holding(index) \subseteq Joints
    BY <1>3, <2>1, RequestsAssumption DEF FindGraspGoals, GoalsOK, Holding
  <2>3. \A q \in Holding(index) : Holds(index, q)
    BY <2>1, <2>2 DEF Holds, Holding
  <2>4. GoalsOK'
    BY <1>3, <2>3 DEF FindGraspGoals, GoalsOK, Holds, rrtVars
  <2>5. TreesOK' /\ SharedOK' /\ ReadOK'
    BY <1>3 DEF FindGraspGoals, TreesOK, SharedOK, ReadOK, rrtVars
  <2>6. PathIsClear'
    BY <1>3 DEF FindGraspGoals, PathIsClear, PathClear, Inside, rrtVars
  <2> QED BY <2>4, <2>5, <2>6
<1>4. CASE Sort
  <2>1. GoalsOK'
    BY <1>4 DEF Sort, GoalsOK, Holds, loopVars
  <2>2. TreesOK' /\ SharedOK' /\ ReadOK'
    BY <1>4 DEF Sort, TreesOK, SharedOK, ReadOK
  <2>3. PathIsClear'
    BY <1>4 DEF Sort, PathIsClear, PathClear, Inside, loopVars
  <2> QED BY <2>1, <2>2, <2>3
<1>5. CASE Cancel
  <2>1. GoalsOK'
    BY <1>5 DEF Cancel, GoalsOK, Holds
  <2>2. TreesOK' /\ SharedOK' /\ ReadOK' /\ stage' = "done"
    BY <1>5 DEF Cancel, TreesOK, SharedOK, ReadOK
  <2>3. PathIsClear'
    <3>1. result' = [result EXCEPT !.success = FALSE] /\ UNCHANGED <<blocked, start, request>>
      BY <1>5 DEF Cancel
    <3> QED BY <3>1 DEF PathIsClear, PathClear, Inside
  <2> QED BY <2>1, <2>2, <2>3
<1>6. CASE NextGoal
  <2>1. PICK g \in Cheapest : goal' = g.joints /\ trying' = g.candidate /\ goals' = goals \ {g}
    BY <1>6 DEF NextGoal
  <2>2. g \in goals
    BY DEF Cheapest
  <2>3. GoalsOK'
    BY <1>6, <2>1, <2>2 DEF NextGoal, GoalsOK, Holds
  <2>4. TreesOK' /\ SharedOK' /\ ReadOK'
    BY <1>6 DEF NextGoal, TreesOK, SharedOK, ReadOK
  <2>5. PathIsClear'
    BY <1>6 DEF NextGoal, PathIsClear, PathClear, Inside
  <2> QED BY <2>3, <2>4, <2>5
<1>7. CASE NoPath
  <2>1. GoalsOK'
    BY <1>7 DEF NoPath, GoalsOK, Holds
  <2>2. TreesOK' /\ SharedOK' /\ ReadOK'
    BY <1>7 DEF NoPath, TreesOK, SharedOK, ReadOK
  <2>3. PathIsClear'
    BY <1>7 DEF NoPath, PathIsClear, PathClear, Inside
  <2> QED BY <2>1, <2>2, <2>3
<1>8. CASE Keep
  <2>1. GoalsOK'
    BY <1>8 DEF Keep, GoalsOK, Holds
  <2>2. TreesOK' /\ SharedOK' /\ ReadOK'
    BY <1>8 DEF Keep, TreesOK, SharedOK, ReadOK
  <2>3. CASE Better(Cost(corners))
    <3>1. /\ result'.path = corners /\ result'.chosen = trying
          /\ UNCHANGED <<blocked, start, request>>
      BY <1>8, <2>3 DEF Keep
    <3>2. /\ Good(corners) /\ Len(corners) > 1 /\ corners[1] = start
          /\ corners[Len(corners)] = goal /\ goal \in request[trying].postures
      BY <1>8 DEF Keep, ReadOK, GoalsOK, Holds
    <3>3. PathIsClear'
      BY <3>1, <3>2 DEF PathIsClear, PathClear, Inside, Good, Clear
    <3> QED BY <2>1, <2>2, <3>3
  <2>4. CASE ~Better(Cost(corners))
    <3>1. UNCHANGED <<result, blocked, start, request>>
      BY <1>8, <2>4 DEF Keep
    <3>2. PathIsClear'
      BY <3>1 DEF PathIsClear, PathClear, Inside
    <3> QED BY <2>1, <2>2, <3>2
  <2> QED BY <2>3, <2>4
<1>9. CASE Enough \/ Answer
  <2>1. GoalsOK'
    BY <1>9 DEF Enough, Answer, GoalsOK, Holds, loopVars
  <2>2. TreesOK' /\ SharedOK' /\ ReadOK'
    BY <1>9 DEF Enough, Answer, TreesOK, SharedOK, ReadOK
  <2>3. PathIsClear'
    BY <1>9 DEF Enough, Answer, PathIsClear, PathClear, Inside, loopVars
  <2> QED BY <2>1, <2>2, <2>3
<1>10. CASE Preempt
  BY <1>10 DEF Preempt, rrtVars, loopVars, treeVars, pathVars, GoalsOK, Holds, TreesOK, SharedOK, ReadOK, PathIsClear,
               PathClear, TreeOK, Good, Clear, Inside
<1> QED BY <1>1, <1>2, <1>3, <1>4, <1>5, <1>6, <1>7, <1>8, <1>9, <1>10

(* The steps of a search leave the goals and the plan alone, *)
LEMMA SearchKeepsRest ==
  ASSUME PathInv, Search
  PROVE  GoalsOK' /\ PathIsClear'
<1>1. stage \in Searching /\ stage' \in Searching /\ UNCHANGED <<blocked, start, goal>>
  BY DEF Search, Rrt, Straight, Plant, GiveUp, Grow, Reach, Join, ReadToStart, ReadToGoal, Shortcut, Settle, Searching
<1>2. UNCHANGED loopVars
  BY DEF Search
<1> QED BY <1>1, <1>2 DEF PathInv, GoalsOK, Holds, PathIsClear, PathClear, Inside, loopVars

(* and keep the trees and the path clear. *)
LEMMA SearchKeepsPath ==
  ASSUME PathInv, Search
  PROVE  PathInv'
<1>1. GoalsOK' /\ PathIsClear'
  BY SearchKeepsRest
<1>2. /\ stage \in Searching => start \in Joints /\ goal \in Joints /\ goal \notin blocked
      /\ TreesOK /\ SharedOK /\ ReadOK
  BY DEF PathInv, GoalsOK, Holds
<1>3. NoNode \notin Joints
  BY NodesAssumption
<1>4. SUFFICES TreesOK' /\ SharedOK' /\ ReadOK'
  BY <1>1 DEF PathInv
<1> USE DEF Searching
<1>5. CASE Straight
  <2>1. start \in Joints /\ goal \in Joints /\ goal \notin blocked /\ Clear(start, goal)
    BY <1>2, <1>5, EdgeIsClear DEF Straight
  <2>2. corners' = <<start, goal>> /\ stage' = "found" /\ UNCHANGED <<blocked, start, goal>>
    BY <1>5 DEF Straight
  <2>3. Good(corners)'
    BY <2>1, <2>2 DEF Good, Clear, Inside
  <2> QED BY <2>1, <2>2, <2>3 DEF TreesOK, SharedOK, ReadOK
<1>6. CASE Plant
  <2>1. start \in Joints /\ goal \in Joints
    BY <1>2, <1>6 DEF Plant
  <2>2. /\ stage' = "growing" /\ growing' = "start" /\ UNCHANGED <<blocked, start, goal>>
        /\ DOMAIN tree' = Sides /\ tree'["start"] = Planted(start) /\ tree'["goal"] = Planted(goal)
    BY <1>6 DEF Plant, Sides
  <2>3. TreeOK(Planted(start), start) /\ TreeOK(Planted(goal), goal)
    BY <2>1 DEF TreeOK, Planted
  <2>4. TreesOK'
    BY <2>2, <2>3 DEF TreesOK, Sides, TreeOK, Clear, Inside
  <2> QED BY <2>2, <2>4 DEF SharedOK, ReadOK
<1>7. CASE GiveUp
  BY <1>7 DEF GiveUp, TreesOK, SharedOK, ReadOK
<1>8. CASE Grow
  <2>1. /\ growing \in Sides /\ DOMAIN tree = Sides /\ TreeOK(tree["start"], start) /\ TreeOK(tree["goal"], goal)
        /\ UNCHANGED <<blocked, start, goal>>
    BY <1>2, <1>8 DEF Grow, TreesOK
  <2>2. PICK q \in Joints : \E n \in Nearest(tree[growing], q) :
          \/ /\ Extends(tree[growing], n, q)
             /\ tree' = [tree EXCEPT ![growing] = Grown(@, n, q)]
             /\ aim' = Towards(n, q)
             /\ stage' = "connecting"
             /\ UNCHANGED <<growing, iteration>>
          \/ ~Extends(tree[growing], n, q) /\ Swapped /\ UNCHANGED <<tree, aim, stage>>
    BY <1>8 DEF Grow
  <2>3. PICK n \in Nearest(tree[growing], q) :
          \/ /\ Extends(tree[growing], n, q)
             /\ tree' = [tree EXCEPT ![growing] = Grown(@, n, q)]
             /\ aim' = Towards(n, q)
             /\ stage' = "connecting"
             /\ UNCHANGED <<growing, iteration>>
          \/ ~Extends(tree[growing], n, q) /\ Swapped /\ UNCHANGED <<tree, aim, stage>>
    BY <2>2
  <2>4. CASE /\ Extends(tree[growing], n, q)
             /\ tree' = [tree EXCEPT ![growing] = Grown(@, n, q)]
             /\ aim' = Towards(n, q)
             /\ stage' = "connecting"
             /\ UNCHANGED <<growing, iteration>>
    <3> DEFINE root == IF growing = "start" THEN start ELSE goal
               grown == Grown(tree[growing], n, q)
    <3>1. TreeOK(tree[growing], root)
      BY <2>1 DEF Sides
    <3> HIDE DEF root
    <3>2. /\ aim' \in Joints /\ TreeOK(grown, root)
          /\ aim' \in DOMAIN grown /\ grown[aim'] # NoNode
      <4>1. /\ Towards(n, q) \in Joints /\ TreeOK(grown, root)
            /\ DOMAIN grown = DOMAIN tree[growing] \cup {Towards(n, q)}
            /\ grown[Towards(n, q)] # NoNode
        BY <2>4, <3>1, GrownOK
      <4> HIDE DEF grown
      <4> QED BY <2>4, <4>1
    <3> HIDE DEF grown
    <3> USE DEF root
    <3>3. /\ DOMAIN tree' = Sides /\ tree'[growing] = grown
          /\ \A s \in Sides : s # growing => tree'[s] = tree[s]
      BY <2>1, <2>4 DEF grown
    <3>4. TreeOK(tree'["start"], start) /\ TreeOK(tree'["goal"], goal)
      BY <2>1, <3>2, <3>3 DEF Sides
    <3>5. TreesOK'
      BY <2>1, <2>4, <3>3, <3>4 DEF TreesOK, TreeOK, Clear, Inside
    <3> QED BY <2>4, <3>2, <3>3, <3>5 DEF SharedOK, ReadOK
  <2>5. CASE ~Extends(tree[growing], n, q) /\ Swapped /\ UNCHANGED <<tree, aim, stage>>
    <3>1. growing' \in Sides /\ stage' = "growing"
      BY <1>8, <2>1, <2>5 DEF Grow, Swapped, Other, Sides
    <3>2. TreesOK'
      BY <2>1, <2>5, <3>1 DEF TreesOK, TreeOK, Clear, Inside
    <3> QED BY <3>1, <3>2 DEF SharedOK, ReadOK
  <2> QED BY <2>3, <2>4, <2>5
<1>9. CASE Reach
  <2> DEFINE other == Other(growing)
  <2>1. /\ growing \in Sides /\ DOMAIN tree = Sides /\ TreeOK(tree["start"], start) /\ TreeOK(tree["goal"], goal)
        /\ UNCHANGED <<blocked, start, goal, aim>> /\ stage = "connecting"
        /\ aim \in Joints /\ aim \in DOMAIN tree[growing] /\ tree[growing][aim] # NoNode
    BY <1>2, <1>9 DEF Reach, TreesOK, SharedOK
  <2>2. other \in Sides /\ other # growing
    BY <2>1 DEF Other, Sides
  <2>3. PICK n \in Nearest(tree[other], aim) :
          \/ /\ Extends(tree[other], n, aim)
             /\ tree' = [tree EXCEPT ![other] = Grown(@, n, aim)]
             /\ UNCHANGED <<stage, growing, iteration>>
          \/ ~Extends(tree[other], n, aim) /\ stage' = "growing" /\ Swapped /\ UNCHANGED tree
    BY <1>9 DEF Reach
  <2> HIDE DEF other
  <2>4. CASE /\ Extends(tree[other], n, aim)
             /\ tree' = [tree EXCEPT ![other] = Grown(@, n, aim)]
             /\ UNCHANGED <<stage, growing, iteration>>
    <3> DEFINE root == IF other = "start" THEN start ELSE goal
               grown == Grown(tree[other], n, aim)
    <3>1. TreeOK(tree[other], root)
      BY <2>1, <2>2 DEF Sides
    <3>2. TreeOK(grown, root)
      BY <2>1, <2>4, <3>1, GrownOK
    <3> HIDE DEF grown
    <3>3. /\ DOMAIN tree' = Sides /\ tree'[other] = grown
          /\ \A s \in Sides : s # other => tree'[s] = tree[s]
      BY <2>1, <2>2, <2>4 DEF grown
    <3>4. TreeOK(tree'["start"], start) /\ TreeOK(tree'["goal"], goal)
      BY <2>1, <2>2, <3>2, <3>3 DEF Sides
    <3>5. TreesOK'
      BY <2>1, <2>4, <3>3, <3>4 DEF TreesOK, TreeOK, Clear, Inside
    <3> QED BY <2>1, <2>2, <2>4, <3>3, <3>5 DEF SharedOK, ReadOK
  <2>5. CASE ~Extends(tree[other], n, aim) /\ stage' = "growing" /\ Swapped /\ UNCHANGED tree
    <3>1. growing' \in Sides
      BY <2>1, <2>5 DEF Swapped, Other, Sides
    <3>2. TreesOK'
      BY <2>1, <2>5, <3>1 DEF TreesOK, TreeOK, Clear, Inside
    <3> QED BY <2>5, <3>2 DEF SharedOK, ReadOK
  <2> QED BY <2>3, <2>4, <2>5
<1>10. CASE Join
  <2>1. TreesOK'
    BY <1>2, <1>10 DEF Join, treeVars, TreesOK, TreeOK, Clear, Inside
  <2>2. aim \in Joints /\ aim \in DOMAIN tree["start"] /\ aim \in DOMAIN tree["goal"]
    BY <1>2, <1>10 DEF Join, TreesOK, SharedOK, Sides, Other
  <2>3. SharedOK'
    BY <1>2, <1>10, <2>2 DEF Join, SharedOK, treeVars
  <2>4. ReadOK'
    BY <1>10, <2>2 DEF Join, ReadOK, Good, treeVars
  <2> QED BY <2>1, <2>3, <2>4
<1>11. CASE ReadToStart
  <2>1. /\ UNCHANGED <<blocked, start, goal, treeVars>> /\ stage = "to_start" /\ stage' \in {"to_start", "to_goal"}
        /\ corners' = <<node>> \o corners
    BY <1>11 DEF ReadToStart
  <2>2. TreesOK'
    BY <1>2, <2>1 DEF treeVars, TreesOK, TreeOK, Clear, Inside
  <2>3. SharedOK'
    BY <1>2, <2>1 DEF treeVars, SharedOK
  <2>4. /\ TreeOK(tree["start"], start) /\ TreeOK(tree["goal"], goal) /\ growing \in Sides
        /\ aim \in DOMAIN tree["start"] /\ aim \in DOMAIN tree["goal"] /\ tree[growing][aim] # NoNode
        /\ node \in DOMAIN tree["start"] /\ node \in Joints
        /\ corners \in Seq(Joints) /\ Good(corners)
        /\ corners = <<>> => node = aim
        /\ corners # <<>> => corners[Len(corners)] = aim /\ corners[1] \notin blocked /\ Clear(node, corners[1])
    BY <1>2, <2>1 DEF TreesOK, SharedOK, ReadOK, TreeOK
  <2>5. /\ corners' \in Seq(Joints) /\ Good(corners') /\ corners' # <<>> /\ corners'[1] = node
        /\ corners'[Len(corners')] = aim /\ (corners # <<>> => Len(corners') > 1)
    BY <2>1, <2>4, GoodFront
  <2>6. Good(corners)'
    BY <2>1, <2>5 DEF Good, Clear, Inside
  <2>7. CASE tree["start"][node] # NoNode
    <3>1. node' = tree["start"][node] /\ stage' = "to_start"
      BY <1>11, <2>7 DEF ReadToStart
    <3>2. node' \in DOMAIN tree["start"] /\ node \notin blocked /\ Clear(node', node)
      BY <2>4, <2>7, <3>1 DEF TreeOK
    <3>3. Clear(node, corners[1])'
      BY <2>1, <2>5, <3>2 DEF Clear, Inside
    <3> QED BY <2>1, <2>2, <2>3, <2>5, <2>6, <3>1, <3>2, <3>3 DEF ReadOK, treeVars
  <2>8. CASE tree["start"][node] = NoNode
    <3>1. node' = tree["goal"][aim] /\ stage' = "to_goal" /\ node = start
      BY <1>11, <2>4, <2>8 DEF ReadToStart, TreeOK
    <3>2. Len(corners') > 1 \/ node' # NoNode
      BY <2>4, <2>5, <2>8, <3>1 DEF Sides
    <3> QED BY <2>1, <2>2, <2>3, <2>4, <2>5, <2>6, <3>1, <3>2 DEF ReadOK, treeVars
  <2> QED BY <2>7, <2>8
<1>12. CASE ReadToGoal
  <2>1. /\ UNCHANGED <<blocked, start, goal>> /\ stage = "to_goal"
        /\ TreeOK(tree["goal"], goal) /\ aim \in DOMAIN tree["start"] /\ aim \in DOMAIN tree["goal"]
        /\ corners \in Seq(Joints) /\ Good(corners) /\ corners # <<>> /\ corners[1] = start
        /\ corners[Len(corners)] \in DOMAIN tree["goal"] /\ corners[Len(corners)] \in Joints
        /\ node = tree["goal"][corners[Len(corners)]] /\ (Len(corners) > 1 \/ node # NoNode)
        /\ goal \in Joints /\ goal \notin blocked
    BY <1>2, <1>12 DEF ReadToGoal, TreesOK, SharedOK, ReadOK
  <2>2. CASE node # NoNode
    <3>1. /\ corners' = Append(corners, node) /\ node' = tree["goal"][node]
          /\ UNCHANGED <<stage, treeVars>>
      BY <1>12, <2>2 DEF ReadToGoal
    <3>2. node \in DOMAIN tree["goal"] /\ node \in Joints
      BY <2>1, <2>2 DEF TreeOK
    <3>3. node \notin blocked
      BY <2>1, <3>2 DEF TreeOK
    <3>4. Clear(corners[Len(corners)], node)
      BY <2>1, <2>2, <3>2, ClearBothWays DEF TreeOK
    <3>5. Good(corners')
      BY <2>1, <3>1, <3>2, <3>3, <3>4, GoodBack
    <3>6. Good(corners)'
      BY <2>1, <3>5 DEF Good, Clear, Inside
    <3>7. /\ corners' \in Seq(Joints) /\ corners' # <<>> /\ corners'[1] = start /\ Len(corners') > 1
          /\ corners'[Len(corners')] = node
      BY <2>1, <3>1, <3>2
    <3>8. TreesOK'
      BY <1>2, <2>1, <3>1 DEF treeVars, TreesOK, TreeOK, Clear, Inside
    <3>9. SharedOK'
      BY <1>2, <2>1, <3>1 DEF treeVars, SharedOK
    <3> QED BY <2>1, <3>1, <3>2, <3>6, <3>7, <3>8, <3>9 DEF ReadOK, treeVars
  <2>3. CASE node = NoNode
    <3>1. corners[Len(corners)] = goal /\ Len(corners) > 1
      BY <2>1, <2>3 DEF TreeOK
    <3>2. stage' = "shortcutting" /\ UNCHANGED corners
      BY <1>12, <2>3 DEF ReadToGoal
    <3>3. Good(corners)'
      BY <2>1, <3>2 DEF Good, Clear, Inside
    <3> QED BY <2>1, <3>1, <3>2, <3>3 DEF TreesOK, SharedOK, ReadOK
  <2> QED BY <2>2, <2>3
<1>13. CASE Shortcut
  <2>1. /\ UNCHANGED <<blocked, start, goal>> /\ stage = "shortcutting" /\ stage' = "shortcutting"
        /\ corners \in Seq(Joints) /\ Good(corners) /\ Len(corners) > 1 /\ corners[1] = start
        /\ corners[Len(corners)] = goal
    BY <1>2, <1>13 DEF Shortcut, ReadOK
  <2>2. /\ corners' \in Seq(Joints) /\ Good(corners') /\ Len(corners') > 1 /\ corners'[1] = start
        /\ corners'[Len(corners')] = goal
    <3>1. CASE UNCHANGED corners
      BY <2>1, <3>1
    <3>2. ASSUME NEW i \in 1..Len(corners), NEW k \in 1..Len(corners), k - i > 1,
                 EdgeClear(corners[i], corners[k]), corners' = Without(corners, i, k)
          PROVE  /\ corners' \in Seq(Joints) /\ Good(corners') /\ Len(corners') > 1 /\ corners'[1] = start
                 /\ corners'[Len(corners')] = goal
      <4>1. corners[i] \in Joints /\ corners[k] \in Joints
        BY <2>1
      <4>2. Clear(corners[i], corners[k])
        BY <3>2, <4>1, EdgeIsClear
      <4> QED BY <2>1, <3>2, <4>2, GoodWithout
    <3> QED BY <1>13, <3>1, <3>2 DEF Shortcut
  <2>3. Good(corners)'
    BY <2>1, <2>2 DEF Good, Clear, Inside
  <2> QED BY <2>1, <2>2, <2>3 DEF TreesOK, SharedOK, ReadOK
<1>14. CASE Settle
  <2>1. UNCHANGED <<blocked, start, goal, corners>> /\ stage = "shortcutting" /\ stage' = "found"
    BY <1>14 DEF Settle
  <2> QED BY <1>2, <2>1 DEF TreesOK, SharedOK, ReadOK, Good, Clear, Inside
<1> QED BY <1>5, <1>6, <1>7, <1>8, <1>9, <1>10, <1>11, <1>12, <1>13, <1>14 DEF Search, Rrt

LEMMA NextKeepsPath == PathInv /\ [Next]_vars => PathInv'
<1> SUFFICES ASSUME PathInv, [Next]_vars PROVE PathInv'
  OBVIOUS
<1>1. CASE Search
  BY <1>1, SearchKeepsPath
<1>2. CASE UNCHANGED vars
  BY <1>2 DEF vars, rrtVars, loopVars, treeVars, pathVars, PathInv, GoalsOK, Holds, TreesOK, SharedOK, ReadOK,
              PathIsClear, PathClear, TreeOK, Good, Clear, Inside
<1>3. CASE Next /\ ~Search
  BY <1>3, LoopKeepsPath DEF Next, Onward
<1> QED BY <1>1, <1>2, <1>3

(* BiRrt.h's promise, for every arm, every way to measure its postures and every obstacle: a   *)
(* plan's path starts where the arm was, ends in a posture that holds the chosen candidate,    *)
(* has no corner but the start in an obstacle and no checked sample of an edge in one.         *)
THEOREM PlannedPathIsClear == Spec => []PathIsClear
<1>1. PathInv => PathIsClear
  BY DEF PathInv
<1> QED BY <1>1, InitPath, NextKeepsPath, PTL DEF Spec

-----------------------------------------------------------------------------
(* The cheapest path.                                                                        *)

(* pathTravel adds up, corner after corner, to a number: were there a first corner up to     *)
(* which there is no sum, the sum up to the corner before it would lead to one.              *)
LEMMA CostType ==
  ASSUME NEW path \in Seq(Joints)
  PROVE  Cost(path) \in Nat
<1> DEFINE n == Len(path)
           sum(f, k) == IF k < 2 THEN 0 ELSE f[k - 1] + Travel(path[k - 1], path[k])
           Sums(m) == {f \in [0..m -> Nat] : \A k \in 0..m : f[k] = sum(f, k)}
           S == {m \in 0..n : Sums(m) = {}}
<1>1. n \in Nat /\ \A k \in 2..n : Travel(path[k - 1], path[k]) \in Nat
  <2>1. n \in Nat /\ \A k \in 1..n : path[k] \in Joints
    OBVIOUS
  <2>2. \A k \in 2..n : k \in 1..n /\ k - 1 \in 1..n
    BY <2>1
  <2> QED BY <2>1, <2>2, RequestsAssumption
<1>2. S = {}
  <2> SUFFICES ASSUME S # {} PROVE FALSE
    OBVIOUS
  <2>1. PICK m \in S : \A s \in S : m <= s
    <3>1. S \in SUBSET (0..n)
      OBVIOUS
    <3> HIDE DEF S
    <3> QED BY <1>1, <3>1, LeastElement
  <2>2. m \in 0..n /\ Sums(m) = {}
    OBVIOUS
  <2>3. CASE m = 0
    <3> DEFINE f == [k \in 0..0 |-> 0]
    <3>1. f \in Sums(0)
      OBVIOUS
    <3> QED BY <2>2, <2>3, <3>1
  <2>4. CASE m # 0
    <3>1. m - 1 \in 0..n /\ m - 1 \notin S
      <4>1. m - 1 \in 0..n /\ ~(m <= m - 1)
        BY <1>1, <2>2, <2>4
      <4> HIDE DEF S
      <4> QED BY <2>1, <4>1
    <3>2. PICK f \in Sums(m - 1) : TRUE
      BY <3>1
    <3> DEFINE g == [k \in 0..m |-> IF k < m THEN f[k] ELSE sum(f, m)]
    <3>3. f \in [0..(m - 1) -> Nat] /\ \A k \in 0..(m - 1) : f[k] = sum(f, k)
      BY <3>2
    <3>4. m \in 2..n => f[m - 1] \in Nat
      BY <2>2, <3>3
    <3>5. sum(f, m) \in Nat
      BY <1>1, <2>2, <3>4
    <3>6. g \in [0..m -> Nat]
      BY <2>2, <3>3, <3>5
    <3>7. ASSUME NEW k \in 0..m PROVE g[k] = sum(g, k)
      <4>1. k >= 2 => k - 1 \in 0..(m - 1) /\ g[k - 1] = f[k - 1]
        BY <2>2
      <4>2. CASE k < m
        BY <2>2, <3>3, <4>1, <4>2
      <4>3. CASE ~(k < m)
        BY <2>2, <4>1, <4>3
      <4> QED BY <4>2, <4>3
    <3>8. g \in Sums(m)
      BY <3>6, <3>7
    <3> QED BY <2>2, <3>8
  <2> QED BY <2>3, <2>4
<1>3. PICK f \in [0..n -> Nat] : \A k \in 0..n : f[k] = sum(f, k)
  <2>1. n \in 0..n
    BY <1>1
  <2> QED BY <1>2, <2>1
<1>4. f = [k \in 0..n |-> sum(f, k)]
  BY <1>3
<1> DEFINE travel == CHOOSE t : t = [k \in 0..n |-> sum(t, k)]
<1>5. travel = [k \in 0..n |-> sum(travel, k)]
  BY <1>4, Zenon
<1> HIDE DEF travel
<1>6. \A k \in 0..n : travel[k] = sum(travel, k)
  BY <1>5
<1>7. travel[n] \in Nat
  <2> DEFINE T == {k \in 0..n : travel[k] \notin Nat}
  <2>1. CASE T = {}
    BY <1>1, <2>1
  <2>2. CASE T # {}
    <3>1. PICK m \in T : \A s \in T : m <= s
      <4>1. T \in SUBSET (0..n)
        OBVIOUS
      <4> HIDE DEF T
      <4> QED BY <1>1, <2>2, <4>1, LeastElement
    <3>2. m \in 0..n /\ travel[m] \notin Nat
      OBVIOUS
    <3>3. m \in 2..n
      BY <1>6, <3>2
    <3>4. m - 1 \in 0..n /\ ~(m <= m - 1)
      BY <1>1, <3>3
    <3>5. travel[m - 1] \in Nat
      BY <3>1, <3>4
    <3>6. travel[m] = travel[m - 1] + Travel(path[m - 1], path[m])
      BY <1>6, <3>3
    <3> QED BY <1>1, <3>2, <3>3, <3>5, <3>6
  <2> QED BY <2>1, <2>2
<1> QED BY <1>7 DEF Cost, travel

-----------------------------------------------------------------------------
(* While goals are tried, a plan has succeeded as soon as a path was found; what was tried  *)
(* has paths of postures, and so a cost.                                                     *)
TriesOK ==
  /\ \A t \in tries : t.path \in Seq(Joints)
  /\ (stage \notin {"idle", "done"} /\ ~result.success) => \A t \in tries : t.path = <<>>

(* The path kept is the cheapest of those found. *)
CostInv == TriesOK /\ CheapestIsKept

(* At first nothing was tried. *)
LEMMA InitCost == Init => CostInv
BY DEF Init, CostInv, TriesOK, CheapestIsKept, NoResult

(* NoPath, Keep: what was tried last is added to what was tried. *)
LEMMA TriedLast ==
  ASSUME NEW path \in Seq(Joints), tries' = Tried(path), TriesOK
  PROVE  /\ \A t \in tries' : t \in tries \/ (t.path = path /\ t.candidate = trying)
         /\ \A t \in tries : t \in tries'
         /\ \E t \in tries' : t.path = path /\ t.candidate = trying
         /\ \A t \in tries' : t.path \in Seq(Joints)
<1>1. PICK x : x = [candidate |-> trying, joints |-> goal, path |-> path] /\ tries' = tries \cup {x}
  BY DEF Tried
<1>2. x.path = path /\ x.candidate = trying
  BY <1>1
<1> QED BY <1>1, <1>2 DEF TriesOK

(* Every step keeps it the cheapest: a path found is kept if it beats the one kept, and       *)
(* otherwise costs as much.                                                                  *)
LEMMA NextCost == PathInv /\ CostInv /\ [Next]_vars => CostInv'
<1> SUFFICES ASSUME PathInv, CostInv, [Next]_vars PROVE CostInv'
  OBVIOUS
<1> USE DEF CostInv
<1>1. CASE Refuse \/ OnPlan
  <2>1. tries' = {} /\ result' = NoResult
    BY <1>1 DEF Refuse, OnPlan, Accept
  <2> QED BY <2>1 DEF TriesOK, CheapestIsKept, NoResult
<1>2. CASE Cancel
  <2>1. result' = [result EXCEPT !.success = FALSE] /\ stage' = "done" /\ tries' = tries
    BY <1>2 DEF Cancel
  <2> QED BY <2>1 DEF TriesOK, CheapestIsKept
<1>3. CASE NoPath
  <2>1. /\ stage = "failed" /\ result' = result /\ tries' = Tried(<<>>) /\ <<>> \in Seq(Joints)
    BY <1>3 DEF NoPath
  <2>2. /\ \A t \in tries' : t \in tries \/ t.path = <<>>
        /\ \A t \in tries : t \in tries'
        /\ \A t \in tries' : t.path \in Seq(Joints)
    BY <2>1, TriedLast
  <2> QED BY <2>1, <2>2 DEF TriesOK, CheapestIsKept
<1>4. CASE Keep
  <2>1. /\ corners \in Seq(Joints) /\ corners # <<>> /\ stage = "found"
        /\ tries' = Tried(corners) /\ stage' = "choosing"
        /\ result' = IF Better(Cost(corners))
                     THEN [success |-> TRUE, chosen |-> trying, path |-> corners,
                           cost |-> Cost(corners)]
                     ELSE result
    BY <1>4 DEF Keep, PathInv, ReadOK
  <2>2. /\ \A t \in tries' : t \in tries \/ (t.path = corners /\ t.candidate = trying)
        /\ \A t \in tries : t \in tries'
        /\ \E t \in tries' : t.path = corners /\ t.candidate = trying
        /\ \A t \in tries' : t.path \in Seq(Joints)
    BY <2>1, TriedLast
  <2>3. Cost(corners) \in Nat /\ \A t \in tries' : Cost(t.path) \in Nat
    BY <2>1, <2>2, CostType
  <2>4. result.success => /\ result.path \in Seq(Joints)
                          /\ result.cost = Cost(result.path) /\ result.cost \in Nat
    BY CostType DEF TriesOK, CheapestIsKept
  <2>5. CASE Better(Cost(corners))
    <3>1. /\ result'.success /\ result'.chosen = trying /\ result'.path = corners
          /\ result'.cost = Cost(corners)
      BY <2>1, <2>5
    <3>2. ASSUME NEW t \in tries, t.path # <<>> PROVE Cost(corners) <= Cost(t.path)
      <4>1. result.success
        BY <2>1, <3>2 DEF TriesOK
      <4>2. result.cost <= Cost(t.path) /\ Cost(corners) < result.cost
        BY <2>5, <3>2, <4>1 DEF CheapestIsKept, Better
      <4> QED BY <2>2, <2>3, <2>4, <4>1, <4>2
    <3>3. \A t \in tries' : t.path # <<>> => Cost(corners) <= Cost(t.path)
      BY <2>2, <2>3, <3>2
    <3> QED BY <2>2, <3>1, <3>3 DEF TriesOK, CheapestIsKept
  <2>6. CASE ~Better(Cost(corners))
    <3>1. result' = result /\ result.success /\ result.cost <= Cost(corners)
      BY <2>1, <2>3, <2>4, <2>6 DEF Better
    <3> QED BY <2>2, <3>1 DEF TriesOK, CheapestIsKept
  <2> QED BY <2>5, <2>6
<1>5. CASE \/ FindGraspGoals \/ Sort \/ NextGoal \/ Search \/ Enough \/ Answer \/ Preempt
           \/ UNCHANGED vars
  <2>1. UNCHANGED <<result, tries>>
    BY <1>5 DEF FindGraspGoals, Sort, NextGoal, Search, Enough, Answer, Preempt, vars, loopVars
  <2>2. stage \in {"idle", "done"} => stage' \in {"idle", "done"}
    BY <1>5 DEF FindGraspGoals, Sort, NextGoal, Search, Rrt, Straight, Plant, GiveUp, Grow, Reach,
                Join, ReadToStart, ReadToGoal, Shortcut, Settle, Enough, Answer, Preempt, vars,
                rrtVars
  <2> QED BY <2>1, <2>2 DEF TriesOK, CheapestIsKept
<1> QED BY <1>1, <1>2, <1>3, <1>4, <1>5 DEF Next, Onward

(* However the costs of paths are measured and however many are found, the plan is the       *)
(* cheapest of them, with its own cost and the candidate it was sought for.                  *)
THEOREM PlanIsCheapest == Spec => []CheapestIsKept
<1>1. CostInv => CheapestIsKept
  BY DEF CostInv
<1> QED BY <1>1, InitPath, NextKeepsPath, InitCost, NextCost, PTL DEF Spec

-----------------------------------------------------------------------------
(* What became of the candidates.                                                            *)

(* While candidates are looked at nothing has been tried, and goals are of those before.     *)
LookedAtOK ==
  /\ DOMAIN outcomes = Candidates /\ outcomes = [c \in Candidates |-> outcomes[c]]
  /\ stage = "finding" => tries = {}
  /\ \A g \in goals : g.candidate < index

(* What the outcomes say, with what they say it of. *)
OutcomeInv == LookedAtOK /\ OutcomesAreTrue

(* The outcomes of a candidate that has no goal. *)
LEMMA FailuresAre ==
  Failures = {"UNREACHABLE", "JOINT_LIMIT", "OFF_APPROACH", "NO_JAW_ROLL", "FLOOR", "OBSTACLE"}
<1>1. /\ Outcomes[1] = "UNREACHABLE" /\ Outcomes[2] = "JOINT_LIMIT"
      /\ Outcomes[3] = "OFF_APPROACH" /\ Outcomes[4] = "NO_JAW_ROLL"
      /\ Outcomes[5] = "FLOOR" /\ Outcomes[6] = "OBSTACLE"
  BY DEF Outcomes
<1>2. Failures = {Outcomes[1], Outcomes[2], Outcomes[3], Outcomes[4], Outcomes[5], Outcomes[6]}
  <2> HIDE DEF Outcomes
  <2>1. \A i : i \in 1..6 <=> i = 1 \/ i = 2 \/ i = 3 \/ i = 4 \/ i = 5 \/ i = 6
    OBVIOUS
  <2> QED BY <2>1 DEF Failures
<1> QED BY <1>1, <1>2

(* Of some failures one got furthest. *)
LEMMA FurthestIsFailure ==
  ASSUME NEW S \in SUBSET Failures, S # {}
  PROVE  Furthest(S) \in S
<1>1. \A o \in S : Rank(o) \in 1..9
  <2> SUFFICES ASSUME NEW o \in S PROVE Rank(o) \in 1..9
    OBVIOUS
  <2>1. Len(Outcomes) = 9
    BY DEF Outcomes
  <2>2. \E i \in 1..9 : Outcomes[i] = o
    BY DEF Failures
  <2> QED BY <2>1, <2>2 DEF Rank
<1> DEFINE Behind == {9 - Rank(o) : o \in S}
<1>2. PICK m \in Behind : \A b \in Behind : m <= b
  <2>1. Behind \in SUBSET (0..9)
    BY <1>1
  <2>2. Behind # {}
    OBVIOUS
  <2> HIDE DEF Behind
  <2> QED BY <2>1, <2>2, LeastElement
<1>3. PICK o \in S : m = 9 - Rank(o)
  OBVIOUS
<1>4. \A p \in S : 9 - Rank(p) \in Behind
  OBVIOUS
<1> HIDE DEF Behind
<1>5. \A p \in S : Rank(p) <= Rank(o)
  BY <1>1, <1>2, <1>3, <1>4
<1> HIDE DEF Rank
<1> QED BY <1>5 DEF Furthest

(* findGraspGoals: a candidate has a goal, or the outcome says how far its postures got. *)
LEMMA FoundTells ==
  ASSUME PathInv, stage = "finding", NEW c \in Candidates
  PROVE  /\ Holding(c) # {} => Found(c) = "NOT_PLANNED"
         /\ Holding(c) = {} => Found(c) \in Failures
<1>1. request[c].short \in Failures
  BY RequestsAssumption DEF PathInv, GoalsOK
<1>2. \A q : Verdict(q) \in Failures
  BY FailuresAre DEF Verdict
<1>3. CASE Holding(c) = {}
  <2> DEFINE S == {request[c].short} \cup {Verdict(q) : q \in request[c].postures}
  <2>1. S \in SUBSET Failures /\ S # {}
    BY <1>1, <1>2
  <2> HIDE DEF S
  <2>2. Furthest(S) \in Failures
    BY <2>1, FurthestIsFailure
  <2> QED BY <1>3, <2>2 DEF Found, S
<1> QED BY <1>3 DEF Found

(* At first no candidate was looked at. *)
LEMMA InitOutcome == Init => OutcomeInv
BY DEF Init, OutcomeInv, LookedAtOK, OutcomesAreTrue, Candidates

(* The postures of one more candidate are looked at. *)
LEMMA FindingKeeps ==
  ASSUME PathInv, OutcomeInv, FindGraspGoals
  PROVE  OutcomeInv'
<1>1. /\ stage = "finding" /\ index \in Candidates /\ index' = index + 1 /\ index \in Nat
      /\ outcomes' = [outcomes EXCEPT ![index] = Found(index)]
      /\ goals' = goals \cup {[candidate |-> index, joints |-> q] : q \in Holding(index)}
      /\ UNCHANGED <<stage, trying, tries>> /\ tries = {}
  BY CandidatesAssumption DEF FindGraspGoals, rrtVars, PathInv, GoalsOK, Candidates, OutcomeInv,
                              LookedAtOK
<1>2. /\ outcomes'[index] = Found(index) /\ DOMAIN outcomes' = Candidates
      /\ outcomes' = [c \in Candidates |-> outcomes'[c]]
      /\ \A c \in Candidates : c # index => outcomes'[c] = outcomes[c]
  BY <1>1 DEF OutcomeInv, LookedAtOK
<1>3. /\ \A g \in goals : g.candidate < index /\ g \in goals'
      /\ \A g \in goals' : g \in goals \/ g.candidate = index
      /\ Holding(index) # {} => \E g \in goals' : g.candidate = index
      /\ Holding(index) = {} => goals' = goals
  <2>1. \A q : [candidate |-> index, joints |-> q].candidate = index
    OBVIOUS
  <2> QED BY <1>1, <2>1 DEF OutcomeInv, LookedAtOK
<1>4. /\ Holding(index) # {} => Found(index) = "NOT_PLANNED"
      /\ Holding(index) = {} => Found(index) \in Failures
  BY <1>1, FoundTells
<1>5. LookedAtOK'
  <2>1. \A g \in goals' : g.candidate < index'
    <3>1. index \in Int /\ \A g \in goals : g.candidate \in Int
      BY <1>1 DEF PathInv, GoalsOK, Holds, Candidates
    <3>2. SUFFICES ASSUME NEW g \in goals' PROVE g.candidate < index + 1
      BY <1>1
    <3>3. g.candidate \in Int /\ (g.candidate < index \/ g.candidate = index)
      BY <1>3, <3>1
    <3> QED BY <3>1, <3>3
  <2> QED BY <1>1, <1>2, <2>1 DEF LookedAtOK
<1>6. OutcomesAreTrue'
  <2> SUFFICES ASSUME NEW c \in Candidates, c < index'
               PROVE  /\ outcomes'[c] # "OK" /\ outcomes'[c] # "NO_PATH"
                      /\ outcomes'[c] = "NOT_PLANNED" => \E g \in goals' : g.candidate = c
                      /\ outcomes'[c] \in Failures => \A g \in goals' : g.candidate # c
    BY <1>1 DEF OutcomesAreTrue
  <2>1. c \in Int /\ index \in Int
    BY <1>1 DEF Candidates
  <2>2. CASE c = index
    <3>1. \A g \in goals : g.candidate # c
      BY <1>3, <2>1, <2>2
    <3> QED BY <1>2, <1>3, <1>4, <2>2, <3>1, FailuresAre
  <2>3. CASE c # index
    <3>1. c < index /\ outcomes'[c] = outcomes[c]
      BY <1>1, <1>2, <2>1, <2>3
    <3> QED BY <1>1, <1>3, <2>3, <3>1 DEF OutcomeInv, OutcomesAreTrue
  <2> QED BY <2>2, <2>3
<1> QED BY <1>5, <1>6 DEF OutcomeInv

(* Every step keeps the outcomes true: a search ends for the candidate it was begun for. *)
LEMMA NextOutcome == PathInv /\ OutcomeInv /\ [Next]_vars => OutcomeInv'
<1> SUFFICES ASSUME PathInv, OutcomeInv, [Next]_vars PROVE OutcomeInv'
  OBVIOUS
<1>1. CASE Refuse \/ OnPlan
  <2>1. /\ tries' = {} /\ goals' = {} /\ index' = 1
        /\ outcomes' = [c \in Candidates |-> "UNREACHABLE"]
    BY <1>1 DEF Refuse, OnPlan, Accept
  <2> QED BY <2>1 DEF OutcomeInv, LookedAtOK, OutcomesAreTrue, Candidates
<1>2. CASE FindGraspGoals
  BY <1>2, FindingKeeps
<1>3. CASE NextGoal
  <2>1. PICK g \in goals : goals' = goals \ {g} /\ trying' = g.candidate
    BY <1>3 DEF NextGoal, Cheapest
  <2>2. /\ stage = "choosing" /\ stage' = "begin" /\ UNCHANGED <<index, outcomes, tries>>
    BY <1>3 DEF NextGoal
  <2>3. LookedAtOK'
    BY <2>1, <2>2 DEF OutcomeInv, LookedAtOK
  <2>4. OutcomesAreTrue'
    BY <2>1, <2>2 DEF OutcomeInv, OutcomesAreTrue
  <2> QED BY <2>3, <2>4 DEF OutcomeInv
<1>4. CASE NoPath
  <2>1. /\ stage = "failed" /\ stage' = "choosing" /\ tries' = Tried(<<>>)
        /\ outcomes' = [outcomes EXCEPT ![trying] = IF @ = "OK" THEN "OK" ELSE "NO_PATH"]
        /\ UNCHANGED <<index, goals, trying>> /\ trying \in Candidates
    BY <1>4 DEF NoPath, PathInv, GoalsOK, Holds, Searching
  <2>2. PICK x : tries' = tries \cup {x} /\ x.path = <<>> /\ x.candidate = trying
    <3>1. PICK x : /\ x = [candidate |-> trying, joints |-> goal, path |-> <<>>]
                   /\ tries' = tries \cup {x}
      BY <2>1 DEF Tried
    <3>2. x.path = <<>> /\ x.candidate = trying
      BY <3>1
    <3> QED BY <2>1, <3>1, <3>2
  <2>3. /\ outcomes'[trying] = IF outcomes[trying] = "OK" THEN "OK" ELSE "NO_PATH"
        /\ DOMAIN outcomes' = Candidates /\ outcomes' = [c \in Candidates |-> outcomes'[c]]
        /\ \A c \in Candidates : c # trying => outcomes'[c] = outcomes[c]
    BY <2>1 DEF OutcomeInv, LookedAtOK
  <2>4. LookedAtOK'
    BY <2>1, <2>3 DEF OutcomeInv, LookedAtOK
  <2>5. ASSUME NEW c \in Candidates, c < index, c # trying
        PROVE  /\ {t \in tries' : t.candidate = c} = {t \in tries : t.candidate = c}
               /\ outcomes'[c] = outcomes[c]
    BY <2>2, <2>3, <2>5
  <2>6. OutcomesAreTrue'
    <3> SUFFICES ASSUME NEW c \in Candidates, c < index
                 PROVE  LET mine == {t \in tries' : t.candidate = c}
                        IN /\ outcomes'[c] = "OK" <=> \E t \in mine : t.path # <<>>
                           /\ outcomes'[c] = "NO_PATH" <=> mine # {} /\ \A t \in mine : t.path = <<>>
                           /\ outcomes'[c] = "NOT_PLANNED" =>
                                mine = {} /\ \E g \in goals : g.candidate = c
                           /\ outcomes'[c] \in Failures =>
                                mine = {} /\ \A g \in goals : g.candidate # c
      BY <2>1 DEF OutcomesAreTrue
    <3>1. CASE c = trying
      <4>1. /\ x \in {t \in tries' : t.candidate = c} /\ x.path = <<>>
            /\ \A t : t \in {u \in tries' : u.candidate = c}
                     <=> t = x \/ t \in {u \in tries : u.candidate = c}
        BY <2>2, <3>1
      <4>2. outcomes[c] = "OK" <=> \E t \in {u \in tries : u.candidate = c} : t.path # <<>>
        BY DEF OutcomeInv, OutcomesAreTrue
      <4>3. CASE outcomes[c] = "OK"
        <5>1. outcomes'[c] = "OK"
          BY <2>3, <3>1, <4>3
        <5> QED BY <4>1, <4>2, <4>3, <5>1, FailuresAre
      <4>4. CASE outcomes[c] # "OK"
        <5>1. outcomes'[c] = "NO_PATH"
          BY <2>3, <3>1, <4>4
        <5> QED BY <4>1, <4>2, <4>4, <5>1, FailuresAre
      <4> QED BY <4>3, <4>4
    <3>2. CASE c # trying
      BY <2>1, <2>5, <3>2 DEF OutcomeInv, OutcomesAreTrue
    <3> QED BY <3>1, <3>2
  <2> QED BY <2>4, <2>6 DEF OutcomeInv
<1>5. CASE Keep
  <2>1. /\ stage = "found" /\ stage' = "choosing" /\ tries' = Tried(corners)
        /\ outcomes' = [outcomes EXCEPT ![trying] = "OK"] /\ corners # <<>>
        /\ UNCHANGED <<index, goals, trying>> /\ trying \in Candidates
    BY <1>5 DEF Keep, PathInv, GoalsOK, ReadOK, Holds, Searching
  <2>2. PICK x : tries' = tries \cup {x} /\ x.path # <<>> /\ x.candidate = trying
    <3>1. PICK x : /\ x = [candidate |-> trying, joints |-> goal, path |-> corners]
                   /\ tries' = tries \cup {x}
      BY <2>1 DEF Tried
    <3>2. x.path = corners /\ x.candidate = trying
      BY <3>1
    <3> QED BY <2>1, <3>1, <3>2
  <2>3. /\ outcomes'[trying] = "OK"
        /\ DOMAIN outcomes' = Candidates /\ outcomes' = [c \in Candidates |-> outcomes'[c]]
        /\ \A c \in Candidates : c # trying => outcomes'[c] = outcomes[c]
    BY <2>1 DEF OutcomeInv, LookedAtOK
  <2>4. LookedAtOK'
    BY <2>1, <2>3 DEF OutcomeInv, LookedAtOK
  <2>5. ASSUME NEW c \in Candidates, c < index, c # trying
        PROVE  /\ {t \in tries' : t.candidate = c} = {t \in tries : t.candidate = c}
               /\ outcomes'[c] = outcomes[c]
    BY <2>2, <2>3, <2>5
  <2>6. OutcomesAreTrue'
    <3> SUFFICES ASSUME NEW c \in Candidates, c < index
                 PROVE  LET mine == {t \in tries' : t.candidate = c}
                        IN /\ outcomes'[c] = "OK" <=> \E t \in mine : t.path # <<>>
                           /\ outcomes'[c] = "NO_PATH" <=> mine # {} /\ \A t \in mine : t.path = <<>>
                           /\ outcomes'[c] = "NOT_PLANNED" =>
                                mine = {} /\ \E g \in goals : g.candidate = c
                           /\ outcomes'[c] \in Failures =>
                                mine = {} /\ \A g \in goals : g.candidate # c
      BY <2>1 DEF OutcomesAreTrue
    <3>1. CASE c = trying
      <4>1. x \in {t \in tries' : t.candidate = c} /\ x.path # <<>>
        BY <2>2, <3>1
      <4>2. outcomes'[c] = "OK"
        BY <2>3, <3>1
      <4> QED BY <4>1, <4>2, FailuresAre
    <3>2. CASE c # trying
      BY <2>1, <2>5, <3>2 DEF OutcomeInv, OutcomesAreTrue
    <3> QED BY <3>1, <3>2
  <2> QED BY <2>4, <2>6 DEF OutcomeInv
<1>6. CASE Sort \/ Cancel \/ Search \/ Enough \/ Answer \/ Preempt \/ UNCHANGED vars
  <2>1. UNCHANGED <<index, goals, trying, outcomes, tries>>
    BY <1>6 DEF Sort, Cancel, Search, Enough, Answer, Preempt, vars, loopVars
  <2>2. /\ stage' = "finding" => stage = "finding"
        /\ stage \in {"idle", "finding", "choosing", "done"}
             <=> stage' \in {"idle", "finding", "choosing", "done"}
    BY <1>6 DEF Sort, Cancel, Search, Rrt, Straight, Plant, GiveUp, Grow, Reach, Join, ReadToStart,
                ReadToGoal, Shortcut, Settle, Enough, Answer, Preempt, vars, rrtVars
  <2>3. LookedAtOK'
    BY <2>1, <2>2 DEF OutcomeInv, LookedAtOK
  <2>4. OutcomesAreTrue'
    BY <2>1, <2>2 DEF OutcomeInv, OutcomesAreTrue
  <2> QED BY <2>3, <2>4 DEF OutcomeInv
<1> QED BY <1>1, <1>2, <1>3, <1>4, <1>5, <1>6 DEF Next, Onward

(* However many candidates and postures a request has and in whatever order their searches   *)
(* end, the outcome of a candidate says what became of its postures.                         *)
THEOREM OutcomesStayTrue == Spec => []OutcomesAreTrue
<1>1. OutcomeInv => OutcomesAreTrue
  BY DEF OutcomeInv
<1> QED BY <1>1, InitPath, NextKeepsPath, InitOutcome, NextOutcome, PTL DEF Spec

-------------------------------------------------------------------------------
(* The table of reachable cells, and the file it is kept in: a specification of its own, which shares the   *)
(* module with the planner and no variable.                                                                 *)

\* Blocks of the table of one geometry, no more than it has.
PartOf(blocks, g) == blocks \in Seq({g}) /\ Len(blocks) <= Cells[g] + 1
Part(blocks) == blocks = None \/ \E g \in Geometries : PartOf(blocks, g)

TableInv ==
  at \in {"save", "write", "verify", "rename", "running"} => table = Built(want.geometry)
FilesInv == Part(file) /\ Part(temp)
WriteInv ==
  at = "write" => /\ temp # None /\ PartOf(temp, want.geometry)
                  /\ Len(temp) = done /\ done <= Len(table)
RenameInv == at = "rename" => temp = Built(want.geometry)

ReachInv == TypeOK /\ TableInv /\ FilesInv /\ WriteInv /\ RenameInv /\ CacheIsLastSaved
-------------------------------------------------------------------------------
\* The table of a geometry is a sequence of its blocks (reset, buildReachTable).
LEMMA BuiltOK ==
  ASSUME NEW g \in Geometries
  PROVE  /\ Built(g) \in Seq({g}) /\ Built(g) \in Seq(Geometries)
         /\ Len(Built(g)) = Cells[g] + 1 /\ Built(g) # None /\ PartOf(Built(g), g)
         /\ Cells[g] \in Nat \ {0}
  <1>1. Cells[g] \in Nat \ {0} BY ReachAssumption
  <1>2. Built(g) \in [1..(Cells[g] + 1) -> {g}] BY DEF Built
  <1>3. Built(g) \in [1..(Cells[g] + 1) -> Geometries] BY DEF Built
  <1>4. /\ Built(g) \in Seq({g}) /\ Built(g) \in Seq(Geometries)
        /\ Len(Built(g)) = Cells[g] + 1
    BY <1>1, <1>2, <1>3, SeqDef, LenProperties
  <1> QED BY <1>1, <1>4, ReachAssumption DEF PartOf

\* What load() accepts of such a file is the table of the geometry it was asked for.
LEMMA AcceptedIsWhole ==
  ASSUME NEW blocks, Part(blocks), NEW g \in Geometries, Accepts(blocks, g)
  PROVE  /\ Taken(blocks, g) = Built(g)
         /\ blocks = Built(g)
  <1>1. PICK h \in Geometries : PartOf(blocks, h) BY DEF Part, Accepts
  <1>2. Cells[g] \in Nat \ {0} BY ReachAssumption
  <1>3. /\ blocks \in Seq({h}) /\ Len(blocks) \in Nat
        /\ \A i \in 1..Len(blocks) : blocks[i] = h
    <2>1. blocks \in Seq({h}) BY <1>1 DEF PartOf
    <2> QED BY <2>1, LenProperties, ElementOfSeq
  <1>4. h = g BY <1>2, <1>3 DEF Accepts
  <1>5. Len(blocks) = Cells[g] + 1 BY <1>1, <1>2, <1>3, <1>4 DEF PartOf, Accepts
  <1>6. blocks = Built(g)
    BY <1>3, <1>4, <1>5, LenProperties DEF Built
  <1>7. Taken(blocks, g) = blocks
    <2>1. SubSeq(blocks, 1, Len(blocks)) = blocks BY <1>3, SubSeqFull
    <2> QED BY <2>1, <1>5 DEF Taken
  <1> QED BY <1>6, <1>7

\* The beginning of such a file is such a file.
LEMMA PartOfPart ==
  ASSUME NEW g \in Geometries, NEW blocks, PartOf(blocks, g), NEW n \in 0..Len(blocks)
  PROVE  PartOf(SubSeq(blocks, 1, n), g)
  <1>1. blocks \in Seq({g}) /\ Len(blocks) \in Nat BY LenProperties DEF PartOf
  <1>2. SubSeq(blocks, 1, n) \in Seq({g}) /\ Len(SubSeq(blocks, 1, n)) = n
    BY <1>1, SubSeqProperties
  <1>3. Cells[g] \in Nat BY ReachAssumption
  <1> QED BY <1>1, <1>2, <1>3 DEF PartOf

\* What a power loss leaves of a file is such a file (PowerLoss).
LEMMA CutIsPart ==
  ASSUME NEW blocks \in Blocks, Part(blocks), NEW left \in Cut(blocks)
  PROVE  Part(left) /\ left \in Blocks
  <1>1. CASE blocks = None BY <1>1 DEF Cut, Part, Blocks
  <1>2. CASE blocks # None
    <2>1. PICK g \in Geometries : PartOf(blocks, g) BY <1>2 DEF Part
    <2>2. PICK n \in 0..Len(blocks) : left = SubSeq(blocks, 1, n) BY <1>2 DEF Cut
    <2>3. PartOf(left, g) BY <2>1, <2>2, PartOfPart
    <2>4. left \in Seq(Geometries)
      <3>1. blocks \in Seq(Geometries) BY <1>2 DEF Blocks
      <3> QED BY <3>1, <2>2, SubSeqProperties, LenProperties
    <2> QED BY <2>3, <2>4 DEF Part, Blocks
  <1> QED BY <1>1, <1>2

\* A part of a table is a sequence of blocks, as the variables hold them.
LEMMA PartIsBlocks ==
  ASSUME NEW g \in Geometries, NEW blocks, PartOf(blocks, g)
  PROVE  Part(blocks) /\ blocks \in Blocks
  <1>1. blocks \in Seq(Geometries)
    BY LenProperties, ElementOfSeq, SeqDef DEF PartOf
  <1> QED BY <1>1 DEF Part, Blocks
-------------------------------------------------------------------------------
\* The invariant holds before the first start.
LEMMA ReachInitOK == ReachInit => ReachInv
  <1> SUFFICES ASSUME ReachInit PROVE ReachInv
    OBVIOUS
  <1>1. TypeOK
    <2>1. MaxFaults \in Nat BY ReachAssumption
    <2>2. table \in Blocks /\ file \in Blocks /\ temp \in Blocks BY DEF ReachInit, Blocks
    <2>3. parameters \in Parameters /\ want \in Parameters BY DEF ReachInit
    <2>4. done \in Nat /\ faults \in 0..MaxFaults BY <2>1 DEF ReachInit
    <2>5. cut \in BOOLEAN BY Zenon DEF ReachInit
    <2>6. at = "off" /\ saved = None BY DEF ReachInit
    <2> QED BY <2>2, <2>3, <2>4, <2>5, <2>6 DEF TypeOK
  <1>2. FilesInv BY DEF ReachInit, FilesInv, Part
  <1> QED BY <1>1, <1>2 DEF ReachInit, ReachInv, TableInv, WriteInv, RenameInv, CacheIsLastSaved

\* A block that is written makes a longer part of the same table.
LEMMA WriteOK ==
  ASSUME ReachInv, Write
  PROVE  /\ PartOf(temp', want.geometry) /\ temp' # None
         /\ Len(temp') = done' /\ done' <= Len(table) /\ done' \in Nat
  <1> DEFINE g == want.geometry
  <1>1. g \in Geometries BY DEF ReachInv, TypeOK, Parameters
  <1>2. at = "write" /\ done < Len(table) /\ temp' = Append(temp, table[done + 1]) /\ done' = done + 1
    BY DEF Write
  <1>3. /\ table = Built(g) /\ temp \in Seq({g}) /\ Len(temp) = done /\ done \in Nat
    BY <1>2 DEF ReachInv, TypeOK, TableInv, WriteInv, PartOf
  <1>4. Len(table) = Cells[g] + 1 /\ Cells[g] \in Nat \ {0} BY <1>1, <1>3, BuiltOK
  <1>5. table[done + 1] = g BY <1>2, <1>3, <1>4 DEF Built
  <1>6. temp' \in Seq({g}) /\ Len(temp') = done + 1
    BY <1>2, <1>3, <1>5, AppendProperties
  <1>7. temp' # None
    <2>1. temp' \in Seq(Geometries) 
      BY <1>1, <1>6, LenProperties, ElementOfSeq, SeqDef
    <2> QED BY <2>1, ReachAssumption
  <1> QED BY <1>2, <1>3, <1>4, <1>6, <1>7 DEF PartOf

\* Every step keeps it: one case per action.
LEMMA ReachNextOK == ReachInv /\ [ReachNext]_reachVars => ReachInv'
  <1> SUFFICES ASSUME ReachInv, [ReachNext]_reachVars PROVE ReachInv'
    OBVIOUS
  <1> DEFINE g == want.geometry
  <1>g. g \in Geometries BY DEF ReachInv, TypeOK, Parameters
  <1>1. CASE Start
    BY <1>1 DEF Start, Untouched, ReachInv, TypeOK, TableInv, FilesInv, WriteInv, RenameInv,
       CacheIsLastSaved, Blocks
  <1>2. CASE Load
    <2>1. table' = Built(g)
      BY <1>2, <1>g, AcceptedIsWhole DEF Load, ReachInv, FilesInv
    <2>2. /\ want' = want /\ parameters' = parameters /\ at' \in {"save", "running"}
          /\ UNCHANGED <<done, file, temp, saved, faults, cut>>
      BY <1>2 DEF Load, Goes, Untouched
    <2>3. table' \in Blocks BY <2>1, <1>g, BuiltOK DEF Blocks
    <2> QED
      BY <2>1, <2>2, <2>3 DEF ReachInv, TypeOK, TableInv, FilesInv, WriteInv, RenameInv, CacheIsLastSaved
  <1>3. CASE Open
    <2>1. /\ want' = want /\ parameters' = parameters /\ at = "save" /\ at' = "write"
          /\ temp' = <<>> /\ done' = 0
          /\ UNCHANGED <<table, file, saved, faults, cut>>
      BY <1>3 DEF Open, Goes
    <2>2. /\ PartOf(<<>>, g) /\ Len(<<>>) = 0
      BY <1>g, ReachAssumption DEF PartOf
    <2>3. Part(<<>>) /\ <<>> \in Blocks BY <1>g, <2>2, PartIsBlocks
    <2>4. <<>> # None
      <3>1. <<>> \in Seq(Geometries) BY EmptySeq
      <3> QED BY <3>1, ReachAssumption
    <2>5. table = Built(g) /\ 0 <= Len(table)
      BY <2>1, <1>g, BuiltOK DEF ReachInv, TableInv
    <2> QED
      BY <2>1, <2>2, <2>3, <2>4, <2>5
      DEF ReachInv, TypeOK, TableInv, FilesInv, WriteInv, RenameInv, CacheIsLastSaved
  <1>4. CASE Write
    <2>1. /\ want' = want /\ parameters' = parameters /\ at = "write" /\ at' = "write"
          /\ UNCHANGED <<table, file, saved, faults, cut>>
      BY <1>4 DEF Write, Goes
    <2>2. /\ PartOf(temp', g) /\ temp' # None
          /\ Len(temp') = done' /\ done' <= Len(table) /\ done' \in Nat
      BY <1>4, WriteOK
    <2>3. Part(temp') /\ temp' \in Blocks BY <1>g, <2>2, PartIsBlocks
    <2> QED
      BY <2>1, <2>2, <2>3
      DEF ReachInv, TypeOK, TableInv, FilesInv, WriteInv, RenameInv, CacheIsLastSaved
  <1>5. CASE Close
    <2>1. /\ want' = want /\ parameters' = parameters /\ at = "write" /\ at' = "verify"
          /\ UNCHANGED <<table, done, file, saved, cut>>
          /\ faults' \in 0..MaxFaults
      BY <1>5, ReachAssumption DEF Close, Goes, ReachInv, TypeOK
    <2>2. PartOf(temp, g) BY <2>1 DEF ReachInv, WriteInv
    <2>3. Part(temp') /\ temp' \in Blocks
      <3>1. CASE temp' = temp BY <3>1 DEF ReachInv, FilesInv, TypeOK
      <3>2. CASE temp' # temp
        <4>1. PICK n \in 0..(Len(temp) - 1) : temp' = SubSeq(temp, 1, n) BY <1>5, <3>2 DEF Close
        <4>2. n \in 0..Len(temp) BY <2>2, LenProperties DEF PartOf
        <4>3. PartOf(temp', g) BY <1>g, <2>2, <4>1, <4>2, PartOfPart
        <4> QED BY <1>g, <4>3, PartIsBlocks
      <3> QED BY <3>1, <3>2
    <2> QED
      BY <2>1, <2>3 DEF ReachInv, TypeOK, TableInv, FilesInv, WriteInv, RenameInv, CacheIsLastSaved
  <1>6. CASE Verify
    <2>1. /\ want' = want /\ parameters' = parameters /\ at = "verify" /\ at' \in {"rename", "running"}
          /\ UNCHANGED <<table, done, file, temp, saved, faults, cut>>
      BY <1>6 DEF Verify, Goes, Untouched
    <2>2. at' = "rename" => temp = Built(g)
      BY <1>6, <1>g, AcceptedIsWhole DEF Verify, Goes, WrittenWell, ReachInv, FilesInv
    <2> QED
      BY <2>1, <2>2 DEF ReachInv, TypeOK, TableInv, FilesInv, WriteInv, RenameInv, CacheIsLastSaved
  <1>7. CASE Rename
    <2>1. /\ want' = want /\ parameters' = parameters /\ at = "rename" /\ at' = "running"
          /\ file' = temp /\ temp' = None /\ saved' = g /\ cut' = FALSE
          /\ UNCHANGED <<table, done, faults>>
      BY <1>7 DEF Rename, Goes
    <2>2. temp = Built(g) BY <2>1 DEF ReachInv, RenameInv
    <2>3. g # None BY <1>g, ReachAssumption
    <2> QED
      BY <2>1, <2>2, <2>3, <1>g
      DEF ReachInv, TypeOK, TableInv, FilesInv, WriteInv, RenameInv, CacheIsLastSaved, Part, Blocks
  <1>8. CASE NotSaved
    BY <1>8, ReachAssumption DEF NotSaved, Goes, ReachInv, TypeOK, TableInv, FilesInv, WriteInv, RenameInv,
       CacheIsLastSaved
  <1>9. CASE Stop
    BY <1>9 DEF Stop, Goes, Untouched, ReachInv, TypeOK, TableInv, FilesInv, WriteInv, RenameInv,
       CacheIsLastSaved
  <1>10. CASE PowerLoss
    <2>1. /\ want' = want /\ parameters' = parameters /\ at' = "off" /\ cut' = TRUE
          /\ UNCHANGED <<table, done, saved>> /\ faults' \in 0..MaxFaults
      BY <1>10, ReachAssumption DEF PowerLoss, Goes, ReachInv, TypeOK
    <2>2. Part(file') /\ file' \in Blocks /\ Part(temp') /\ temp' \in Blocks
      BY <1>10, CutIsPart DEF PowerLoss, ReachInv, FilesInv, TypeOK
    <2> QED
      BY <2>1, <2>2 DEF ReachInv, TypeOK, TableInv, FilesInv, WriteInv, RenameInv, CacheIsLastSaved
  <1>11. CASE Edit
    BY <1>11 DEF Edit, Untouched, ReachInv, TypeOK, TableInv, FilesInv, WriteInv, RenameInv,
       CacheIsLastSaved
  <1>12. CASE UNCHANGED reachVars
    BY <1>12 DEF reachVars, ReachInv, TypeOK, TableInv, FilesInv, WriteInv, RenameInv, CacheIsLastSaved
  <1> QED
    BY <1>1, <1>2, <1>3, <1>4, <1>5, <1>6, <1>7, <1>8, <1>9, <1>10, <1>11, <1>12 DEF ReachNext

\* So it holds in every behaviour.
LEMMA ReachAlways == ReachSpec => []ReachInv
  BY ReachInitOK, ReachNextOK, PTL DEF ReachSpec
-------------------------------------------------------------------------------
\* The variables keep their types (ReachTable::save, load, the park node's constructor).
THEOREM ReachTypesHold == ReachSpec => []TypeOK
  <1>1. ReachInv => TypeOK BY DEF ReachInv
  <1> QED BY <1>1, ReachAlways, PTL

\* The park node runs with the whole table of the parameters it was started with, whatever it
\* found at cache_path (ReachTable::load).
THEOREM LoadedTableIsWanted == ReachSpec => []LoadedIsWanted
  <1>1. ReachInv => LoadedIsWanted BY DEF ReachInv, TableInv, LoadedIsWanted
  <1> QED BY <1>1, ReachAlways, PTL

\* A save that fails, or is killed in the middle, leaves the file that was there, and one that
\* succeeds leaves all of its own table (ReachTable::save).
THEOREM CacheHoldsLastSaved == ReachSpec => []CacheIsLastSaved
  <1>1. ReachInv => CacheIsLastSaved BY DEF ReachInv
  <1> QED BY <1>1, ReachAlways, PTL
================================================================================
