---------------------------- MODULE ArmLoop_proofs -----------------------------
(***************************************************************************)
(* What the executor's verdicts mean, for any arm, any paths and any       *)
(* parameters that leave enough time.                                      *)
(***************************************************************************)
EXTENDS ArmLoop, FiniteSetTheorems, WellFoundedInduction, TLAPS

-------------------------------------------------------------------------------
(* Counting, recursion, and the greatest of finitely many numbers.         *)

\* Counting up to n: a set that holds 0, and with a number below n the next, holds 0..n.
Counts(E, n) == 0 \in E /\ \A k \in 0..(n - 1) : k \in E => k + 1 \in E

\* A set of 0..n that is counted up to n holds n.
LEMMA CountingUp ==
  ASSUME NEW n \in Nat, NEW E \in SUBSET (0..n), Counts(E, n)
  PROVE  n \in E
<1> DEFINE G == {m \in 0..n : \A k \in 0..m : k \in E}
           f == [m \in G |-> m + 1]
<1> USE DEF Counts
<1> SUFFICES ASSUME n \notin G PROVE FALSE
  OBVIOUS
<1>1. 0 \in G
  OBVIOUS
<1>2. \A m \in G : m + 1 \in G \ {0}
  <2> SUFFICES ASSUME NEW m \in G PROVE m + 1 \in G \ {0}
    OBVIOUS
  <2>1. m \in Nat /\ m <= n /\ m # n /\ m \in 0..m
    OBVIOUS
  <2>2. m \in 0..(n - 1) /\ m \in E
    BY <2>1
  <2>3. m + 1 \in E
    BY <2>2
  <2>4. \A k \in 0..(m + 1) : k \in 0..m \/ k = m + 1
    BY <2>1
  <2>5. m + 1 \in 0..n
    BY <2>1
  <2> QED BY <2>3, <2>4, <2>5
<1>3. IsFiniteSet(0..n)
  BY FS_Interval
<1>4. G \in SUBSET (0..n)
  OBVIOUS
<1>5. IsFiniteSet(G)
  BY <1>3, <1>4, FS_Subset
<1>6. IsFiniteSet(G \ {0}) /\ Cardinality(G \ {0}) = Cardinality(G) - 1 /\ Cardinality(G) \in Nat
  BY <1>1, <1>5, FS_RemoveElement, FS_CardinalityType
<1>7. f \in [G -> G \ {0}]
  BY <1>2
<1> HIDE DEF f, G
<1>8. \E x, y \in G : x # y /\ f[x] = f[y]
  BY <1>5, <1>6, <1>7, FS_PigeonHole
<1>9. \A x \in G : x \in Nat /\ f[x] = x + 1
  BY <1>4 DEF f
<1> QED BY <1>8, <1>9

\* What each step makes of the value before it, from a first value on.
Runs(f, step, first, n) == f[0] = first /\ \A i \in 1..n : f[i] = step[i][f[i - 1]]

\* A recursion over finitely many steps has a function that follows it.
LEMMA Recursion ==
  ASSUME NEW T, NEW n \in Nat, NEW first \in T, NEW step \in [1..n -> [T -> T]]
  PROVE  \E f \in [0..n -> T] : Runs(f, step, first, n)
<1> DEFINE E == {m \in 0..n : \E f \in [0..m -> T] : Runs(f, step, first, m)}
<1>1. 0 \in E
  <2> DEFINE f == [i \in 0..0 |-> first]
  <2>1. f \in [0..0 -> T] /\ Runs(f, step, first, 0)
    BY DEF Runs
  <2> HIDE DEF f
  <2> QED BY <2>1
<1>2. \A m \in 0..(n - 1) : m \in E => m + 1 \in E
  <2> SUFFICES ASSUME NEW m \in 0..(n - 1), m \in E PROVE m + 1 \in E
    OBVIOUS
  <2>1. PICK f \in [0..m -> T] : Runs(f, step, first, m)
    OBVIOUS
  <2> HIDE DEF E
  <2>2. m \in Nat /\ m + 1 \in 1..n /\ m + 1 \in 0..n
    OBVIOUS
  <2>3. step[m + 1][f[m]] \in T
    BY <2>2
  <2> DEFINE g == [i \in 0..(m + 1) |-> IF i = m + 1 THEN step[m + 1][f[m]] ELSE f[i]]
  <2>4. g \in [0..(m + 1) -> T]
    BY <2>2, <2>3
  <2>5. g[m + 1] = step[m + 1][f[m]] /\ \A i \in 0..m : g[i] = f[i]
    BY <2>2
  <2> HIDE DEF g
  <2>6. ASSUME NEW i \in 1..(m + 1) PROVE g[i] = step[i][g[i - 1]]
    <3>1. i - 1 \in 0..m /\ (i # m + 1 => i \in 1..m /\ i \in 0..m) /\ (m + 1) - 1 = m
      BY <2>2
    <3>2. g[i - 1] = f[i - 1]
      BY <2>5, <3>1
    <3>3. CASE i = m + 1
      BY <2>5, <3>1, <3>2, <3>3
    <3>4. CASE i # m + 1
      BY <2>1, <2>5, <3>1, <3>2, <3>4 DEF Runs
    <3> QED BY <3>3, <3>4
  <2>7. Runs(g, step, first, m + 1)
    <3>1. g[0] = first
      BY <2>1, <2>2, <2>5 DEF Runs
    <3> QED BY <2>6, <3>1 DEF Runs
  <2> QED BY <2>2, <2>4, <2>7 DEF E
<1>3. E \in SUBSET (0..n)
  OBVIOUS
<1>4. n \in E
  <2> HIDE DEF E
  <2> QED BY <1>1, <1>2, <1>3, CountingUp DEF Counts
<1> QED BY <1>4

\* Functions that agree at first, and at a step when they do before it, agree in the end.
Follows(f, g, n) == f[0] = g[0] /\ \A i \in 1..n : f[i - 1] = g[i - 1] => f[i] = g[i]

\* Counting up, the functions agree everywhere, and in the end.
LEMMA SameInTheEnd ==
  ASSUME NEW n \in Nat, NEW f, NEW g, Follows(f, g, n)
  PROVE  f[n] = g[n]
<1> DEFINE E == {m \in 0..n : f[m] = g[m]}
<1>1. 0 \in E
  BY DEF Follows
<1>2. \A m \in 0..(n - 1) : m \in E => m + 1 \in E
  <2> SUFFICES ASSUME NEW m \in 0..(n - 1), f[m] = g[m] PROVE m + 1 \in E
    OBVIOUS
  <2>1. m + 1 \in 1..n /\ m + 1 \in 0..n /\ (m + 1) - 1 = m
    OBVIOUS
  <2> QED BY <2>1 DEF Follows
<1>3. E \in SUBSET (0..n)
  OBVIOUS
<1>4. n \in E
  <2> HIDE DEF E
  <2> QED BY <1>1, <1>2, <1>3, CountingUp DEF Counts
<1> QED BY <1>4

\* A sequence of sequences, one after the other.
LEMMA Flattened ==
  ASSUME NEW S, NEW ss \in Seq(Seq(S))
  PROVE  \E f \in [0..Len(ss) -> Seq(S)] :
           /\ f[0] = <<>> /\ \A i \in 1..Len(ss) : f[i] = f[i - 1] \o ss[i]
           /\ FlattenSeq(ss) = f[Len(ss)]
<1> DEFINE n == Len(ss)
           step == [i \in 1..n |-> [s \in Seq(S) |-> s \o ss[i]]]
           all(k) == [i \in 1..n |-> IF i = 1 THEN ss[i] ELSE k[i - 1] \o ss[i]]
           flat == CHOOSE k : k = all(k)
<1>1. n \in Nat /\ \A i \in 1..n : ss[i] \in Seq(S)
  OBVIOUS
<1>2. FlattenSeq(ss) = IF n = 0 THEN ss ELSE flat[n]
  BY DEF FlattenSeq
<1>3. n = 0 => ss \in Seq(S)
  OBVIOUS
<1> HIDE DEF n
<1>4. step \in [1..n -> [Seq(S) -> Seq(S)]] /\ <<>> \in Seq(S)
  BY <1>1
<1>5. PICK f \in [0..n -> Seq(S)] : Runs(f, step, <<>>, n)
  <2> HIDE DEF step
  <2> QED BY <1>1, <1>4, Recursion
<1>6. f[0] = <<>> /\ \A i \in 1..n : i - 1 \in 0..n /\ f[i] = f[i - 1] \o ss[i]
  <2>1. \A i \in 1..n : i - 1 \in 0..n /\ f[i] = step[i][f[i - 1]]
    <3>1. \A i \in 1..n : i - 1 \in 0..n
      BY <1>1
    <3> HIDE DEF step
    <3> QED BY <1>5, <3>1 DEF Runs
  <2>2. \A i \in 1..n : f[i - 1] \in Seq(S)
    BY <2>1
  <2> QED BY <1>5, <2>1, <2>2 DEF Runs
<1> DEFINE g == [i \in 1..n |-> f[i]]
<1>7. \A i \in 1..n : f[i] = IF i = 1 THEN ss[i] ELSE f[i - 1] \o ss[i]
  <2>1. ASSUME NEW s \in Seq(S) PROVE <<>> \o s = s
    OBVIOUS
  <2>2. ASSUME 1 \in 1..n PROVE f[1] = ss[1]
    <3>1. ASSUME NEW i \in 1..n, i = 1 PROVE f[i] = ss[i]
      <4>1. i - 1 = 0
        BY <3>1
      <4>2. f[i] = f[i - 1] \o ss[i]
        BY <1>6, Zenon
      <4>3. ss[i] \in Seq(S)
        BY <1>1
      <4>4. f[i - 1] = <<>>
        BY <1>6, <4>1
      <4>5. <<>> \o ss[i] = ss[i]
        BY <2>1, <4>3
      <4> QED BY <4>2, <4>4, <4>5
    <3> QED BY <2>2, <3>1
  <2> QED BY <1>6, <2>2
<1>7a. g = all(g)
  <2>1. \A i \in 1..n : g[i] = f[i] /\ (i # 1 => i - 1 \in 1..n /\ g[i - 1] = f[i - 1])
    BY <1>1
  <2> HIDE DEF g
  <2>2. \A i \in 1..n : g[i] = IF i = 1 THEN ss[i] ELSE g[i - 1] \o ss[i]
    BY <1>7, <2>1
  <2>3. g = [i \in 1..n |-> g[i]]
    BY DEF g
  <2> QED BY <2>2, <2>3
<1>8. flat = all(flat)
  <2> HIDE DEF all, g
  <2> QED BY <1>7a, Zenon
<1> HIDE DEF flat
<1>9. \A i \in 1..n : flat[i] = IF i = 1 THEN ss[i] ELSE flat[i - 1] \o ss[i]
  BY <1>1, <1>8
<1> DEFINE h == [i \in 0..n |-> IF i = 0 THEN <<>> ELSE flat[i]]
<1>10. h[0] = <<>> /\ \A i \in 1..n : h[i] = flat[i]
  BY <1>1
<1> HIDE DEF h
<1>11. Follows(h, f, n)
  <2> SUFFICES ASSUME NEW i \in 1..n, h[i - 1] = f[i - 1] PROVE h[i] = f[i]
    BY <1>6, <1>10 DEF Follows
  <2>1. i # 1 => i - 1 \in 1..n
    BY <1>1
  <2>2. CASE i = 1
    BY <1>7, <1>9, <1>10, <2>2
  <2>3. CASE i # 1
    BY <1>7, <1>9, <1>10, <2>1, <2>3
  <2> QED BY <2>2, <2>3
<1>12. n # 0 => flat[n] = f[n]
  <2>1. h[n] = f[n]
    BY <1>1, <1>11, SameInTheEnd
  <2> QED BY <1>1, <1>10, <2>1
<1>13. n = 0 => ss = <<>>
  BY DEF n
<1>14. FlattenSeq(ss) = f[n]
  BY <1>2, <1>6, <1>12, <1>13
<1>15. \A i \in 1..n : f[i] = f[i - 1] \o ss[i]
  BY <1>6
<1> QED BY <1>6, <1>14, <1>15 DEF n

\* Of finitely many things that are measured one is the greatest.  Were there none, the things
\* that are at least as great as a given one would be ever fewer sets of a finite one.
LEMMA Greatest ==
  ASSUME NEW S, IsFiniteSet(S), S # {}, NEW f \in [S -> Int]
  PROVE  \E x \in S : \A y \in S : f[y] <= f[x]
<1> DEFINE From(x) == {y \in S : f[x] <= f[y]}
           Tails == {From(x) : x \in S}
<1>1. Tails \subseteq FiniteSubsetsOf(S) /\ Tails # {}
  <2>1. \A x \in S : From(x) \in SUBSET S
    OBVIOUS
  <2>2. FiniteSubsetsOf(S) = SUBSET S
    BY FS_FiniteSubsetsOfFinite
  <2>3. Tails # {}
    <3>1. PICK x \in S : TRUE
      OBVIOUS
    <3>2. From(x) \in Tails
      OBVIOUS
    <3> HIDE DEF Tails
    <3> QED BY <3>2
  <2>4. \A T \in Tails : T \in SUBSET S
    BY <2>1
  <2> HIDE DEF Tails
  <2> QED BY <2>2, <2>3, <2>4
<1>2. PICK T \in Tails : \A U \in Tails : ~(<<U, T>> \in StrictSubsetOrdering(S))
  <2>1. IsWellFoundedOn(StrictSubsetOrdering(S), FiniteSubsetsOf(S))
    BY FS_StrictSubsetOrderingWellFounded
  <2> HIDE DEF Tails
  <2> QED BY <1>1, <2>1, WFMin
<1>3. PICK x \in S : T = From(x)
  OBVIOUS
<1>4. ASSUME NEW y \in S, ~(f[y] <= f[x]) PROVE FALSE
  <2>1. f[x] \in Int /\ f[y] \in Int /\ f[x] < f[y]
    BY <1>4
  <2>2. From(y) \subseteq From(x) /\ x \in From(x) /\ x \notin From(y)
    BY <2>1
  <2>3. From(y) \in Tails
    OBVIOUS
  <2> HIDE DEF Tails
  <2>4. From(y) \in SUBSET S /\ From(x) \in SUBSET S
    OBVIOUS
  <2> HIDE DEF From
  <2>5. <<From(y), From(x)>> \in StrictSubsetOrdering(S)
    BY <2>2, <2>4 DEF StrictSubsetOrdering
  <2> QED BY <1>2, <1>3, <2>3, <2>5
<1> QED BY <1>4

-------------------------------------------------------------------------------
(* The waypoints (load).                                                   *)

\* What a division that rounds down leaves out.
LEMMA DivIs ==
  ASSUME NEW x \in Int, NEW n \in Nat \ {0}
  PROVE  x \div n \in Int /\ n * (x \div n) <= x /\ x < n * (x \div n) + n
OBVIOUS

\* A product grows with its second factor.
LEMMA TimesLess ==
  ASSUME NEW n \in Nat \ {0}, NEW a \in Int, NEW b \in Int, n * a < n * b
  PROVE  a < b
OBVIOUS

\* Two points of a line that was cut, one after the other, are at most one cut apart.
LEMMA CutStep ==
  ASSUME NEW n \in Nat \ {0}, NEW m \in Nat, NEW d \in Int, Distance(0, d) <= n * m, NEW x \in Int
  PROVE  Distance(x \div n, (x + d) \div n) <= m
<1> DEFINE q == x \div n
           r == (x + d) \div n
<1>1. q \in Int /\ n * q <= x /\ x < n * q + n
  BY DivIs
<1>2. r \in Int /\ n * r <= x + d /\ x + d < n * r + n
  <2>1. x + d \in Int
    OBVIOUS
  <2> QED BY <2>1, DivIs
<1>3. d <= n * m /\ -d <= n * m /\ n * m \in Int
  BY DEF Distance
<1> HIDE DEF q, r
<1>4. n * r - n * q < n * m + n /\ n * q - n * r < n * m + n
  <2>1. n * r \in Int /\ n * q \in Int
    BY <1>1, <1>2
  <2> QED BY <1>1, <1>2, <1>3, <2>1
<1>5. /\ n * r - n * q = n * (r - q) /\ n * q - n * r = n * (q - r)
      /\ n * m + n = n * (m + 1)
  BY <1>1, <1>2
<1>6. r - q < m + 1
  <2>1. r - q \in Int /\ m + 1 \in Int /\ n * (r - q) < n * (m + 1)
    BY <1>1, <1>2, <1>4, <1>5
  <2> HIDE DEF q, r
  <2> QED BY <2>1, TimesLess
<1>7. q - r < m + 1
  <2>1. q - r \in Int /\ m + 1 \in Int /\ n * (q - r) < n * (m + 1)
    BY <1>1, <1>2, <1>4, <1>5
  <2> QED BY <2>1, TimesLess
<1>8. Distance(q, r) <= m
  BY <1>1, <1>2, <1>6, <1>7 DEF Distance
<1> QED BY <1>8 DEF q, r

\* A distance is a number, the same both ways, and none if nothing lies between.
LEMMA DistanceIs ==
  ASSUME NEW a \in Int, NEW b \in Int
  PROVE  /\ Distance(a, b) \in Nat /\ Distance(a, b) = Distance(b, a)
         /\ Distance(a, b) = 0 <=> a = b
         /\ Distance(0, b - a) = Distance(a, b)
BY DEF Distance

\* A line is cut often enough that no joint goes too far at once.
LEMMA CutsOK ==
  ASSUME NEW from \in Pose, NEW to \in Pose
  PROVE  /\ Cuts(from, to) \in Nat \ {0}
         /\ \A j \in Moved : Distance(from[j], to[j]) <= Cuts(from, to) * MaxStep
<1> DEFINE far == [j \in Moved |-> Distance(from[j], to[j])]
           Gaps == {Distance(from[j], to[j]) : j \in Moved}
           Enough(n) == \A j \in Moved : Distance(from[j], to[j]) <= n * MaxStep
           Least1(n) == n > 1 => \E j \in Moved : Distance(from[j], to[j]) > (n - 1) * MaxStep
<1>1. \A j \in Moved : from[j] \in Int /\ to[j] \in Int /\ far[j] = Distance(from[j], to[j]) /\ far[j] \in Nat
  BY DistanceIs DEF Pose
<1>2. IsFiniteSet(Moved) /\ Moved # {} /\ MaxStep \in Nat \ {0}
  BY FollowAssumption
<1>3. far \in [Moved -> Int]
  BY <1>1
<1> HIDE DEF far
<1>4. PICK k \in Moved : \A j \in Moved : far[j] <= far[k]
  BY <1>2, <1>3, Greatest
<1>5. Max(Gaps) \in Gaps /\ \A g \in Gaps : g <= Max(Gaps)
  <2>1. far[k] \in Gaps /\ \A g \in Gaps : far[k] >= g
    BY <1>1, <1>4
  <2> HIDE DEF Gaps
  <2> QED BY <2>1 DEF Max
<1>6. Max(Gaps) \in Nat
  BY <1>1, <1>5
<1> DEFINE top == 1 + Max(Gaps)
           Tried == {n \in 1..top : Enough(n)}
<1>7. top \in Nat \ {0} /\ top \in 1..top
  BY <1>6
<1>8. top \in Tried
  <2>1. ASSUME NEW j \in Moved PROVE Distance(from[j], to[j]) <= top * MaxStep
    <3>1. Distance(from[j], to[j]) \in Gaps
      OBVIOUS
    <3>2. Distance(from[j], to[j]) <= top /\ Distance(from[j], to[j]) \in Nat
      <4> HIDE DEF Gaps
      <4> QED BY <1>1, <1>5, <1>6, <3>1
    <3> HIDE DEF top, Gaps
    <3>3. top <= top * MaxStep /\ top * MaxStep \in Nat
      BY <1>2, <1>7
    <3> QED BY <1>7, <3>2, <3>3
  <2> QED BY <1>7, <2>1
<1> HIDE DEF top
<1>9. PICK n \in Tried : \A m \in Tried : n <= m
  <2> DEFINE below == [m \in Tried |-> -m]
  <2>1. Tried \in SUBSET (1..top) /\ IsFiniteSet(1..top)
    BY <1>7, FS_Interval
  <2> HIDE DEF Tried
  <2>2. IsFiniteSet(Tried) /\ Tried # {}
    BY <1>8, <2>1, FS_Subset
  <2>3. below \in [Tried -> Int] /\ \A m \in Tried : below[m] = -m /\ m \in Int
    BY <1>7, <2>1
  <2> HIDE DEF below
  <2>4. PICK n \in Tried : \A m \in Tried : below[m] <= below[n]
    BY <2>2, <2>3, Greatest
  <2> QED BY <2>3, <2>4
<1>10. n \in 1..top /\ Enough(n)
  BY DEF Tried
<1>11. Least1(n)
  <2> SUFFICES ASSUME n > 1, \A j \in Moved : ~(Distance(from[j], to[j]) > (n - 1) * MaxStep)
               PROVE  FALSE
    OBVIOUS
  <2>1. n - 1 \in 1..top /\ n - 1 < n
    BY <1>7, <1>10
  <2>2. (n - 1) * MaxStep \in Int
    BY <1>2, <2>1
  <2>3. \A j \in Moved : Distance(from[j], to[j]) <= (n - 1) * MaxStep
    BY <1>1, <2>2
  <2>4. n - 1 \in Tried
    BY <2>1, <2>3
  <2> HIDE DEF Tried
  <2> QED BY <1>7, <1>9, <1>10, <2>1, <2>4
<1>12. Cuts(from, to) = CHOOSE i \in 1..top : Enough(i) /\ Least1(i)
  BY DEF Cuts, top
<1> HIDE DEF Tried, Least1
<1>13. Cuts(from, to) \in 1..top /\ Enough(Cuts(from, to))
  <2> HIDE DEF Enough
  <2> QED BY <1>10, <1>11, <1>12
<1> QED BY <1>7, <1>13

\* From one position to the next no joint goes further than max_joint_step.
OneStep(a, b) == \A j \in Moved : Distance(a[j], b[j]) <= MaxStep

\* Waypoints that lead from one position to another, step by step.
Leads(path, from, to) ==
  /\ path \in Seq(Pose) /\ path # <<>>
  /\ OneStep(from, path[1]) /\ \A i \in 2..Len(path) : OneStep(path[i - 1], path[i])
  /\ path[Len(path)] = to

\* A straight line leads from its one end to its other.
LEMMA LineLeads ==
  ASSUME NEW from \in Pose, NEW to \in Pose
  PROVE  Leads(Line(from, to), from, to)
<1> DEFINE n == Cuts(from, to)
           d(j) == to[j] - from[j]
           L == Line(from, to)
<1>1. /\ n \in Nat \ {0}
      /\ \A j \in Moved : Distance(from[j], to[j]) <= n * MaxStep
  BY CutsOK
<1>2. \A j \in Moved : from[j] \in Int /\ to[j] \in Int /\ d(j) \in Int
  BY DEF Pose
<1>3. MaxStep \in Nat
  BY FollowAssumption
<1>4. L = [s \in 1..n |-> [j \in Moved |-> from[j] + (d(j) * s) \div n]]
  BY DEF Line
<1> HIDE DEF n, L
<1>5. ASSUME NEW s \in Int, NEW j \in Moved
      PROVE  /\ d(j) * s \in Int /\ (d(j) * s) \div n \in Int
             /\ d(j) * (s + 1) = d(j) * s + d(j)
             /\ Distance((d(j) * s) \div n, (d(j) * (s + 1)) \div n) <= MaxStep
  <2>1. d(j) \in Int /\ Distance(0, d(j)) <= n * MaxStep
    BY <1>1, <1>2, DistanceIs
  <2> HIDE DEF d
  <2>2. d(j) * s \in Int /\ d(j) * (s + 1) = d(j) * s + d(j)
    BY <2>1
  <2>3. Distance((d(j) * s) \div n, (d(j) * s + d(j)) \div n) <= MaxStep
    BY <1>1, <1>3, <2>1, <2>2, CutStep
  <2>4. (d(j) * s) \div n \in Int
    BY <1>1, <2>2, DivIs
  <2> QED BY <2>2, <2>3, <2>4
<1>6. \A s \in 1..n : s \in Int
  BY <1>1
<1>7. ASSUME NEW s \in 1..n PROVE L[s] \in Pose /\ \A j \in Moved : L[s][j] = from[j] + (d(j) * s) \div n
  <2>1. L[s] = [j \in Moved |-> from[j] + (d(j) * s) \div n]
    BY <1>4, Zenon
  <2>2. \A j \in Moved : from[j] + (d(j) * s) \div n \in Int
    <3> SUFFICES ASSUME NEW j \in Moved PROVE from[j] + (d(j) * s) \div n \in Int
      OBVIOUS
    <3>1. from[j] \in Int /\ s \in Int
      BY <1>2, <1>6
    <3> HIDE DEF d
    <3>2. (d(j) * s) \div n \in Int
      BY <1>5, <3>1
    <3> QED BY <3>1, <3>2
  <2> HIDE DEF d
  <2> QED BY <2>1, <2>2 DEF Pose
<1>8. L \in Seq(Pose) /\ Len(L) = n /\ L # <<>>
  <2>1. L = [s \in 1..n |-> L[s]] /\ \A s \in 1..n : L[s] \in Pose
    BY <1>4, <1>7
  <2> QED BY <1>1, <2>1
<1>9. ASSUME NEW s \in 1..(n - 1) PROVE OneStep(L[s], L[s + 1])
  <2>1. s \in 1..n /\ s + 1 \in 1..n /\ s \in Int
    BY <1>1
  <2>2. ASSUME NEW j \in Moved PROVE Distance(L[s][j], L[s + 1][j]) <= MaxStep
    <3>1. L[s][j] = from[j] + (d(j) * s) \div n /\ L[s + 1][j] = from[j] + (d(j) * (s + 1)) \div n
      BY <1>7, <2>1
    <3>2. /\ (d(j) * s) \div n \in Int /\ (d(j) * (s + 1)) \div n \in Int
          /\ Distance((d(j) * s) \div n, (d(j) * (s + 1)) \div n) <= MaxStep
      <4>1. s + 1 \in Int
        BY <2>1
      <4> QED BY <1>5, <2>1, <4>1
    <3> HIDE DEF d
    <3> QED BY <1>2, <3>1, <3>2 DEF Distance
  <2> QED BY <2>2 DEF OneStep
<1>10. OneStep(from, L[1])
  <2>1. 1 \in 1..n
    BY <1>1
  <2>2. ASSUME NEW j \in Moved PROVE Distance(from[j], L[1][j]) <= MaxStep
    <3>1. L[1][j] = from[j] + (d(j) * 1) \div n
      BY <1>7, <2>1
    <3>2. (d(j) * 0) \div n = 0
      <4>1. d(j) * 0 = 0
        BY <1>2
      <4>2. 0 \div n \in Int /\ n * (0 \div n) <= 0 /\ 0 < n * (0 \div n) + n
        BY <1>1, DivIs
      <4> HIDE DEF d
      <4> QED BY <1>1, <4>1, <4>2
    <3>3. /\ (d(j) * 1) \div n \in Int
          /\ Distance((d(j) * 0) \div n, (d(j) * 1) \div n) <= MaxStep
      <4>1. /\ (d(j) * (0 + 1)) \div n \in Int
            /\ Distance((d(j) * 0) \div n, (d(j) * (0 + 1)) \div n) <= MaxStep
        BY <1>5
      <4> QED BY <4>1
    <3> HIDE DEF d
    <3> QED BY <1>2, <3>1, <3>2, <3>3 DEF Distance
  <2> QED BY <2>2 DEF OneStep
<1>11. L[n] = to
  <2>1. n \in 1..n
    BY <1>1
  <2>2. ASSUME NEW j \in Moved PROVE L[n][j] = to[j]
    <3>1. L[n][j] = from[j] + (d(j) * n) \div n
      BY <1>7, <2>1
    <3>2. (d(j) * n) \div n = d(j)
      <4>1. d(j) \in Int /\ d(j) * n \in Int /\ n * d(j) = d(j) * n
        BY <1>1, <1>2
      <4> HIDE DEF d
      <4> DEFINE q == (d(j) * n) \div n
      <4>2. q \in Int /\ n * q <= n * d(j) /\ n * d(j) < n * q + n
        BY <1>1, <4>1, DivIs
      <4> HIDE DEF q
      <4>3. n * q + n = n * (q + 1) /\ n * q < n * (d(j) + 1)
        BY <1>1, <4>1, <4>2
      <4>4. d(j) < q + 1 /\ q < d(j) + 1
        BY <1>1, <4>1, <4>2, <4>3, TimesLess
      <4>5. q = d(j)
        BY <4>1, <4>2, <4>4
      <4> QED BY <4>5 DEF q
    <3> QED BY <1>2, <3>1, <3>2
  <2>3. L[n] \in Pose
    BY <1>7, <2>1
  <2> QED BY <2>2, <2>3 DEF Pose
<1>12. ASSUME NEW i \in 2..n PROVE OneStep(L[i - 1], L[i])
  <2>1. i - 1 \in 1..(n - 1) /\ (i - 1) + 1 = i
    BY <1>1
  <2>2. OneStep(L[i - 1], L[(i - 1) + 1])
    BY <1>9, <2>1
  <2> QED BY <2>1, <2>2
<1>13. Leads(L, from, to)
  BY <1>8, <1>10, <1>11, <1>12 DEF Leads
<1> QED BY <1>13 DEF L

\* Two ways, the second from where the first one ends, are one.
LEMMA LeadsOn ==
  ASSUME NEW a, NEW b, NEW c, NEW p, NEW q, Leads(p, a, b), Leads(q, b, c)
  PROVE  Leads(p \o q, a, c)
<1> DEFINE r == p \o q
<1>1. /\ p \in Seq(Pose) /\ q \in Seq(Pose) /\ Len(p) \in Nat \ {0} /\ Len(q) \in Nat \ {0}
      /\ p[Len(p)] = b /\ q[Len(q)] = c
  BY DEF Leads
<1>2. /\ r \in Seq(Pose) /\ Len(r) = Len(p) + Len(q)
      /\ \A i \in 1..Len(p) : r[i] = p[i]
      /\ \A i \in 1..Len(q) : r[Len(p) + i] = q[i]
  BY <1>1
<1> HIDE DEF r
<1>3. r # <<>> /\ r[Len(r)] = c
  <2>1. Len(q) \in 1..Len(q)
    BY <1>1
  <2>2. r[Len(p) + Len(q)] = q[Len(q)]
    BY <1>2, <2>1
  <2>3. Len(r) # 0
    BY <1>1, <1>2
  <2> QED BY <1>1, <1>2, <2>2, <2>3
<1>4. OneStep(a, r[1])
  <2>1. 1 \in 1..Len(p)
    BY <1>1
  <2>2. r[1] = p[1]
    BY <1>2, <2>1
  <2> QED BY <2>2 DEF Leads
<1>5. ASSUME NEW i \in 2..Len(r) PROVE OneStep(r[i - 1], r[i])
  <2>1. CASE i <= Len(p)
    <3>1. i \in 2..Len(p) /\ i - 1 \in 1..Len(p) /\ i \in 1..Len(p)
      BY <1>1, <1>2, <2>1
    <3> QED BY <1>2, <3>1 DEF Leads
  <2>2. CASE i = Len(p) + 1
    <3>1. i - 1 = Len(p) /\ Len(p) \in 1..Len(p) /\ 1 \in 1..Len(q)
      BY <1>1, <2>2
    <3>2. r[i - 1] = b /\ r[i] = q[1]
      BY <1>1, <1>2, <2>2, <3>1
    <3> QED BY <3>2 DEF Leads
  <2>3. CASE i > Len(p) + 1
    <3> DEFINE k == i - Len(p)
    <3>1. k \in 2..Len(q) /\ k - 1 \in 1..Len(q) /\ k \in 1..Len(q)
      BY <1>1, <1>2, <2>3
    <3>2. i = Len(p) + k /\ i - 1 = Len(p) + (k - 1)
      BY <1>1
    <3> HIDE DEF k
    <3>3. r[i] = q[k] /\ r[i - 1] = q[k - 1]
      BY <1>2, <3>1, <3>2
    <3> QED BY <3>1, <3>3 DEF Leads
  <2> QED BY <1>1, <1>2, <2>1, <2>2, <2>3
<1>6. Leads(r, a, c)
  BY <1>2, <1>3, <1>4, <1>5 DEF Leads
<1> QED BY <1>6 DEF r

\* What a goal's corners are cut into leads from the first of them to the last, in steps of
\* at most max_joint_step; a single corner needs no waypoint.
LEMMA WaypointsLead ==
  ASSUME NEW corners \in Seq(Pose), corners # <<>>
  PROVE  /\ Waypoints(corners) \in Seq(Pose)
         /\ Len(corners) = 1 => Waypoints(corners) = <<>>
         /\ Len(corners) > 1 => Leads(Waypoints(corners), corners[1], corners[Len(corners)])
<1> DEFINE n == Len(corners) - 1
           ss == [k \in 1..n |-> Line(corners[k], corners[k + 1])]
<1>1. n \in Nat /\ Len(corners) = n + 1 /\ \A k \in 1..(n + 1) : corners[k] \in Pose
  OBVIOUS
<1>2. \A k \in 1..n : k \in 1..(n + 1) /\ k + 1 \in 1..(n + 1)
  BY <1>1
<1>3. Waypoints(corners) = FlattenSeq(ss)
  BY DEF Waypoints
<1> HIDE DEF n
<1>4. \A k \in 1..n : ss[k] = Line(corners[k], corners[k + 1]) /\ Leads(ss[k], corners[k], corners[k + 1])
  BY <1>1, <1>2, LineLeads
<1>5. ss \in Seq(Seq(Pose)) /\ Len(ss) = n
  <2>1. \A k \in 1..n : ss[k] \in Seq(Pose)
    BY <1>4 DEF Leads
  <2>2. ss = [k \in 1..n |-> ss[k]]
    OBVIOUS
  <2> HIDE DEF ss
  <2> QED BY <1>1, <2>1, <2>2
<1> HIDE DEF ss
<1>6. PICK f \in [0..n -> Seq(Pose)] :
        /\ f[0] = <<>> /\ \A i \in 1..n : f[i] = f[i - 1] \o ss[i]
        /\ FlattenSeq(ss) = f[n]
  BY <1>5, Flattened
<1> DEFINE E == {m \in 0..n : m = 0 \/ Leads(f[m], corners[1], corners[m + 1])}
<1>7. ASSUME NEW m \in 0..(n - 1), m \in E PROVE m + 1 \in E
  <2>1. m + 1 \in 1..n /\ m + 1 \in 0..n /\ (m + 1) - 1 = m
    BY <1>1
  <2>2. f[m + 1] = f[m] \o ss[m + 1] /\ Leads(ss[m + 1], corners[m + 1], corners[(m + 1) + 1])
    BY <1>4, <1>6, <2>1
  <2>3. CASE m = 0
    <3>1. m + 1 = 1 /\ (m + 1) + 1 = 2
      BY <2>3
    <3>2. f[1] = <<>> \o ss[1] /\ Leads(ss[1], corners[1], corners[2])
      BY <1>6, <2>2, <2>3, <3>1
    <3>3. f[1] = ss[1]
      BY <3>2 DEF Leads
    <3> QED BY <2>1, <3>1, <3>2, <3>3
  <2>4. CASE m # 0
    <3>1. Leads(f[m], corners[1], corners[m + 1])
      BY <1>7, <2>4
    <3>2. Leads(f[m + 1], corners[1], corners[(m + 1) + 1])
      BY <2>2, <3>1, LeadsOn
    <3> QED BY <2>1, <3>2
  <2> QED BY <2>3, <2>4
<1>8. n \in E
  <2>1. 0 \in E /\ E \in SUBSET (0..n)
    BY <1>1
  <2> HIDE DEF E
  <2> QED BY <1>1, <1>7, <2>1, CountingUp DEF Counts
<1>9. Waypoints(corners) = f[n] /\ f[n] \in Seq(Pose)
  BY <1>1, <1>3, <1>6
<1> QED BY <1>1, <1>6, <1>8, <1>9

-------------------------------------------------------------------------------
(* The follower (tick).                                                    *)

\* Where a reading says that the joints are, and where a goal says so.
Looked == Pose \cup [D!Joints -> Int]

\* Every follower there can be, for any path of any length.
Followers ==
  [path : Seq(Pose), sent : Nat, strikes : Nat, state : States, settlingFor : Nat,
   now : Looked, haveNow : BOOLEAN, previous : Looked, havePrevious : BOOLEAN,
   unjudged : BOOLEAN]

\* A follower that a goal is under way with: what is sent is not yet the whole path, and a
\* reading that was judged is the one that the next is compared with.
Ready(f) ==
  /\ f \in Followers /\ f.state \in {"SENDING", "SETTLING", "REACHED"}
  /\ f.sent <= Len(f.path) /\ f.strikes < Strikes
  /\ f.state = "REACHED" <=> f.path = <<>>
  /\ f.state = "SENDING" => f.sent < Len(f.path) /\ f.settlingFor = 0
  /\ f.settlingFor <= ArrivalTimeout + 1
  /\ f.unjudged => f.haveNow
  /\ f.haveNow /\ ~f.unjudged => f.havePrevious /\ f.previous = f.now

\* Between two turns: the last reading has been looked at.
Judged(f) == Ready(f) /\ ~f.unjudged

\* A position that is looked at has every joint of the path.
LEMMA LookedIs ==
  ASSUME NEW p \in Looked, NEW j \in Moved
  PROVE  p[j] \in Int
BY ArmAssumption DEF Looked, Pose

\* One reading judged: a strike counts up to the one that blocks, a good reading takes all of
\* them back, and the reading is what the next one is compared with.
LEMMA StrikeIs ==
  ASSUME NEW f \in Followers, NEW failing \in BOOLEAN, NEW g, g = Strike(f, failing)
  PROVE  /\ g \in Followers
         /\ g.path = f.path /\ g.sent = f.sent /\ g.settlingFor = f.settlingFor
         /\ g.now = f.now /\ g.haveNow = f.haveNow /\ g.unjudged = f.unjudged
         /\ failing /\ f.strikes + 1 >= Strikes => g.state = "BLOCKED"
         /\ ~(failing /\ f.strikes + 1 >= Strikes) =>
              /\ g.state = f.state /\ g.strikes = (IF failing THEN f.strikes + 1 ELSE 0)
              /\ g.previous = f.now /\ g.havePrevious = f.haveNow
<1> DEFINE counted == [f EXCEPT !.strikes = IF failing THEN f.strikes + 1 ELSE 0]
           blocked == [counted EXCEPT !.state = "BLOCKED"]
           kept == [counted EXCEPT !.previous = counted.now]
           passed == [kept EXCEPT !.havePrevious = kept.haveNow]
<1>1. /\ counted \in Followers
      /\ counted.strikes = (IF failing THEN f.strikes + 1 ELSE 0)
      /\ counted.path = f.path /\ counted.sent = f.sent /\ counted.settlingFor = f.settlingFor
      /\ counted.now = f.now /\ counted.haveNow = f.haveNow /\ counted.unjudged = f.unjudged
      /\ counted.state = f.state
  BY DEF Followers
<1>2. g = IF failing /\ f.strikes + 1 >= Strikes THEN blocked ELSE passed
  BY <1>1 DEF Strike, Followers
<1> HIDE DEF counted
<1>3. /\ blocked \in Followers /\ blocked.state = "BLOCKED"
      /\ blocked.path = counted.path /\ blocked.sent = counted.sent
      /\ blocked.settlingFor = counted.settlingFor /\ blocked.now = counted.now
      /\ blocked.haveNow = counted.haveNow /\ blocked.unjudged = counted.unjudged
  BY <1>1 DEF Followers, States
<1>4. /\ kept \in Followers /\ kept.previous = counted.now
      /\ kept.path = counted.path /\ kept.sent = counted.sent
      /\ kept.settlingFor = counted.settlingFor /\ kept.now = counted.now
      /\ kept.haveNow = counted.haveNow /\ kept.unjudged = counted.unjudged
      /\ kept.state = counted.state /\ kept.strikes = counted.strikes
  BY <1>1 DEF Followers
<1> HIDE DEF kept
<1>5. /\ passed \in Followers /\ passed.havePrevious = kept.haveNow
      /\ passed.path = kept.path /\ passed.sent = kept.sent
      /\ passed.settlingFor = kept.settlingFor /\ passed.now = kept.now
      /\ passed.haveNow = kept.haveNow /\ passed.unjudged = kept.unjudged
      /\ passed.state = kept.state /\ passed.strikes = kept.strikes
      /\ passed.previous = kept.previous
  BY <1>4 DEF Followers
<1> HIDE DEF blocked, passed
<1> QED BY <1>1, <1>2, <1>3, <1>4, <1>5

\* The strike that blocks.
LEMMA LastStrike ==
  ASSUME NEW f \in Followers, f.strikes + 1 >= Strikes, NEW g, g = Strike(f, TRUE)
  PROVE  g.state = "BLOCKED"
<1>1. TRUE \in BOOLEAN
  OBVIOUS
<1> QED BY <1>1, StrikeIs

\* Judging uses a reading up, and without a new one nothing is counted or taken back.
LEMMA JudgeIs ==
  ASSUME NEW f, Ready(f), NEW failing \in BOOLEAN, NEW g, g = Judge(f, failing)
  PROVE  /\ g \in Followers /\ ~g.unjudged
         /\ g.path = f.path /\ g.sent = f.sent /\ g.settlingFor = f.settlingFor
         /\ g.now = f.now /\ g.haveNow = f.haveNow
         /\ g.state \in {f.state, "BLOCKED"}
         /\ g.state # "BLOCKED" =>
              /\ g.strikes < Strikes
              /\ g.haveNow => g.havePrevious /\ g.previous = g.now
              /\ ~f.unjudged => g.strikes = f.strikes
              /\ f.unjudged => g.strikes = IF failing THEN f.strikes + 1 ELSE 0
<1>1. f \in Followers /\ f.strikes \in Nat /\ f.strikes < Strikes /\ Strikes \in Nat \ {0}
  BY FollowAssumption DEF Ready, Followers
<1>2. CASE ~f.unjudged
  BY <1>1, <1>2 DEF Ready, Judge
<1>3. CASE f.unjudged
  <2> DEFINE h == [f EXCEPT !.unjudged = FALSE]
  <2>1. /\ h \in Followers /\ ~h.unjudged
        /\ h.path = f.path /\ h.sent = f.sent /\ h.settlingFor = f.settlingFor
        /\ h.now = f.now /\ h.haveNow = f.haveNow /\ h.state = f.state /\ h.strikes = f.strikes
    BY <1>1 DEF Followers
  <2>2. g = Strike(h, failing)
    BY <1>3 DEF Judge
  <2> HIDE DEF h
  <2>3. CASE failing /\ h.strikes + 1 >= Strikes
    <3>1. /\ g \in Followers
          /\ g.path = h.path /\ g.sent = h.sent /\ g.settlingFor = h.settlingFor
          /\ g.now = h.now /\ g.haveNow = h.haveNow /\ g.unjudged = h.unjudged
          /\ g.state = "BLOCKED"
      <4>1. h \in Followers
        BY <2>1
      <4>2. /\ g \in Followers
            /\ g.path = h.path /\ g.sent = h.sent /\ g.settlingFor = h.settlingFor
            /\ g.now = h.now /\ g.haveNow = h.haveNow /\ g.unjudged = h.unjudged
        BY <2>2, <4>1, StrikeIs
      <4>3. g.state = "BLOCKED"
        <5>1. failing = TRUE /\ h.strikes + 1 >= Strikes
          BY <2>3
        <5>2. g = Strike(h, TRUE)
          BY <2>2, <5>1
        <5> QED BY <4>1, <5>1, <5>2, LastStrike
      <4> QED BY <4>2, <4>3
    <3> QED BY <1>3, <2>1, <3>1
  <2>4. CASE ~(failing /\ h.strikes + 1 >= Strikes)
    <3>1. /\ g \in Followers
          /\ g.path = h.path /\ g.sent = h.sent /\ g.settlingFor = h.settlingFor
          /\ g.now = h.now /\ g.haveNow = h.haveNow /\ g.unjudged = h.unjudged
          /\ g.state = h.state /\ g.strikes = (IF failing THEN h.strikes + 1 ELSE 0)
          /\ g.previous = h.now /\ g.havePrevious = h.haveNow
      <4>1. h \in Followers
        BY <2>1
      <4> QED BY <2>2, <2>4, <4>1, StrikeIs
    <3>2. g.strikes < Strikes
      BY <1>1, <2>1, <2>4, <3>1
    <3> QED BY <1>3, <2>1, <3>1, <3>2
  <2> QED BY <2>3, <2>4
<1> QED BY <1>2, <1>3

\* What is found out of a follower is true or not.
LEMMA LooksAre ==
  ASSUME NEW f, Ready(f)
  PROVE  Arrived(f) \in BOOLEAN /\ JointNotFollowing(f) \in BOOLEAN /\ JointNotClosingIn(f) \in BOOLEAN
BY DEF Ready, Followers, Arrived, JointNotFollowing, JointNotClosingIn

\* One turn of the follower: from which state it gets to which, and what it leaves alone.
LEMMA TickIs ==
  ASSUME NEW f, Ready(f), NEW g, g = Tick(f)
  PROVE  /\ g.path = f.path /\ g.settlingFor = f.settlingFor
         /\ g.now = f.now /\ g.haveNow = f.haveNow
         /\ g.state \in {"SENDING", "SETTLING"} => Judged(g)
         /\ g.state = "SENDING" => f.state = "SENDING"
         /\ g.state = "SETTLING" /\ f.state = "SENDING" => f.sent + 1 = Len(f.path)
         /\ g.state \in {"SETTLING", "STALLED"} /\ f.state # "SENDING" =>
              /\ f.state = "SETTLING" /\ ~Arrived(f)
              /\ g.settlingFor > ArrivalTimeout <=> g.state = "STALLED"
              /\ g.strikes \in Nat /\ g.strikes < Strikes
              /\ ~f.unjudged => g.strikes = f.strikes
              /\ f.unjudged => g.strikes = IF JointNotClosingIn(f) THEN f.strikes + 1 ELSE 0
         /\ g.state = "STALLED" => f.state # "SENDING"
         /\ g.state = "REACHED" => f.path = <<>> \/ (f.state = "SETTLING" /\ Arrived(f))
         /\ Sends(f) <=> f.state = "SENDING" /\ g.state # "BLOCKED"
<1>1. /\ f \in Followers /\ f.state \in {"SENDING", "SETTLING", "REACHED"}
      /\ f.path \in Seq(Pose) /\ Len(f.path) \in Nat /\ f.sent \in Nat /\ f.strikes \in Nat
      /\ f.settlingFor \in Nat /\ Strikes \in Nat \ {0} /\ ArrivalTimeout \in Nat
  <2>1. f.path \in Seq(Pose)
    BY DEF Ready, Followers
  <2> QED BY <2>1, FollowAssumption DEF Ready, Followers
<1>2. CASE f.state = "SENDING"
  <2> DEFINE h == Judge(f, JointNotFollowing(f))
  <2>1. /\ h \in Followers /\ ~h.unjudged
        /\ h.path = f.path /\ h.sent = f.sent /\ h.settlingFor = f.settlingFor
        /\ h.now = f.now /\ h.haveNow = f.haveNow
        /\ h.state \in {f.state, "BLOCKED"}
        /\ h.state # "BLOCKED" =>
             /\ h.strikes < Strikes
             /\ h.haveNow => h.havePrevious /\ h.previous = h.now
    BY JudgeIs, LooksAre
  <2>2. g = SendOne(h) /\ (Sends(f) <=> h.state # "BLOCKED")
    BY <1>2 DEF Tick, Sends
  <2> HIDE DEF h
  <2>3. CASE h.state = "BLOCKED"
    <3>1. g = h
      BY <2>2, <2>3 DEF SendOne
    <3> QED BY <1>2, <2>1, <2>2, <2>3, <3>1
  <2>4. CASE h.state # "BLOCKED"
    <3> DEFINE next == IF h.sent + 1 >= Len(h.path) THEN "SETTLING" ELSE h.state
               sent == [h EXCEPT !.sent = h.sent + 1]
               on == [sent EXCEPT !.state = IF sent.sent + 1 >= Len(sent.path) THEN "SETTLING" ELSE sent.state]
    <3>1. g = [h EXCEPT !.sent = @ + 1, !.state = next]
      BY <2>2, <2>4 DEF SendOne
    <3>2. h.sent \in Nat /\ h.sent < Len(h.path) /\ Len(h.path) \in Nat /\ next \in {"SENDING", "SETTLING"}
      BY <1>1, <1>2, <2>1, <2>4 DEF Ready
    <3>3. /\ sent \in Followers /\ sent.sent = h.sent + 1 /\ ~sent.unjudged
          /\ sent.path = h.path /\ sent.settlingFor = h.settlingFor /\ sent.now = h.now
          /\ sent.haveNow = h.haveNow /\ sent.strikes = h.strikes
          /\ sent.previous = h.previous /\ sent.havePrevious = h.havePrevious
      BY <2>1, <3>2 DEF Followers
    <3> HIDE DEF next
    <3>4. g = [sent EXCEPT !.state = next]
      BY <3>1 DEF sent
    <3> HIDE DEF sent
    <3>5. /\ g \in Followers /\ g.state = next /\ ~g.unjudged /\ g.sent = sent.sent
          /\ g.path = sent.path /\ g.settlingFor = sent.settlingFor /\ g.now = sent.now
          /\ g.haveNow = sent.haveNow /\ g.strikes = sent.strikes
          /\ g.previous = sent.previous /\ g.havePrevious = sent.havePrevious
      BY <3>2, <3>3, <3>4 DEF Followers, States
    <3>6. g.path # <<>> /\ g.settlingFor = 0
      BY <1>1, <1>2, <2>1, <3>3, <3>5 DEF Ready
    <3>7. /\ g.sent <= Len(g.path) /\ (g.state = "SENDING" => g.sent < Len(g.path))
          /\ g.state = "SETTLING" => f.sent + 1 = Len(f.path)
      BY <1>1, <2>1, <2>4, <3>2, <3>3, <3>5, <1>2 DEF next
    <3>8. Judged(g)
      BY <1>1, <2>1, <2>4, <3>2, <3>3, <3>5, <3>6, <3>7 DEF Judged, Ready
    <3> QED BY <1>2, <2>1, <2>2, <2>4, <3>2, <3>3, <3>5, <3>7, <3>8
  <2> QED BY <2>3, <2>4
<1>3. CASE f.state = "REACHED"
  <2>1. g = f /\ f.path = <<>> /\ ~Sends(f)
    BY <1>3 DEF Tick, Ready, Sends
  <2> QED BY <1>3, <2>1
<1>4. CASE f.state = "SETTLING" /\ Arrived(f)
  <2> DEFINE there == [f EXCEPT !.state = "REACHED"]
  <2>1. g = [there EXCEPT !.unjudged = FALSE]
    BY <1>4 DEF Tick
  <2>2. /\ there \in Followers /\ there.state = "REACHED" /\ there.path = f.path
        /\ there.settlingFor = f.settlingFor /\ there.now = f.now /\ there.haveNow = f.haveNow
    BY <1>1 DEF Followers, States
  <2> HIDE DEF there
  <2>3. /\ g.state = there.state /\ g.path = there.path
        /\ g.settlingFor = there.settlingFor /\ g.now = there.now /\ g.haveNow = there.haveNow
    BY <2>1, <2>2 DEF Followers
  <2> QED BY <1>4, <2>2, <2>3 DEF Sends
<1>5. CASE f.state = "SETTLING" /\ ~Arrived(f)
  <2> DEFINE h == Judge(f, JointNotClosingIn(f))
  <2>1. /\ h \in Followers /\ ~h.unjudged
        /\ h.path = f.path /\ h.sent = f.sent /\ h.settlingFor = f.settlingFor
        /\ h.now = f.now /\ h.haveNow = f.haveNow
        /\ h.state \in {f.state, "BLOCKED"}
        /\ h.state # "BLOCKED" =>
             /\ h.strikes < Strikes
             /\ h.haveNow => h.havePrevious /\ h.previous = h.now
             /\ ~f.unjudged => h.strikes = f.strikes
             /\ f.unjudged => h.strikes = IF JointNotClosingIn(f) THEN f.strikes + 1 ELSE 0
    BY JudgeIs, LooksAre
  <2>2. g = GiveUpInTime(h) /\ ~Sends(f)
    BY <1>5 DEF Tick, Sends
  <2> HIDE DEF h
  <2>3. CASE h.state = "BLOCKED"
    <3>1. g = h
      BY <2>2, <2>3 DEF GiveUpInTime
    <3> QED BY <1>5, <2>1, <2>2, <2>3, <3>1
  <2>4. CASE h.state # "BLOCKED" /\ h.settlingFor > ArrivalTimeout
    <3>1. g = [h EXCEPT !.state = "STALLED"]
      BY <2>2, <2>4 DEF GiveUpInTime
    <3>2. /\ g.state = "STALLED" /\ g.path = h.path /\ g.settlingFor = h.settlingFor
          /\ g.now = h.now /\ g.haveNow = h.haveNow /\ g.strikes = h.strikes /\ h.strikes \in Nat
      BY <2>1, <3>1 DEF Followers
    <3> QED BY <1>5, <2>1, <2>2, <2>4, <3>2
  <2>5. CASE h.state # "BLOCKED" /\ ~(h.settlingFor > ArrivalTimeout)
    <3>1. g = h /\ g.state = "SETTLING" /\ h.strikes \in Nat
      BY <1>5, <2>1, <2>2, <2>5 DEF GiveUpInTime, Followers
    <3>2. Judged(g)
      BY <1>1, <1>5, <2>1, <2>5, <3>1 DEF Judged, Ready
    <3> QED BY <1>5, <2>1, <2>2, <2>5, <3>1, <3>2
  <2> QED BY <2>3, <2>4, <2>5
<1> QED BY <1>1, <1>2, <1>3, <1>4, <1>5, LooksAre

-------------------------------------------------------------------------------
(* What is read of the arm, and measured.                                  *)

\* A message of joint_states: which joint was read longest ago, and where the joints are.
Message == [stamp : [age : 0..MaxAge, place : D!Joints], at : [D!Joints -> Int]]

\* The parameters are numbers, and a time in the past has room for every age that matters.
LEMMA ParametersAre ==
  /\ JointCount \in Nat \ {0} /\ 1 \in D!Joints /\ IsFiniteSet(D!Joints) /\ Moved \subseteq D!Joints
  /\ SlowestPoll \in Nat \ {0} /\ FeedbackTimeout \in Nat \ {0}
  /\ MaxAge \in Nat /\ MaxAge = FeedbackTimeout + 1 /\ D!Unread = MaxAge + 1
  /\ D!Nothing = <<>> /\ Strikes \in Nat \ {0} /\ ArrivalTimeout \in Nat
  /\ \A age : D!Later(age) = IF age >= MaxAge THEN age ELSE age + 1
<1>1. IsFiniteSet(D!Joints)
  BY FS_Interval, ArmAssumption DEF D!Joints
<1>2. 1 \in D!Joints
  BY ArmAssumption DEF D!Joints
<1> QED
  BY <1>1, <1>2, ArmAssumption, LoopAssumption, ExecutorAssumption, FollowAssumption
     DEF MaxAge, D!Unread, D!Nothing, D!Later

\* Nothing is taken for a waypoint or a reading that is none.
LEMMA NothingIs ==
  /\ <<>> \notin Pose /\ <<>> \notin Message /\ NoReading \notin Message
  /\ NoReading.stamp = NoStamp /\ NoReading # <<>>
<1>1. <<>> \notin Pose
  <2>1. DOMAIN <<>> = {}
    OBVIOUS
  <2>2. \A p \in Pose : DOMAIN p = Moved
    BY DEF Pose
  <2> QED BY <2>1, <2>2, FollowAssumption
<1>2. <<>> \notin Message /\ NoReading # <<>>
  <2>1. DOMAIN <<>> = {}
    OBVIOUS
  <2>2. \A m \in Message : "at" \in DOMAIN m
    BY DEF Message
  <2>3. "at" \in DOMAIN NoReading
    BY DEF NoReading
  <2> QED BY <2>1, <2>2, <2>3
<1>3. NoReading \notin Message
  <2>1. \A m \in Message : DOMAIN m.at = D!Joints
    BY DEF Message
  <2>2. NoReading.at = <<>>
    BY DEF NoReading
  <2>3. DOMAIN <<>> = {}
    OBVIOUS
  <2> QED BY <2>1, <2>2, <2>3, ParametersAre
<1> QED BY <1>1, <1>2, <1>3 DEF NoReading

\* What a message of joint_states is made of.
LEMMA MessageIs ==
  ASSUME NEW m \in Message
  PROVE  /\ m.stamp \in [age : 0..MaxAge, place : D!Joints] /\ m.at \in [D!Joints -> Int]
         /\ m.stamp.age \in 0..MaxAge /\ m.stamp.place \in D!Joints /\ m.at \in Looked
         /\ m # <<>> /\ m # NoReading
BY NothingIs DEF Message, Looked

\* The stamp of a message is the greatest age in it, and the first joint of that age.
LEMMA OldestIs ==
  ASSUME NEW ages \in [D!Joints -> Nat]
  PROVE  \E k \in D!Joints :
           /\ D!OldestReading(ages) = [age |-> ages[k], place |-> k]
           /\ \A l \in D!Joints : ages[l] <= ages[k] /\ (ages[k] = ages[l] => k <= l)
<1> DEFINE Oldest(k) == \A l \in D!Joints : ages[k] > ages[l] \/ (ages[k] = ages[l] /\ k <= l)
           Top(k) == \A l \in D!Joints : ages[l] <= ages[k]
<1>1. PICK m \in D!Joints : Top(m)
  <2>1. ages \in [D!Joints -> Int] /\ D!Joints # {}
    BY ParametersAre
  <2> QED BY <2>1, ParametersAre, Greatest
<1> DEFINE Tops == {k \in D!Joints : ages[k] = ages[m]}
           back == [k \in Tops |-> -k]
<1>2. PICK k \in Tops : \A l \in Tops : k <= l
  <2>1. Tops \in SUBSET D!Joints /\ m \in Tops
    OBVIOUS
  <2>2. IsFiniteSet(Tops) /\ Tops # {}
    BY <2>1, ParametersAre, FS_Subset
  <2>3. back \in [Tops -> Int] /\ \A l \in Tops : back[l] = -l /\ l \in Int
    BY <2>1 DEF D!Joints
  <2> HIDE DEF back, Tops
  <2>4. PICK k \in Tops : \A l \in Tops : back[l] <= back[k]
    BY <2>2, <2>3, Greatest
  <2> QED BY <2>3, <2>4
<1>3. k \in D!Joints /\ Oldest(k)
  <2>1. ASSUME NEW l \in D!Joints PROVE ages[k] > ages[l] \/ (ages[k] = ages[l] /\ k <= l)
    <3>1. ages[k] = ages[m] /\ ages[l] <= ages[m] /\ ages[l] \in Nat /\ ages[m] \in Nat
      BY <1>1
    <3>2. ages[l] = ages[m] => k <= l
      BY <1>2
    <3> QED BY <3>1, <3>2
  <2> QED BY <2>1
<1> DEFINE j == CHOOSE i \in D!Joints : Oldest(i)
<1>4. D!OldestReading(ages) = [age |-> ages[j], place |-> j]
  BY DEF D!OldestReading
<1>5. j \in D!Joints /\ Oldest(j)
  <2> HIDE DEF Oldest
  <2> QED BY <1>3
<1> HIDE DEF j
<1>6. \A l \in D!Joints : ages[l] <= ages[j] /\ (ages[j] = ages[l] => j <= l)
  BY <1>5 DEF D!Joints
<1> QED BY <1>4, <1>5, <1>6

\* What the loop measures before it turns: nothing when the last reading is too old, that
\* reading when its stamp is new, and what was measured before otherwise.
LEMMA MeasuredIs ==
  ASSUME Judged(follower), latest \in Message
  PROVE  /\ Ready(Measured)
         /\ Measured.path = follower.path /\ Measured.sent = follower.sent
         /\ Measured.state = follower.state /\ Measured.settlingFor = follower.settlingFor
         /\ ~Fresh => ~Measured.haveNow /\ ~Measured.unjudged
         /\ Fresh /\ latest.stamp # stamp =>
              /\ Measured.haveNow /\ Measured.now = latest.at /\ Measured.unjudged
              /\ Measured.strikes = follower.strikes
              /\ Measured.previous = follower.previous
              /\ Measured.havePrevious = follower.havePrevious
         /\ Fresh /\ latest.stamp = stamp => Measured = follower
<1> DEFINE f == follower
<1>1. f \in Followers /\ latest.at \in Looked /\ Strikes \in Nat \ {0}
  BY MessageIs, ParametersAre DEF Judged, Ready
<1> HIDE DEF f
<1>2. CASE ~Fresh
  <2> DEFINE a == [f EXCEPT !.haveNow = FALSE]
             b == [a EXCEPT !.havePrevious = FALSE]
             c == [b EXCEPT !.unjudged = FALSE]
             d == [c EXCEPT !.strikes = 0]
  <2>1. Measured = d
    BY <1>2 DEF Measured, LoseMeasurement, f
  <2>2. /\ a \in Followers /\ ~a.haveNow /\ a.path = f.path /\ a.sent = f.sent /\ a.state = f.state
        /\ a.settlingFor = f.settlingFor
    BY <1>1 DEF Followers
  <2> HIDE DEF a
  <2>3. /\ b \in Followers /\ ~b.haveNow /\ b.path = a.path /\ b.sent = a.sent /\ b.state = a.state
        /\ b.settlingFor = a.settlingFor
    BY <2>2 DEF Followers
  <2> HIDE DEF b
  <2>4. /\ c \in Followers /\ ~c.haveNow /\ c.path = b.path /\ c.sent = b.sent /\ c.state = b.state
        /\ c.settlingFor = b.settlingFor /\ ~c.unjudged
    BY <2>3 DEF Followers
  <2> HIDE DEF c
  <2>5. /\ d \in Followers /\ ~d.haveNow /\ d.path = c.path /\ d.sent = c.sent /\ d.state = c.state
        /\ d.settlingFor = c.settlingFor /\ ~d.unjudged /\ d.strikes = 0
    BY <2>4 DEF Followers
  <2> HIDE DEF d
  <2>6. Ready(d)
    BY <1>1, <2>2, <2>3, <2>4, <2>5 DEF Judged, Ready, f
  <2> QED BY <1>2, <2>1, <2>2, <2>3, <2>4, <2>5, <2>6 DEF f
<1>3. CASE Fresh /\ latest.stamp # stamp
  <2> DEFINE a == [f EXCEPT !.now = latest.at]
             b == [a EXCEPT !.haveNow = TRUE]
             c == [b EXCEPT !.unjudged = TRUE]
  <2>1. Measured = c
    BY <1>3 DEF Measured, Measure, f
  <2>2. /\ a \in Followers /\ a.now = latest.at /\ a.path = f.path /\ a.sent = f.sent
        /\ a.state = f.state /\ a.settlingFor = f.settlingFor /\ a.strikes = f.strikes
        /\ a.previous = f.previous /\ a.havePrevious = f.havePrevious
    BY <1>1 DEF Followers
  <2> HIDE DEF a
  <2>3. /\ b \in Followers /\ b.haveNow /\ b.now = a.now /\ b.path = a.path /\ b.sent = a.sent
        /\ b.state = a.state /\ b.settlingFor = a.settlingFor /\ b.strikes = a.strikes
        /\ b.previous = a.previous /\ b.havePrevious = a.havePrevious
    BY <2>2 DEF Followers
  <2> HIDE DEF b
  <2>4. /\ c \in Followers /\ c.haveNow /\ c.now = b.now /\ c.path = b.path /\ c.sent = b.sent
        /\ c.state = b.state /\ c.settlingFor = b.settlingFor /\ c.strikes = b.strikes
        /\ c.previous = b.previous /\ c.havePrevious = b.havePrevious /\ c.unjudged
    BY <2>3 DEF Followers
  <2> HIDE DEF c
  <2>5. Ready(c)
    BY <1>1, <2>2, <2>3, <2>4 DEF Judged, Ready, f
  <2> QED BY <1>3, <2>1, <2>2, <2>3, <2>4, <2>5 DEF f
<1>4. CASE Fresh /\ latest.stamp = stamp
  BY <1>4 DEF Measured, Judged
<1> QED BY <1>2, <1>3, <1>4

\* A sequence that is not empty has a length.
LEMMA HasLength ==
  ASSUME NEW S, NEW q \in Seq(S), q # <<>>
  PROVE  Len(q) \in Nat \ {0}
OBVIOUS

\* A follower is made of waypoints that lead from the goal's first corner to its last.
LEMMA LoadIs ==
  ASSUME NEW corners \in Paths, corners # <<>>, NEW g, g = Load(corners)
  PROVE  /\ Judged(g) /\ ~g.haveNow /\ g.settlingFor = 0 /\ g.strikes = 0 /\ g.state # "SETTLING"
         /\ corners[Len(corners)] \in Pose
         /\ g.path # <<>> => Leads(g.path, corners[1], corners[Len(corners)])
<1> DEFINE path == Waypoints(corners)
<1>1. corners \in Seq(Pose) /\ Len(corners) \in Nat \ {0}
  <2>1. corners \in Seq(Pose)
    BY ExecutorAssumption
  <2> QED BY <2>1, HasLength
<1>2. corners[1] \in Pose /\ corners[Len(corners)] \in Pose /\ corners[1] \in Looked
  BY <1>1 DEF Looked
<1>3. /\ path \in Seq(Pose) /\ Len(path) \in Nat /\ (path # <<>> => Len(path) > 0)
      /\ path # <<>> => Leads(path, corners[1], corners[Len(corners)])
  <2>1. Len(corners) = 1 \/ Len(corners) > 1
    <3> DEFINE n == Len(corners)
    <3>1. n \in Nat \ {0}
      BY <1>1
    <3> HIDE DEF n
    <3>2. n = 1 \/ n > 1
      BY <3>1
    <3> QED BY <3>2 DEF n
  <2>2. path \in Seq(Pose) /\ (path # <<>> => Leads(path, corners[1], corners[Len(corners)]))
    BY <1>1, <2>1, WaypointsLead
  <2> HIDE DEF path
  <2> QED BY <2>2
<1>4. g = [path |-> path, sent |-> 0, strikes |-> 0,
           state |-> IF path = <<>> THEN "REACHED" ELSE "SENDING",
           settlingFor |-> 0,
           now |-> corners[1], haveNow |-> FALSE,
           previous |-> corners[1], havePrevious |-> FALSE, unjudged |-> FALSE]
  BY DEF Load
<1> HIDE DEF path
<1>5. g \in Followers
  BY <1>2, <1>3, <1>4 DEF Followers, States
<1>6. Judged(g)
  BY <1>3, <1>4, <1>5, ParametersAre DEF Judged, Ready
<1> QED BY <1>2, <1>3, <1>4, <1>6

-------------------------------------------------------------------------------
(* The types, and what each step does.                                     *)

\* What the executor keeps.
ExecutorTypes ==
  /\ run \in {"idle", "following", "releasing"} /\ preempt \in BOOLEAN
  /\ outcome \in Outcomes /\ verdict \in Outcomes
  /\ latest \in Message \cup {NoReading} /\ stamp \in [age : 0..MaxAge, place : Nat]
  /\ target \in Pose \cup {<<>>}

\* What the driver keeps, and what it has published; nothing here starts a homing.
ArmTypes == D!TypeOK /\ homing = FALSE /\ reading \in Message \cup {<<>>}

\* The clock of the model, and what it counts.
StepTypes ==
  /\ sincePoll \in 0..SlowestPoll /\ turned \in BOOLEAN /\ lagging \in BOOLEAN
  /\ lagging => target # <<>>
  /\ held \subseteq Moved /\ misses \in Nat /\ goals \in Nat /\ goal \in Looked

\* A goal waits for standby exactly as long as the call is out.
Phases == run = "releasing" <=> standby # "idle"

\* The waypoints of the goal that runs lead to where it leads, in small steps, and one that
\* settles has not given up.
OnTheWay ==
  run = "following" =>
    /\ Judged(follower) /\ latest \in Message
    /\ follower.path # <<>> =>
         /\ follower.path[Len(follower.path)] = goal
         /\ \A i \in 2..Len(follower.path) : OneStep(follower.path[i - 1], follower.path[i])
    /\ follower.state = "SETTLING" /\ turned => follower.settlingFor <= ArrivalTimeout

\* The inductive invariant that everything else rests on.
Types == ExecutorTypes /\ ArmTypes /\ StepTypes /\ Phases /\ OnTheWay

\* A poll: what was read of a joint that answered is where it is now.
LEMMA PollIs ==
  ASSUME Types, Poll
  PROVE  /\ \E answered \in SUBSET D!Joints :
              /\ misses' \in {misses, misses + 1} /\ (misses' = misses => answered = D!Joints)
              /\ position' = [j \in D!Joints |-> IF j \in answered THEN arm[j] ELSE position[j]]
              /\ readAt' = [j \in D!Joints |-> IF j \in answered THEN 0 ELSE readAt[j]]
              /\ answered = D!Joints =>
                   reading' = [stamp |-> [age |-> 0, place |-> 1], at |-> position']
         /\ \/ reading' = reading
            \/ /\ reading' \in Message /\ reading'.at = position'
               /\ \A l \in D!Joints : readAt'[l] <= reading'.stamp.age
         /\ sincePoll > 0 /\ sincePoll' = 0
         /\ UNCHANGED <<run, follower, latest, stamp, preempt, verdict, outcome, target, standby>>
         /\ UNCHANGED <<homing, aim, arm, order, turned, lagging, held, goals, goal>>
<1>1. PICK answered \in {D!Joints} \cup {D!Joints \ {j} : j \in D!Joints} :
        /\ misses' = IF answered = D!Joints THEN misses ELSE misses + 1
        /\ D!Poll(answered, D!Joints)
  BY DEF Poll
<1>2. answered \in SUBSET D!Joints
  OBVIOUS
<1> DEFINE at == [j \in D!Joints |-> IF j \in answered THEN arm[j] ELSE position[j]]
           ages == [j \in D!Joints |-> IF j \in answered THEN 0 ELSE readAt[j]]
<1>3. misses' \in {misses, misses + 1} /\ (misses' = misses => answered = D!Joints)
  BY <1>1 DEF Types, StepTypes
<1>4. position' = at /\ readAt' = ages
  BY <1>1 DEF D!Poll
<1>5. homing' = homing /\ aim' = aim
  BY <1>1 DEF D!Poll, D!StepHome, Types, ArmTypes
<1>6. reading' = IF \A j \in D!Joints : ages[j] # D!Unread
                 THEN [stamp |-> D!OldestReading(ages), at |-> at] ELSE reading
  BY <1>1 DEF D!Poll, D!Publish
<1>7. at \in [D!Joints -> Int] /\ ages \in [D!Joints -> Nat] /\ \A j \in D!Joints : ages[j] \in 0..D!Unread
  <2>1. arm \in [D!Joints -> Lower..Upper] /\ position \in [D!Joints -> Int] /\ readAt \in [D!Joints -> 0..D!Unread]
    BY DEF Types, ArmTypes, D!TypeOK
  <2>2. D!Unread \in Nat /\ Lower \in Int /\ Upper \in Int
    BY ParametersAre, ArmAssumption
  <2> QED BY <2>1, <2>2
<1>8. answered = D!Joints => ages = [j \in D!Joints |-> 0]
  OBVIOUS
<1> HIDE DEF at, ages
<1>9. PICK k \in D!Joints :
        /\ D!OldestReading(ages) = [age |-> ages[k], place |-> k]
        /\ \A l \in D!Joints : ages[l] <= ages[k] /\ (ages[k] = ages[l] => k <= l)
  BY <1>7, OldestIs
<1>10. CASE \A j \in D!Joints : ages[j] # D!Unread
  <2>1. reading' = [stamp |-> [age |-> ages[k], place |-> k], at |-> at]
    BY <1>6, <1>9, <1>10
  <2>2. ages[k] \in 0..MaxAge
    BY <1>7, <1>10, ParametersAre
  <2>3. reading' \in Message /\ reading'.at = at /\ reading'.stamp.age = ages[k]
    BY <1>7, <2>1, <2>2 DEF Message
  <2>4. answered = D!Joints => ages[k] = 0 /\ k = 1
    <3>1. k \in Int /\ k >= 1
      BY ParametersAre, ArmAssumption DEF D!Joints
    <3> QED BY <1>8, <1>9, <3>1, ParametersAre
  <2> QED BY <1>1, <1>2, <1>3, <1>4, <1>5, <1>9, <2>1, <2>3, <2>4 DEF Poll, D!Poll, executorVars, at, ages
<1>11. CASE ~\A j \in D!Joints : ages[j] # D!Unread
  <2>1. answered # D!Joints
    BY <1>8, <1>11, ParametersAre
  <2>2. reading' = reading
    BY <1>6, <1>11
  <2> QED BY <1>1, <1>2, <1>3, <1>4, <1>5, <2>1, <2>2 DEF Poll, D!Poll, executorVars, at, ages
<1> QED BY <1>10, <1>11

\* A waypoint reaches the driver: legal, it is what every joint of it is told.
LEMMA OnJointTargetsIs ==
  ASSUME Types, OnJointTargets
  PROVE  /\ target \in Pose /\ target' = <<>> /\ lagging' = FALSE
         /\ \/ /\ \A j \in Moved : target[j] \in Lower..Upper
               /\ aim' = [j \in D!Joints |-> IF j \in Moved THEN target[j] ELSE aim[j]]
               /\ homing' = FALSE /\ order' = "move"
            \/ /\ ~(\A j \in Moved : target[j] \in Lower..Upper)
               /\ UNCHANGED <<aim, homing, order>>
         /\ UNCHANGED <<run, follower, latest, stamp, preempt, verdict, outcome, reading, standby>>
         /\ UNCHANGED <<position, readAt, arm, sincePoll, turned, held, misses, goals, goal>>
<1>1. target \in Pose /\ target' = <<>> /\ DOMAIN target = Moved
  <2>1. target # <<>> /\ target' = <<>>
    BY ParametersAre DEF OnJointTargets, D!OnJointTargets
  <2> QED BY <2>1 DEF Types, ExecutorTypes, Pose
<1>2. D!Legal(target) <=> \A j \in Moved : target[j] \in Lower..Upper
  BY <1>1, ArmAssumption DEF D!Legal
<1>3. CASE D!Legal(target)
  <2>1. /\ aim' = [j \in D!Joints |-> IF j \in Moved THEN target[j] ELSE aim[j]]
        /\ homing' = FALSE /\ order' = "move"
    <3>1. D!Tell(target, D!Joints) /\ homing' = FALSE /\ order' = "move"
      BY <1>3 DEF OnJointTargets, D!OnJointTargets
    <3>2. \A j \in D!Joints : j \in DOMAIN target /\ j \in D!Joints <=> j \in Moved
      BY <1>1
    <3> QED BY <3>1, <3>2 DEF D!Tell
  <2> QED
    BY <1>1, <1>2, <1>3, <2>1 DEF OnJointTargets, D!OnJointTargets, executorVars, factVars
<1>4. CASE ~D!Legal(target)
  BY <1>1, <1>2, <1>4 DEF OnJointTargets, D!OnJointTargets, executorVars, factVars
<1> QED BY <1>3, <1>4

\* Standby is served: every joint is told to let go.
LEMMA OnStandbyIs ==
  ASSUME Types, OnStandby
  PROVE  /\ standby = "called" /\ standby' = "answered"
         /\ aim' = [j \in D!Joints |-> Released] /\ homing' = FALSE /\ order' = "none"
         /\ UNCHANGED <<run, follower, latest, stamp, preempt, verdict, outcome, target, reading>>
         /\ UNCHANGED <<position, readAt, arm, sincePoll, turned, lagging, held, misses, goals, goal>>
<1>1. aim' = [j \in D!Joints |-> Released]
  <2>1. D!Tell([j \in D!Joints |-> Released], D!Joints)
    BY DEF OnStandby, D!OnStandby
  <2> QED BY <2>1 DEF D!Tell
<1> QED BY <1>1 DEF OnStandby, D!OnStandby, executorVars, paceVars, factVars

\* How far a joint goes in a step: towards what it was told, and no further.
LEMMA MovesIs ==
  ASSUME Types, NEW j \in D!Joints
  PROVE  /\ D!Moves(j) \in Lower..Upper /\ Distance(D!Moves(j), arm[j]) <= Speed
         /\ aim[j] = arm[j] => D!Moves(j) = arm[j]
         /\ aim[j] # Released =>
              D!Moves(j) = aim[j] \/ Distance(D!Moves(j), aim[j]) + Speed = Distance(arm[j], aim[j])
<1>1. arm[j] \in Lower..Upper /\ (aim[j] # Released => aim[j] \in Lower..Upper)
  BY DEF Types, ArmTypes, D!TypeOK
<1>2. Lower \in Int /\ Upper \in Int /\ Speed \in Nat \ {0} /\ Released \notin Int
  BY ArmAssumption
<1>3. arm[j] \in Int
  BY <1>1, <1>2
<1>4. CASE aim[j] = Released
  BY <1>1, <1>2, <1>3, <1>4 DEF D!Moves, Distance
<1>5. CASE aim[j] # Released
  BY <1>1, <1>2, <1>3, <1>5 DEF D!Moves, Distance
<1> QED BY <1>4, <1>5

\* A step of the clock: what is free moves, and everything is a step older.
LEMMA ElapseIs ==
  ASSUME Types, Elapse
  PROVE  /\ run = "following" => turned
         /\ sincePoll < SlowestPoll /\ sincePoll' = sincePoll + 1
         /\ reading = <<>> /\ reading' = <<>> /\ ~lagging /\ lagging' = (target # <<>>) /\ turned' = FALSE
         /\ arm' \in [D!Joints -> Lower..Upper]
         /\ \A j \in D!Joints : Distance(arm'[j], arm[j]) <= Speed
         /\ \A j \in held : arm'[j] = arm[j]
         /\ \A j \in D!Joints \ held : arm'[j] = D!Moves(j)
         /\ readAt' \in [D!Joints -> 0..D!Unread]
         /\ \A j \in D!Joints : readAt'[j] = IF readAt[j] >= MaxAge THEN readAt[j] ELSE readAt[j] + 1
         /\ latest = NoReading => latest' = NoReading
         /\ latest \in Message =>
              latest' \in Message /\ latest'.at = latest.at /\ latest'.stamp = Older(latest.stamp)
         /\ stamp' = Older(stamp)
         /\ run = "following" =>
              /\ Judged(follower')
              /\ follower.state # "SETTLING" => follower' = follower
              /\ follower.state = "SETTLING" => follower'.settlingFor = follower.settlingFor + 1
              /\ follower'.path = follower.path /\ follower'.state = follower.state
              /\ follower'.strikes = follower.strikes
              /\ follower'.now = follower.now /\ follower'.haveNow = follower.haveNow
         /\ UNCHANGED <<run, preempt, verdict, outcome, target, standby>>
         /\ UNCHANGED <<position, homing, aim, order, held, misses, goals, goal>>
<1>1. /\ D!Time(D!Joints \ held) /\ Age /\ reading = <<>> /\ ~lagging
      /\ turned' = FALSE /\ lagging' = (target # <<>>)
      /\ sincePoll < SlowestPoll /\ sincePoll' = sincePoll + 1 /\ (run = "following" => turned)
  BY ParametersAre DEF Elapse
<1>2. reading' = <<>>
  BY <1>1, ParametersAre DEF D!Time
<1>3. /\ arm' = [j \in D!Joints |-> IF j \in D!Joints \ held THEN D!Moves(j) ELSE arm[j]]
      /\ readAt' = [j \in D!Joints |-> D!Later(readAt[j])]
  BY <1>1 DEF D!Time
<1>4. arm \in [D!Joints -> Lower..Upper] /\ readAt \in [D!Joints -> 0..D!Unread] /\ held \subseteq D!Joints
  BY ArmAssumption DEF Types, ArmTypes, D!TypeOK, StepTypes
<1>5. /\ arm' \in [D!Joints -> Lower..Upper]
      /\ \A j \in D!Joints : Distance(arm'[j], arm[j]) <= Speed
      /\ \A j \in held : arm'[j] = arm[j]
      /\ \A j \in D!Joints \ held : arm'[j] = D!Moves(j)
  <2>1. \A j \in D!Joints : arm'[j] = IF j \notin held THEN D!Moves(j) ELSE arm[j]
    BY <1>3
  <2>2. \A j \in D!Joints : arm'[j] \in Lower..Upper
    BY <1>4, <2>1, MovesIs
  <2>3. ASSUME NEW j \in D!Joints PROVE Distance(arm'[j], arm[j]) <= Speed
    <3>1. arm[j] \in Int /\ Distance(arm[j], arm[j]) <= Speed
      BY <1>4, ArmAssumption DEF Distance
    <3> QED BY <2>1, <3>1, MovesIs
  <2> QED BY <1>3, <1>4, <2>1, <2>2, <2>3
<1>6. /\ readAt' \in [D!Joints -> 0..D!Unread]
      /\ \A j \in D!Joints : readAt'[j] = IF readAt[j] >= MaxAge THEN readAt[j] ELSE readAt[j] + 1
  <2>1. \A j \in D!Joints : readAt'[j] = IF readAt[j] >= MaxAge THEN readAt[j] ELSE readAt[j] + 1
    BY <1>3, ParametersAre
  <2>2. \A j \in D!Joints : readAt[j] \in 0..D!Unread
    BY <1>4
  <2>3. \A j \in D!Joints : readAt'[j] \in 0..D!Unread
    BY <2>1, <2>2, ParametersAre
  <2> QED BY <1>3, <2>1, <2>3
<1>7. /\ latest = NoReading => latest' = NoReading
      /\ latest \in Message =>
           latest' \in Message /\ latest'.at = latest.at /\ latest'.stamp = Older(latest.stamp)
      /\ stamp' = Older(stamp)
  <2>1. latest = NoReading => latest' = NoReading
    BY <1>1 DEF Age
  <2>2. stamp' = Older(stamp)
    BY <1>1 DEF Age
  <2>3. ASSUME latest \in Message
        PROVE  latest' \in Message /\ latest'.at = latest.at /\ latest'.stamp = Older(latest.stamp)
    <3>1. latest' = [latest EXCEPT !.stamp = Older(latest.stamp)]
      BY <1>1, <2>3, MessageIs DEF Age
    <3>2. Older(latest.stamp) \in [age : 0..MaxAge, place : D!Joints]
      BY <2>3, MessageIs, ParametersAre DEF Older, Grow
    <3> HIDE DEF Older
    <3> QED BY <2>3, <3>1, <3>2 DEF Message
  <2> QED BY <2>1, <2>2, <2>3
<1>8. run = "following" =>
        /\ Judged(follower')
        /\ follower.state # "SETTLING" => follower' = follower
        /\ follower.state = "SETTLING" => follower'.settlingFor = follower.settlingFor + 1
        /\ follower'.path = follower.path /\ follower'.state = follower.state
        /\ follower'.strikes = follower.strikes
        /\ follower'.now = follower.now /\ follower'.haveNow = follower.haveNow
  <2> SUFFICES ASSUME run = "following"
               PROVE  /\ Judged(follower')
                      /\ follower.state # "SETTLING" => follower' = follower
                      /\ follower.state = "SETTLING" => follower'.settlingFor = follower.settlingFor + 1
                      /\ follower'.path = follower.path /\ follower'.state = follower.state
                      /\ follower'.strikes = follower.strikes
                      /\ follower'.now = follower.now /\ follower'.haveNow = follower.haveNow
    OBVIOUS
  <2>1. /\ Judged(follower) /\ follower \in Followers /\ follower.settlingFor \in Nat
        /\ follower.state = "SETTLING" => follower.settlingFor <= ArrivalTimeout
    BY <1>1 DEF Types, OnTheWay, Judged, Ready, Followers
  <2>2. CASE follower.state # "SETTLING"
    BY <1>1, <2>1, <2>2 DEF Age
  <2>3. CASE follower.state = "SETTLING"
    <3>1. follower' = [follower EXCEPT !.settlingFor = follower.settlingFor + 1]
      BY <1>1, <2>1, <2>3, ParametersAre DEF Age
    <3>2. /\ follower' \in Followers /\ follower'.settlingFor = follower.settlingFor + 1
          /\ follower'.path = follower.path /\ follower'.state = follower.state
          /\ follower'.strikes = follower.strikes /\ follower'.sent = follower.sent
          /\ follower'.now = follower.now /\ follower'.haveNow = follower.haveNow
          /\ follower'.previous = follower.previous /\ follower'.havePrevious = follower.havePrevious
          /\ follower'.unjudged = follower.unjudged
      BY <2>1, <3>1 DEF Followers
    <3>3. Judged(follower')
      BY <2>1, <2>3, <3>2, ParametersAre DEF Judged, Ready
    <3> QED BY <2>3, <3>2, <3>3
  <2> QED BY <2>2, <2>3
<1> QED
  BY <1>1, <1>2, <1>5, <1>6, <1>7, <1>8 DEF Elapse, D!Time, factVars

\* A reading reaches the executor.
LEMMA ReadingArrivesIs ==
  ASSUME Types, ReadingArrives
  PROVE  /\ reading \in Message /\ latest' = reading /\ reading' = <<>>
         /\ UNCHANGED <<run, follower, stamp, preempt, verdict, outcome, target, standby>>
         /\ UNCHANGED <<position, readAt, homing, aim, arm, order, sincePoll, turned, lagging>>
         /\ UNCHANGED <<held, misses, goals, goal>>
BY ParametersAre
   DEF Types, ArmTypes, ReadingArrives, OnJointStates, driverSide, paceVars, factVars

\* A goal is accepted, with a follower made for it, or refused.
LEMMA GoalArrivesIs ==
  ASSUME Types, GoalArrives
  PROVE  /\ run = "idle" /\ preempt' = FALSE /\ verdict' = "none" /\ goals' = goals + 1
         /\ \/ /\ run' = "following" /\ outcome' = "none" /\ Fresh /\ latest \in Message
               /\ stamp' = latest.stamp
               /\ Judged(follower') /\ ~follower'.haveNow /\ follower'.settlingFor = 0
               /\ follower'.strikes = 0 /\ follower'.state # "SETTLING"
               /\ goal' \in Pose /\ \E path \in Paths : path # <<>> /\ goal' = path[Len(path)]
               /\ follower'.path # <<>> => \E from : Leads(follower'.path, from, goal')
            \/ run' = "idle" /\ outcome' = "refused" /\ UNCHANGED <<follower, stamp, goal>>
         /\ UNCHANGED <<latest, target, standby, reading>>
         /\ UNCHANGED <<position, readAt, homing, aim, arm, order, sincePoll, turned, lagging>>
         /\ UNCHANGED <<held, misses>>
<1>1. PICK path \in Paths :
        OnExecute(path) /\ goal' = IF run' = "following" THEN path[Len(path)] ELSE goal
  BY DEF GoalArrives
<1>2. CASE path # <<>> /\ Fresh /\ AtStart(path)
  <2>1. latest \in Message
    BY <1>2 DEF Fresh, Types, ExecutorTypes
  <2>2. /\ run' = "following" /\ outcome' = "none" /\ stamp' = latest.stamp
        /\ follower' = Load(path) /\ goal' = path[Len(path)]
    BY <1>1, <1>2 DEF OnExecute
  <2>3. /\ Judged(follower') /\ ~follower'.haveNow /\ follower'.settlingFor = 0
        /\ follower'.strikes = 0 /\ follower'.state # "SETTLING"
        /\ goal' \in Pose /\ (follower'.path # <<>> => Leads(follower'.path, path[1], goal'))
    BY <1>2, <2>2, LoadIs
  <2> QED
    BY <1>1, <1>2, <2>1, <2>2, <2>3 DEF GoalArrives, OnExecute, driverSide, paceVars
<1>3. CASE ~(path # <<>> /\ Fresh /\ AtStart(path))
  BY <1>1, <1>3 DEF GoalArrives, OnExecute, driverSide, paceVars
<1> QED BY <1>2, <1>3

\* One turn of the executor's loop.
LEMMA TurnIs ==
  ASSUME Types, Turn
  PROVE  /\ Follow \/ StopOnRequest
         /\ run = "following" /\ ~turned /\ turned'
         /\ UNCHANGED <<latest, preempt, reading, position, readAt, homing, aim, arm, order>>
         /\ UNCHANGED <<sincePoll, lagging, held, misses, goals, goal>>
BY DEF Turn, Follow, StopOnRequest, driverSide, factVars

\* The goal is stopped on request.
LEMMA StopOnRequestIs ==
  ASSUME StopOnRequest
  PROVE  /\ run = "following" /\ run' = "releasing" /\ verdict' = "stopped" /\ standby' = "called"
         /\ UNCHANGED <<stamp, outcome, target>>
BY DEF StopOnRequest, Release

\* The follower looks, sends and judges: it goes on, or the goal ends or is to end.
LEMMA FollowIs ==
  ASSUME Types, Follow, NEW g, g = Tick(Measured)
  PROVE  /\ Judged(follower) /\ latest \in Message /\ Ready(Measured)
         /\ stamp' = IF Fresh THEN latest.stamp ELSE NoStamp
         /\ \/ /\ follower.state = "SENDING" /\ g.state # "BLOCKED"
               /\ target' = follower.path[follower.sent + 1] /\ target' \in Pose
            \/ ~(follower.state = "SENDING" /\ g.state # "BLOCKED") /\ target' = target
         /\ \/ /\ g.state \in {"SENDING", "SETTLING"} /\ run' = "following" /\ follower' = g
               /\ UNCHANGED <<verdict, outcome, standby>>
            \/ /\ g.state = "REACHED" /\ run' = "idle" /\ outcome' = "reached"
               /\ UNCHANGED <<verdict, standby>>
            \/ /\ g.state = "STALLED" /\ run' = "releasing" /\ verdict' = "stalled"
               /\ standby' = "called" /\ outcome' = outcome
            \/ /\ g.state = "BLOCKED" /\ run' = "releasing" /\ verdict' = "blocked"
               /\ standby' = "called" /\ outcome' = outcome
<1>1. /\ Judged(follower) /\ latest \in Message
      /\ target' = IF Sends(Measured) THEN Target(Measured) ELSE target
  BY DEF Types, OnTheWay, Follow
<1>2. /\ Ready(Measured) /\ Measured.state = follower.state
      /\ Measured.path = follower.path /\ Measured.sent = follower.sent
  BY <1>1, MeasuredIs
<1>3. Sends(Measured) <=> follower.state = "SENDING" /\ g.state # "BLOCKED"
  BY <1>2, TickIs
<1>4. CASE Sends(Measured)
  <2>1. target' = follower.path[follower.sent + 1]
    BY <1>1, <1>2, <1>4 DEF Target
  <2>2. follower.path \in Seq(Pose) /\ follower.sent \in Nat /\ follower.sent < Len(follower.path)
    BY <1>1, <1>3, <1>4 DEF Judged, Ready, Followers
  <2>3. target' \in Pose
    BY <2>1, <2>2
  <2> QED BY <1>1, <1>2, <1>3, <1>4, <2>1, <2>3 DEF Follow, Answer, Release
<1>5. CASE ~Sends(Measured)
  BY <1>1, <1>2, <1>3, <1>5 DEF Follow, Answer, Release
<1> QED BY <1>4, <1>5

\* Nothing but the turn of the loop and what comes from outside changes a goal.
LEMMA GoalEndsIs ==
  ASSUME GoalEnds
  PROVE  /\ run = "releasing" /\ run' = "idle" /\ standby' = "idle" /\ outcome' = verdict
         /\ UNCHANGED <<follower, latest, stamp, preempt, verdict, target, reading>>
         /\ UNCHANGED <<position, readAt, homing, aim, arm, order, sincePoll, turned, lagging>>
         /\ UNCHANGED <<held, misses, goals, goal>>
BY DEF GoalEnds, StandbyAnswers, Answer, driverSide, paceVars, factVars

\* A request to stop only leaves its mark.
LEMMA PreemptArrivesIs ==
  ASSUME PreemptArrives
  PROVE  /\ preempt' = TRUE
         /\ UNCHANGED <<run, follower, latest, stamp, verdict, outcome, target, standby, reading>>
         /\ UNCHANGED <<position, readAt, homing, aim, arm, order, sincePoll, turned, lagging>>
         /\ UNCHANGED <<held, misses, goals, goal>>
BY DEF PreemptArrives, RequestPreempt, driverSide, paceVars, factVars

\* Something that gets into the way changes nothing but what is held.
LEMMA TouchIs ==
  ASSUME Touch
  PROVE  /\ held = {} /\ \E j \in Moved : held' = {j}
         /\ UNCHANGED <<run, follower, latest, stamp, preempt, verdict, outcome, target, standby, reading>>
         /\ UNCHANGED <<position, readAt, homing, aim, arm, order, sincePoll, turned, lagging>>
         /\ UNCHANGED <<misses, goals, goal>>
BY DEF Touch, executorVars, driverSide, paceVars

\* A step of neither node leaves all as it is.
LEMMA StutterIs ==
  ASSUME UNCHANGED vars
  PROVE  /\ UNCHANGED <<run, follower, latest, stamp, preempt, verdict, outcome, target, standby, reading>>
         /\ UNCHANGED <<position, readAt, homing, aim, arm, order, sincePoll, turned, lagging>>
         /\ UNCHANGED <<held, misses, goals, goal>>
BY DEF vars, executorVars, driverSide, paceVars, factVars

\* The types are kept.
LEMMA TypesAtFirst == Init => Types
<1> SUFFICES ASSUME Init PROVE Types
  OBVIOUS
<1>1. D!Unread \in Nat /\ D!Nothing = <<>> /\ MaxAge \in Nat /\ SlowestPoll \in Nat \ {0}
  BY ParametersAre
<1>2. /\ run = "idle" /\ latest = NoReading /\ stamp = NoStamp /\ preempt = FALSE
      /\ verdict = "none" /\ outcome = "none" /\ target = <<>> /\ reading = <<>> /\ standby = "idle"
  BY <1>1 DEF Init, ExecutorInit, D!DriverInit
<1>3. ExecutorTypes
  <2>1. stamp \in [age : 0..MaxAge, place : Nat]
    BY <1>1, <1>2 DEF NoStamp
  <2> QED BY <1>2, <2>1 DEF ExecutorTypes, Outcomes
<1>4. ArmTypes
  <2>1. position \in [D!Joints -> Int] /\ arm \in [D!Joints -> Lower..Upper]
    BY DEF Init, D!DriverInit
  <2>2. readAt \in [D!Joints -> 0..D!Unread]
    BY <1>1 DEF Init, D!DriverInit
  <2>3. aim \in [D!Joints -> (Lower..Upper) \cup {Released}] /\ homing = FALSE /\ order = "none"
    BY DEF Init, D!DriverInit
  <2>4. D!TypeOK
    BY <1>2, <2>1, <2>2, <2>3 DEF D!TypeOK
  <2> QED BY <1>2, <2>3, <2>4 DEF ArmTypes
<1>5. StepTypes
  <2>1. goal \in [D!Joints -> Int]
    BY ArmAssumption DEF Init
  <2>2. goal \in Looked
    BY <2>1 DEF Looked
  <2>3. /\ sincePoll = 1 /\ turned = FALSE /\ lagging = FALSE
        /\ held = {} /\ misses = 0 /\ goals = 0
    BY DEF Init
  <2>4. sincePoll \in 0..SlowestPoll
    BY <1>1, <2>3
  <2>5. turned \in BOOLEAN /\ lagging \in BOOLEAN /\ (lagging => target # <<>>)
    BY <2>3
  <2> QED BY <2>2, <2>3, <2>4, <2>5 DEF StepTypes
<1>6. Phases /\ OnTheWay
  BY <1>2 DEF Phases, OnTheWay
<1> QED BY <1>3, <1>4, <1>5, <1>6 DEF Types

\* Every step keeps the types: one case for each action.
LEMMA TypesKept == Types /\ [Next]_vars => Types'
<1> SUFFICES ASSUME Types, [Next]_vars PROVE Types'
  OBVIOUS
<1>0. ExecutorTypes /\ ArmTypes /\ StepTypes /\ Phases /\ OnTheWay
  BY DEF Types
<1>1. /\ D!Unread \in Nat /\ MaxAge \in Nat /\ SlowestPoll \in Nat \ {0} /\ Moved \subseteq D!Joints
      /\ Lower \in Int /\ Upper \in Int
  BY ParametersAre, ArmAssumption
<1>2. CASE Poll
  <2>1. ExecutorTypes' /\ Phases' /\ OnTheWay'
    BY <1>0, <1>2, PollIs DEF ExecutorTypes, Phases, OnTheWay
  <2>2. StepTypes'
    BY <1>0, <1>1, <1>2, PollIs DEF StepTypes
  <2>3. PICK answered \in SUBSET D!Joints :
          /\ position' = [j \in D!Joints |-> IF j \in answered THEN arm[j] ELSE position[j]]
          /\ readAt' = [j \in D!Joints |-> IF j \in answered THEN 0 ELSE readAt[j]]
    BY <1>2, PollIs
  <2>4. /\ position \in [D!Joints -> Int] /\ readAt \in [D!Joints -> 0..D!Unread]
        /\ arm \in [D!Joints -> Lower..Upper]
    BY <1>0 DEF ArmTypes, D!TypeOK
  <2>5. position' \in [D!Joints -> Int]
    BY <1>1, <2>3, <2>4
  <2>6. readAt' \in [D!Joints -> 0..D!Unread]
    BY <1>1, <2>3, <2>4
  <2>7. reading' \in Message \cup {<<>>}
    BY <1>0, <1>2, PollIs DEF ArmTypes
  <2>8. UNCHANGED <<homing, aim, arm, standby, order>>
    BY <1>2, PollIs
  <2>9. ArmTypes'
    BY <1>0, <2>5, <2>6, <2>7, <2>8 DEF ArmTypes, D!TypeOK
  <2> QED BY <2>1, <2>2, <2>9 DEF Types
<1>3. CASE OnJointTargets
  <2>1. ExecutorTypes'
    BY <1>0, <1>3, OnJointTargetsIs DEF ExecutorTypes
  <2>2. Phases' /\ OnTheWay'
    BY <1>0, <1>3, OnJointTargetsIs DEF Phases, OnTheWay
  <2>3. StepTypes'
    BY <1>0, <1>3, OnJointTargetsIs DEF StepTypes
  <2>4. aim' \in [D!Joints -> (Lower..Upper) \cup {Released}]
    <3>1. aim \in [D!Joints -> (Lower..Upper) \cup {Released}]
      BY <1>0 DEF ArmTypes, D!TypeOK
    <3> QED BY <1>3, <3>1, OnJointTargetsIs
  <2>5. order' \in {"none", "move", "home"} /\ homing' = FALSE
    BY <1>0, <1>3, OnJointTargetsIs DEF ArmTypes, D!TypeOK
  <2>6. UNCHANGED <<position, readAt, arm, reading, standby>>
    BY <1>3, OnJointTargetsIs
  <2>7. ArmTypes'
    BY <1>0, <2>4, <2>5, <2>6 DEF ArmTypes, D!TypeOK
  <2> QED BY <2>1, <2>2, <2>3, <2>7 DEF Types
<1>4. CASE OnStandby
  <2>1. ExecutorTypes'
    BY <1>0, <1>4, OnStandbyIs DEF ExecutorTypes
  <2>2. Phases' /\ OnTheWay'
    BY <1>0, <1>4, OnStandbyIs DEF Phases, OnTheWay
  <2>3. StepTypes'
    BY <1>0, <1>4, OnStandbyIs DEF StepTypes
  <2>4. ArmTypes'
    BY <1>0, <1>4, OnStandbyIs DEF ArmTypes, D!TypeOK
  <2> QED BY <2>1, <2>2, <2>3, <2>4 DEF Types
<1>5. CASE ReadingArrives
  <2>1. ExecutorTypes'
    BY <1>0, <1>5, ReadingArrivesIs DEF ExecutorTypes
  <2>2. Phases' /\ OnTheWay'
    BY <1>0, <1>5, ReadingArrivesIs DEF Phases, OnTheWay
  <2>3. StepTypes'
    BY <1>0, <1>5, ReadingArrivesIs DEF StepTypes
  <2>4. ArmTypes'
    BY <1>0, <1>5, ReadingArrivesIs DEF ArmTypes, D!TypeOK
  <2> QED BY <2>1, <2>2, <2>3, <2>4 DEF Types
<1>6. CASE GoalArrives
  <2>1. ArmTypes'
    BY <1>0, <1>6, GoalArrivesIs DEF ArmTypes, D!TypeOK
  <2>2. Phases'
    BY <1>0, <1>6, GoalArrivesIs DEF Phases
  <2>3. goal' \in Looked
    BY <1>0, <1>6, GoalArrivesIs DEF StepTypes, Looked
  <2>4. StepTypes'
    BY <1>0, <1>6, <2>3, GoalArrivesIs DEF StepTypes
  <2>5. stamp' \in [age : 0..MaxAge, place : Nat]
    <3>1. \A m \in Message : m.stamp \in [age : 0..MaxAge, place : Nat]
      BY MessageIs DEF D!Joints
    <3> QED BY <1>0, <1>6, <3>1, GoalArrivesIs DEF ExecutorTypes
  <2>6. ExecutorTypes'
    BY <1>0, <1>6, <2>5, GoalArrivesIs DEF ExecutorTypes, Outcomes
  <2>7. OnTheWay'
    BY <1>6, GoalArrivesIs DEF OnTheWay, Leads
  <2> QED BY <2>1, <2>2, <2>4, <2>6, <2>7 DEF Types
<1>7. CASE PreemptArrives
  <2>1. ExecutorTypes'
    BY <1>0, <1>7, PreemptArrivesIs DEF ExecutorTypes
  <2>2. Phases' /\ OnTheWay'
    BY <1>0, <1>7, PreemptArrivesIs DEF Phases, OnTheWay
  <2>3. StepTypes'
    BY <1>0, <1>7, PreemptArrivesIs DEF StepTypes
  <2>4. ArmTypes'
    BY <1>0, <1>7, PreemptArrivesIs DEF ArmTypes, D!TypeOK
  <2> QED BY <2>1, <2>2, <2>3, <2>4 DEF Types
<1>8. CASE Turn
  <2>1. CASE StopOnRequest
    <3>1. ExecutorTypes'
      BY <1>0, <1>8, <2>1, TurnIs, StopOnRequestIs DEF ExecutorTypes, Outcomes
    <3>2. Phases' /\ OnTheWay'
      BY <1>0, <1>8, <2>1, TurnIs, StopOnRequestIs DEF Phases, OnTheWay
    <3>3. StepTypes'
      BY <1>0, <1>8, <2>1, TurnIs, StopOnRequestIs DEF StepTypes
    <3>4. ArmTypes'
      BY <1>0, <1>8, <2>1, TurnIs, StopOnRequestIs DEF ArmTypes, D!TypeOK
    <3> QED BY <3>1, <3>2, <3>3, <3>4 DEF Types
  <2>2. CASE Follow
    <3> DEFINE g == Tick(Measured)
    <3>1. /\ Judged(follower) /\ latest \in Message /\ Ready(Measured)
          /\ stamp' = IF Fresh THEN latest.stamp ELSE NoStamp
          /\ target' = target \/ target' \in Pose
          /\ \/ /\ g.state \in {"SENDING", "SETTLING"} /\ run' = "following" /\ follower' = g
                /\ UNCHANGED <<verdict, outcome, standby>>
             \/ /\ g.state = "REACHED" /\ run' = "idle" /\ outcome' = "reached"
                /\ UNCHANGED <<verdict, standby>>
             \/ /\ g.state \in {"STALLED", "BLOCKED"} /\ run' = "releasing"
                /\ verdict' \in {"stalled", "blocked"} /\ standby' = "called" /\ outcome' = outcome
      <4> HIDE DEF g
      <4>1. g = Tick(Measured)
        BY DEF g
      <4> QED BY <2>2, <4>1, FollowIs
    <3>2. Measured.path = follower.path
      BY <3>1, MeasuredIs
    <3>3. /\ g.path = follower.path
          /\ g.state \in {"SENDING", "SETTLING"} => Judged(g)
          /\ g.state = "SETTLING" => ~(g.settlingFor > ArrivalTimeout) \/ g.settlingFor = 0
      <4>1. /\ g.path = Measured.path
            /\ g.state \in {"SENDING", "SETTLING"} => Judged(g)
            /\ g.settlingFor = Measured.settlingFor
            /\ g.state = "SETTLING" /\ Measured.state # "SENDING" => ~(g.settlingFor > ArrivalTimeout)
        BY <3>1, TickIs
      <4>2. Measured.state = "SENDING" => Measured.settlingFor = 0
        BY <3>1 DEF Ready
      <4> QED BY <3>2, <4>1, <4>2
    <3> HIDE DEF g
    <3>4. stamp' \in [age : 0..MaxAge, place : Nat]
      <4>1. latest.stamp \in [age : 0..MaxAge, place : Nat]
        BY <3>1, MessageIs DEF D!Joints
      <4>2. NoStamp \in [age : 0..MaxAge, place : Nat]
        BY <1>1 DEF NoStamp
      <4> QED BY <3>1, <4>1, <4>2
    <3>5. ExecutorTypes'
      <4>1. run' \in {"idle", "following", "releasing"} /\ outcome' \in Outcomes /\ verdict' \in Outcomes
        BY <1>0, <3>1 DEF ExecutorTypes, Outcomes
      <4>2. preempt' = preempt /\ latest' = latest
        BY <1>8, TurnIs
      <4> QED BY <1>0, <3>1, <3>4, <4>1, <4>2 DEF ExecutorTypes
    <3>6. ArmTypes'
      <4>1. standby' \in {"idle", "called", "answered"}
        BY <1>0, <3>1 DEF ArmTypes, D!TypeOK
      <4> QED BY <1>0, <1>8, <4>1, TurnIs DEF ArmTypes, D!TypeOK
    <3>7. Phases'
      BY <1>0, <1>8, <3>1, TurnIs DEF Phases
    <3>8. StepTypes'
      <4>1. lagging' = lagging /\ (lagging' => target' # <<>>)
        BY <1>0, <1>8, <3>1, TurnIs, NothingIs DEF StepTypes
      <4> QED BY <1>0, <1>8, <4>1, TurnIs DEF StepTypes
    <3>9. OnTheWay'
      <4> SUFFICES ASSUME run' = "following" PROVE OnTheWay'
        BY DEF OnTheWay
      <4>1. follower' = g /\ Judged(g) /\ latest' = latest /\ goal' = goal
        BY <1>8, <3>1, <3>3, TurnIs
      <4>2. g.settlingFor \in Nat
        BY <4>1 DEF Judged, Ready, Followers
      <4>3. g.state = "SETTLING" => g.settlingFor <= ArrivalTimeout
        BY <3>3, <4>2, ParametersAre
      <4>4. run = "following"
        BY <1>8, TurnIs
      <4> QED BY <1>0, <3>1, <3>3, <4>1, <4>3, <4>4 DEF OnTheWay
    <3> QED BY <3>5, <3>6, <3>7, <3>8, <3>9 DEF Types
  <2> QED BY <1>8, <2>1, <2>2, TurnIs
<1>9. CASE Elapse
  <2>1. ArmTypes'
    BY <1>0, <1>9, ElapseIs DEF ArmTypes, D!TypeOK
  <2>2. Phases'
    BY <1>0, <1>9, ElapseIs DEF Phases
  <2>3. StepTypes'
    <3>1. sincePoll' \in 0..SlowestPoll
      BY <1>0, <1>1, <1>9, ElapseIs DEF StepTypes
    <3>2. lagging' \in BOOLEAN /\ turned' = FALSE /\ (lagging' => target' # <<>>)
      BY <1>9, ElapseIs
    <3> QED BY <1>0, <1>9, <3>1, <3>2, ElapseIs DEF StepTypes
  <2>4. ExecutorTypes'
    <3>1. Older(stamp) \in [age : 0..MaxAge, place : Nat]
      BY <1>0, <1>1 DEF ExecutorTypes, Older, Grow
    <3> QED BY <1>0, <1>9, <3>1, ElapseIs DEF ExecutorTypes
  <2>5. OnTheWay'
    BY <1>0, <1>9, ElapseIs DEF OnTheWay
  <2> QED BY <2>1, <2>2, <2>3, <2>4, <2>5 DEF Types
<1>10. CASE GoalEnds
  <2>1. ExecutorTypes'
    BY <1>0, <1>10, GoalEndsIs DEF ExecutorTypes
  <2>2. Phases' /\ OnTheWay'
    BY <1>0, <1>10, GoalEndsIs DEF Phases, OnTheWay
  <2>3. StepTypes'
    BY <1>0, <1>10, GoalEndsIs DEF StepTypes
  <2>4. ArmTypes'
    BY <1>0, <1>10, GoalEndsIs DEF ArmTypes, D!TypeOK
  <2> QED BY <2>1, <2>2, <2>3, <2>4 DEF Types
<1>11. CASE Touch
  <2>1. ExecutorTypes'
    BY <1>0, <1>11, TouchIs DEF ExecutorTypes
  <2>2. Phases' /\ OnTheWay'
    BY <1>0, <1>11, TouchIs DEF Phases, OnTheWay
  <2>3. StepTypes'
    BY <1>0, <1>11, TouchIs DEF StepTypes
  <2>4. ArmTypes'
    BY <1>0, <1>11, TouchIs DEF ArmTypes, D!TypeOK
  <2> QED BY <2>1, <2>2, <2>3, <2>4 DEF Types
<1>12. CASE UNCHANGED vars
  <2>1. ExecutorTypes'
    BY <1>0, <1>12, StutterIs DEF ExecutorTypes
  <2>2. Phases' /\ OnTheWay'
    BY <1>0, <1>12, StutterIs DEF Phases, OnTheWay
  <2>3. StepTypes'
    BY <1>0, <1>12, StutterIs DEF StepTypes
  <2>4. ArmTypes'
    BY <1>0, <1>12, StutterIs DEF ArmTypes, D!TypeOK
  <2> QED BY <2>1, <2>2, <2>3, <2>4 DEF Types
<1> QED
  BY <1>2, <1>3, <1>4, <1>5, <1>6, <1>7, <1>8, <1>9, <1>10, <1>11, <1>12 DEF Next, Loops, Call

\* The executor and the driver keep to their types, for any arm and any paths.
THEOREM TypesHold == Spec => []TypeOK
<1>1. Types => TypeOK
  <2> SUFFICES ASSUME Types PROVE TypeOK
    OBVIOUS
  <2>1. run = "following" =>
          /\ follower.state \in {"SENDING", "SETTLING", "REACHED"}
          /\ follower.sent \in 0..Len(follower.path) /\ follower.strikes \in 0..(Strikes - 1)
    BY ParametersAre DEF Types, OnTheWay, Judged, Ready, Followers
  <2> QED BY <2>1 DEF Types, ExecutorTypes, ArmTypes, TypeOK
<1> QED BY <1>1, TypesAtFirst, TypesKept, PTL DEF Spec

-------------------------------------------------------------------------------
(* How old the readings are, as long as every joint answers.               *)

\* What the loop has measured is never younger than the last reading, and both are as old as
\* the driver's polls are apart.
ReadingAges ==
  /\ reading # <<>> =>
       /\ sincePoll = 0 /\ reading.stamp = [age |-> 0, place |-> 1]
       /\ \A j \in D!Joints : reading.at[j] = arm[j]
  /\ latest \in Message =>
       /\ latest.stamp.place = 1 /\ latest.stamp.age <= SlowestPoll /\ latest.stamp.age <= stamp.age
       /\ reading = <<>> => latest.stamp.age = sincePoll
       /\ reading # <<>> => latest.stamp.age >= 1
  /\ run = "following" =>
       stamp.place = 1 /\ stamp.age <= SlowestPoll + 1 /\ (turned => stamp.age <= SlowestPoll)

\* With a joint that missed its answer, what the ages say of each other is lost.
Ages == misses = 0 => ReadingAges

\* Time makes an age that has room one greater, and keeps the order of two stamps.
LEMMA OlderIs ==
  ASSUME NEW a \in [age : 0..MaxAge, place : Nat]
  PROVE  /\ Older(a) \in [age : 0..MaxAge, place : Nat] /\ Older(a).place = a.place
         /\ Older(a).age = IF a.age < MaxAge THEN a.age + 1 ELSE a.age
<1>1. MaxAge \in Nat
  BY ParametersAre
<1> QED BY <1>1 DEF Older, Grow

\* The stamps are stamps.
LEMMA StampsAre ==
  ASSUME Types
  PROVE  /\ stamp \in [age : 0..MaxAge, place : Nat] /\ stamp.age \in 0..MaxAge /\ stamp.age \in Nat
         /\ latest \in Message =>
              /\ latest.stamp \in [age : 0..MaxAge, place : Nat]
              /\ latest.stamp.age \in 0..MaxAge /\ latest.stamp.age \in Nat
         /\ sincePoll \in 0..SlowestPoll /\ sincePoll \in Nat
         /\ misses \in Nat
<1>1. MaxAge \in Nat /\ SlowestPoll \in Nat
  BY ParametersAre
<1>2. stamp \in [age : 0..MaxAge, place : Nat] /\ sincePoll \in 0..SlowestPoll /\ misses \in Nat
  BY DEF Types, ExecutorTypes, StepTypes
<1>3. ASSUME latest \in Message PROVE latest.stamp \in [age : 0..MaxAge, place : Nat]
  BY <1>3, MessageIs DEF D!Joints
<1> QED BY <1>1, <1>2, <1>3

\* No step takes back that a joint did not answer.
LEMMA MissesStay ==
  ASSUME Types, [Next]_vars
  PROVE  misses' >= misses /\ (misses' = 0 => misses = 0) /\ (held # {} => held' = held)
<1>1. misses \in Nat
  BY StampsAre
<1>2. CASE Poll
  BY <1>1, <1>2, PollIs
<1>3. CASE Touch
  BY <1>1, <1>3, TouchIs
<1>4. CASE ~Poll /\ ~Touch
  <2>1. misses' = misses /\ held' = held
    BY <1>4, OnJointTargetsIs, OnStandbyIs, ReadingArrivesIs, GoalArrivesIs, PreemptArrivesIs,
       TurnIs, ElapseIs, GoalEndsIs, StutterIs DEF Next, Loops, Call
  <2> QED BY <1>1, <2>1
<1> QED BY <1>2, <1>3, <1>4

\* A reading is fresh as long as every joint answers.
LEMMA ReadingsAreFresh ==
  ASSUME SlowestPoll <= FeedbackTimeout, Types, Ages, misses = 0, latest \in Message
  PROVE  Fresh
BY ParametersAre, StampsAre, MessageIs DEF Ages, ReadingAges, Fresh

\* At first nothing has been read.
LEMMA AgesAtFirst == Init => Ages
BY ParametersAre, NothingIs DEF Init, ExecutorInit, D!DriverInit, Ages, ReadingAges

\* Every step keeps the ages: a poll starts one, time makes all of them greater together.
LEMMA AgesKept ==
  ASSUME SlowestPoll <= FeedbackTimeout, Types, Types', Ages, [Next]_vars
  PROVE  Ages'
<1> SUFFICES ASSUME misses' = 0 PROVE ReadingAges'
  BY DEF Ages
<1>1. misses = 0 /\ ReadingAges
  BY MissesStay DEF Ages
<1>2. SlowestPoll \in Nat \ {0} /\ MaxAge \in Nat /\ SlowestPoll < MaxAge
  BY ParametersAre
<1>3. CASE Poll
  <2>1. PICK answered \in SUBSET D!Joints :
          /\ misses' = misses => answered = D!Joints
          /\ position' = [j \in D!Joints |-> IF j \in answered THEN arm[j] ELSE position[j]]
          /\ answered = D!Joints =>
               reading' = [stamp |-> [age |-> 0, place |-> 1], at |-> position']
    BY <1>3, PollIs
  <2>2. /\ reading' = [stamp |-> [age |-> 0, place |-> 1], at |-> position']
        /\ \A j \in D!Joints : position'[j] = arm[j]
    BY <1>1, <2>1
  <2>3. /\ sincePoll > 0 /\ sincePoll' = 0
        /\ UNCHANGED <<run, latest, stamp, arm, turned>>
    BY <1>3, PollIs
  <2>4. reading' # <<>>
    <3>1. DOMAIN reading' # {} /\ DOMAIN <<>> = {}
      BY <2>2
    <3> QED BY <3>1
  <2>5. latest \in Message => latest.stamp.age >= 1
    BY <1>1, <2>3, StampsAre DEF ReadingAges
  <2> QED BY <1>1, <2>2, <2>3, <2>4, <2>5 DEF ReadingAges
<1>4. CASE ReadingArrives
  <2>1. /\ reading \in Message /\ latest' = reading /\ reading' = <<>>
        /\ UNCHANGED <<run, stamp, sincePoll, turned>>
    BY <1>4, ReadingArrivesIs
  <2>2. reading # <<>>
    BY <2>1, NothingIs
  <2>3. sincePoll = 0 /\ reading.stamp = [age |-> 0, place |-> 1]
    BY <1>1, <2>2 DEF ReadingAges
  <2>4. latest'.stamp.age = 0 /\ latest'.stamp.place = 1 /\ latest'.stamp.age <= stamp.age
    BY <2>1, <2>3, StampsAre
  <2> QED BY <1>1, <1>2, <2>1, <2>3, <2>4 DEF ReadingAges
<1>5. CASE GoalArrives
  <2>1. /\ run' = "following" => latest \in Message /\ stamp' = latest.stamp
        /\ run' # "following" => stamp' = stamp
        /\ UNCHANGED <<latest, reading, sincePoll, arm, turned>>
    BY <1>5, GoalArrivesIs
  <2> QED BY <1>1, <1>2, <2>1, StampsAre DEF ReadingAges
<1>6. CASE Turn
  <2>1. /\ UNCHANGED <<latest, reading, sincePoll, arm>>
        /\ run = "following"
    BY <1>6, TurnIs
  <2>2. CASE StopOnRequest
    <3>1. run' # "following" /\ stamp' = stamp
      BY <2>2, StopOnRequestIs
    <3> QED BY <1>1, <2>1, <3>1 DEF ReadingAges
  <2>3. CASE Follow
    <3>1. latest \in Message /\ stamp' = IF Fresh THEN latest.stamp ELSE NoStamp
      BY <2>3, FollowIs
    <3>2. stamp' = latest.stamp
      BY <1>1, <3>1, ReadingsAreFresh DEF Ages
    <3> QED BY <1>1, <1>2, <2>1, <3>1, <3>2, StampsAre DEF ReadingAges
  <2> QED BY <1>6, <2>2, <2>3, TurnIs
<1>7. CASE Elapse
  <2>1. /\ run = "following" => turned
        /\ sincePoll < SlowestPoll /\ sincePoll' = sincePoll + 1
        /\ reading = <<>> /\ reading' = <<>> /\ turned' = FALSE
        /\ latest = NoReading => latest' = NoReading
        /\ latest \in Message => latest'.stamp = Older(latest.stamp)
        /\ stamp' = Older(stamp) /\ run' = run
    BY <1>7, ElapseIs
  <2>2. latest \in Message \cup {NoReading}
    BY DEF Types, ExecutorTypes
  <2>3. latest' \in Message => latest \in Message
    BY <2>1, <2>2, NothingIs
  <2>4. latest \in Message =>
          /\ latest.stamp.age = sincePoll /\ latest.stamp.place = 1 /\ latest.stamp.age <= stamp.age
          /\ Older(latest.stamp).age = latest.stamp.age + 1
          /\ Older(latest.stamp).place = 1
    <3> SUFFICES ASSUME latest \in Message
                 PROVE  /\ latest.stamp.age = sincePoll /\ latest.stamp.place = 1
                        /\ latest.stamp.age <= stamp.age
                        /\ Older(latest.stamp).age = latest.stamp.age + 1
                        /\ Older(latest.stamp).place = 1
      OBVIOUS
    <3>1. /\ latest.stamp.age = sincePoll /\ latest.stamp.place = 1
          /\ latest.stamp.age <= stamp.age
      BY <1>1, <2>1 DEF ReadingAges
    <3>2. latest.stamp \in [age : 0..MaxAge, place : Nat] /\ latest.stamp.age < MaxAge
      BY <1>1, <1>2, <2>1, <3>1, StampsAre
    <3> QED BY <3>1, <3>2, OlderIs
  <2>5. /\ Older(stamp).place = stamp.place
        /\ Older(stamp).age = IF stamp.age < MaxAge THEN stamp.age + 1 ELSE stamp.age
    BY StampsAre, OlderIs
  <2>6. stamp.age <= MaxAge /\ stamp.age \in Nat /\ sincePoll \in Nat
    BY StampsAre
  <2>7. latest' \in Message =>
          /\ latest'.stamp.place = 1 /\ latest'.stamp.age <= SlowestPoll
          /\ latest'.stamp.age <= stamp'.age /\ latest'.stamp.age = sincePoll'
    BY <1>2, <2>1, <2>3, <2>4, <2>5, <2>6
  <2>8. run' = "following" => stamp'.place = 1 /\ stamp'.age <= SlowestPoll + 1 /\ ~turned'
    BY <1>1, <1>2, <2>1, <2>5, <2>6 DEF ReadingAges
  <2> QED BY <2>1, <2>7, <2>8 DEF ReadingAges
<1>8. ASSUME UNCHANGED <<latest, stamp, reading, sincePoll, turned, arm>>,
             run' = "following" => run = "following"
      PROVE  ReadingAges'
  BY <1>1, <1>8 DEF ReadingAges
<1>9. CASE OnJointTargets \/ OnStandby \/ PreemptArrives \/ GoalEnds \/ Touch \/ UNCHANGED vars
  <2>1. /\ UNCHANGED <<latest, stamp, reading, sincePoll, turned, arm>>
        /\ run' = "following" => run = "following"
    BY <1>9, OnJointTargetsIs, OnStandbyIs, PreemptArrivesIs, GoalEndsIs, TouchIs, StutterIs
  <2> QED BY <1>8, <2>1
<1> QED
  BY <1>3, <1>4, <1>5, <1>6, <1>7, <1>9 DEF Next, Loops, Call

-------------------------------------------------------------------------------
(* How far the arm has come while a goal settles.                          *)

\* The last waypoint has been sent, and the loop waits for the arm.
settling == run = "following" /\ follower.state = "SETTLING"

\* Once the last waypoint has reached the driver, every joint that nothing holds is told where
\* the path leads, and has come one step's way closer in every step since.
Settles ==
  /\ \A j \in Moved : goal[j] \in Lower..Upper
  /\ settling =>
       /\ target # <<>> =>
            /\ target = goal
            /\ follower.settlingFor = 0 \/ (follower.settlingFor = 1 /\ lagging)
       /\ target = <<>> => \A j \in Moved : aim[j] = goal[j]
       /\ \A j \in Moved \ held :
            \/ arm[j] = goal[j]
            \/ Distance(arm[j], goal[j]) + Speed * (follower.settlingFor - 1) <= Upper - Lower

\* A joint is within its limits.
LEMMA ArmIs ==
  ASSUME Types, NEW j \in Moved
  PROVE  j \in D!Joints /\ arm[j] \in Lower..Upper /\ arm[j] \in Int
BY ArmAssumption DEF Types, ArmTypes, D!TypeOK

\* A follower that runs counts in numbers.
LEMMA FollowerIs ==
  ASSUME Types, run = "following"
  PROVE  /\ Judged(follower) /\ Ready(follower) /\ follower \in Followers /\ latest \in Message
         /\ follower.settlingFor \in Nat /\ follower.strikes \in Nat /\ follower.sent \in Nat
         /\ follower.path \in Seq(Pose) /\ Len(follower.path) \in Nat
         /\ follower.state \in {"SENDING", "SETTLING", "REACHED"}
         /\ follower.state = "SENDING" => follower.settlingFor = 0
         /\ follower.path # <<>> => follower.path[Len(follower.path)] = goal
<1>1. Judged(follower) /\ latest \in Message /\ (follower.path # <<>> => follower.path[Len(follower.path)] = goal)
  BY DEF Types, OnTheWay
<1>2. follower.path \in Seq(Pose)
  BY <1>1 DEF Judged, Ready, Followers
<1> QED BY <1>1, <1>2 DEF Judged, Ready, Followers

\* A joint crosses its range in as many steps as it takes.
LEMMA CrossingIs ==
  /\ Crossing \in Nat \ {0} /\ Upper - Lower <= Speed * Crossing /\ Speed \in Nat \ {0}
  /\ Upper - Lower \in Int
<1> DEFINE x == Upper - Lower + Speed - 1
<1>1. x \in Int /\ Speed \in Nat \ {0} /\ Lower \in Int /\ Upper \in Int /\ Upper - Lower > 0
  BY ArmAssumption
<1>2. Crossing = x \div Speed
  BY DEF Crossing
<1> HIDE DEF x
<1>3. Crossing \in Int /\ x < Speed * Crossing + Speed
  BY <1>1, <1>2, DivIs
<1>4. Speed * Crossing \in Int /\ x = Upper - Lower + Speed - 1
  BY <1>1, <1>3 DEF x
<1>5. Upper - Lower <= Speed * Crossing
  BY <1>1, <1>3, <1>4
<1>6. Speed * 0 < Speed * Crossing
  BY <1>1, <1>4, <1>5
<1>7. 0 < Crossing
  BY <1>1, <1>3, <1>6, TimesLess
<1> QED BY <1>1, <1>3, <1>5, <1>7

\* A number of steps, times the way of a step.
LEMMA WayIs ==
  ASSUME NEW n \in Int
  PROVE  /\ Speed * n \in Int /\ Speed * (n + 1) = Speed * n + Speed
         /\ \A m \in Int : m <= n => Speed * m <= Speed * n
<1>1. Speed \in Nat \ {0}
  BY ArmAssumption
<1>2. Speed * n \in Int /\ Speed * (n + 1) = Speed * n + Speed
  BY <1>1
<1>3. ASSUME NEW m \in Int, m <= n PROVE Speed * m <= Speed * n
  <2>1. n - m \in Nat
    BY <1>3
  <2>2. Speed * (n - m) >= 0 /\ Speed * (n - m) = Speed * n - Speed * m
    BY <1>1, <1>3, <2>1
  <2> QED BY <1>1, <2>2
<1> QED BY <1>2, <1>3

\* At first no goal settles, and the arm is at home.
LEMMA SettlesAtFirst == Init => Settles
<1> SUFFICES ASSUME Init PROVE Settles
  OBVIOUS
<1>1. run = "idle" /\ goal = Home
  BY DEF Init, ExecutorInit
<1>2. \A j \in Moved : goal[j] \in Lower..Upper
  BY <1>1, ArmAssumption
<1> QED BY <1>1, <1>2 DEF Settles, settling

\* Every step keeps it: time brings a joint that nothing holds closer, and nothing else moves one.
LEMMA SettlesKept ==
  ASSUME PathsAreLegal, Types, Types', Settles, [Next]_vars
  PROVE  Settles'
<1>1. Lower \in Int /\ Upper \in Int /\ Speed \in Nat \ {0} /\ Moved \subseteq D!Joints
  BY ArmAssumption
<1>2. \A j \in Moved : goal[j] \in Lower..Upper /\ goal[j] \in Int
  BY <1>1 DEF Settles
<1>3. CASE Poll
  <2>1. UNCHANGED <<run, follower, target, aim, arm, lagging, held, goal>>
    BY <1>3, PollIs
  <2> QED BY <2>1 DEF Settles, settling
<1>4. CASE OnJointTargets
  <2>1. /\ target # <<>> /\ target' = <<>>
        /\ UNCHANGED <<run, follower, arm, held, goal>>
    BY <1>4, OnJointTargetsIs, NothingIs
  <2>2. ASSUME settling PROVE \A j \in Moved : aim'[j] = goal[j]
    <3>1. target = goal
      BY <2>1, <2>2 DEF Settles
    <3>2. aim' = [j \in D!Joints |-> IF j \in Moved THEN target[j] ELSE aim[j]]
      BY <1>2, <1>4, <3>1, OnJointTargetsIs
    <3> QED BY <1>1, <3>1, <3>2
  <2> QED BY <2>1, <2>2 DEF Settles, settling
<1>5. CASE OnStandby
  <2>1. run' # "following" /\ goal' = goal
    BY <1>5, OnStandbyIs DEF Types, Phases
  <2> QED BY <2>1 DEF Settles, settling
<1>6. CASE GoalArrives
  <2>1. run' = "following" => follower'.state # "SETTLING"
    BY <1>6, GoalArrivesIs
  <2>2. goal' = goal \/ \E path \in Paths : path # <<>> /\ goal' = path[Len(path)]
    BY <1>6, GoalArrivesIs
  <2>3. \A j \in Moved : goal'[j] \in Lower..Upper
    BY <1>2, <2>2 DEF PathsAreLegal
  <2> QED BY <2>1, <2>3 DEF Settles, settling
<1>7. CASE Turn
  <2>1. run = "following" /\ UNCHANGED <<aim, arm, lagging, held, goal>>
    BY <1>7, TurnIs
  <2>2. CASE StopOnRequest
    <3>1. run' # "following"
      BY <2>2, StopOnRequestIs
    <3> QED BY <2>1, <3>1 DEF Settles, settling
  <2>3. CASE Follow
    <3> DEFINE g == Tick(Measured)
    <3>1. SUFFICES ASSUME settling' PROVE Settles'
      BY <2>1 DEF Settles
    <3>2. /\ Ready(Measured) /\ latest \in Message
          /\ follower.state = "SENDING" /\ g.state # "BLOCKED" =>
               target' = follower.path[follower.sent + 1] /\ target' \in Pose
          /\ follower.state # "SENDING" => target' = target
          /\ run' = "following" => follower' = g
      <4>1. g = Tick(Measured)
        OBVIOUS
      <4> HIDE DEF g
      <4> QED BY <2>3, <4>1, FollowIs
    <3>3. /\ g.settlingFor = Measured.settlingFor
          /\ g.state = "SETTLING" => Measured.state \in {"SENDING", "SETTLING"}
          /\ g.state = "SETTLING" /\ Measured.state = "SENDING" =>
               Measured.sent + 1 = Len(Measured.path)
      BY <3>2, TickIs
    <3> HIDE DEF g
    <3>4. /\ Measured.path = follower.path /\ Measured.sent = follower.sent
          /\ Measured.state = follower.state /\ Measured.settlingFor = follower.settlingFor
      BY <2>1, FollowerIs, MeasuredIs
    <3>5. follower' = g /\ g.state = "SETTLING" /\ follower'.settlingFor = follower.settlingFor
      BY <3>1, <3>2, <3>3, <3>4 DEF settling
    <3>6. CASE follower.state = "SENDING"
      <4>1. follower.settlingFor = 0 /\ follower.path # <<>> /\ follower.sent + 1 = Len(follower.path)
        BY <2>1, <3>3, <3>4, <3>5, <3>6, FollowerIs
      <4>2. target' = goal /\ target' # <<>>
        BY <2>1, <3>2, <3>5, <3>6, <4>1, FollowerIs, NothingIs
      <4>3. ASSUME NEW j \in Moved
            PROVE  Distance(arm[j], goal[j]) + Speed * (0 - 1) <= Upper - Lower
        <5>1. Distance(arm[j], goal[j]) <= Upper - Lower /\ Distance(arm[j], goal[j]) \in Int
          BY <1>1, <1>2, ArmIs DEF Distance
        <5>2. Speed * (0 - 1) = -Speed
          BY <1>1
        <5> QED BY <1>1, <5>1, <5>2
      <4> QED BY <1>2, <2>1, <3>5, <4>1, <4>2, <4>3 DEF Settles
    <3>7. CASE follower.state = "SETTLING"
      <4>1. target' = target /\ settling
        BY <2>1, <3>2, <3>7 DEF settling
      <4> QED BY <2>1, <3>5, <4>1 DEF Settles
    <3> QED BY <3>3, <3>4, <3>5, <3>6, <3>7
  <2> QED BY <1>7, <2>2, <2>3, TurnIs
<1>8. CASE Elapse
  <2>1. /\ ~lagging /\ lagging' = (target # <<>>)
        /\ arm' \in [D!Joints -> Lower..Upper]
        /\ \A j \in D!Joints \ held : arm'[j] = D!Moves(j)
        /\ UNCHANGED <<run, target, aim, held, goal>>
    BY <1>8, ElapseIs
  <2>2. SUFFICES ASSUME settling' PROVE Settles'
    BY <2>1 DEF Settles
  <2>3. /\ settling /\ follower'.settlingFor = follower.settlingFor + 1
        /\ follower.settlingFor \in Nat
    BY <1>8, <2>1, <2>2, ElapseIs, FollowerIs DEF settling
  <2>4. target # <<>> => target = goal /\ follower.settlingFor = 0
    BY <2>1, <2>3 DEF Settles
  <2>5. ASSUME NEW j \in Moved \ held
        PROVE  \/ arm'[j] = goal[j]
               \/ Distance(arm'[j], goal[j]) + Speed * ((follower.settlingFor + 1) - 1) <= Upper - Lower
    <3> DEFINE n == follower.settlingFor
    <3>1. /\ n \in Nat /\ (n + 1) - 1 = n /\ Speed * n \in Int
          /\ Speed * ((n - 1) + 1) = Speed * (n - 1) + Speed
          /\ (n - 1) + 1 = n /\ Speed * (n - 1) \in Int
      <4>1. n \in Nat /\ n \in Int /\ n - 1 \in Int /\ (n + 1) - 1 = n /\ (n - 1) + 1 = n
        BY <2>3
      <4> HIDE DEF n
      <4>2. Speed * n \in Int
        BY <4>1, WayIs
      <4>3. Speed * (n - 1) \in Int /\ Speed * ((n - 1) + 1) = Speed * (n - 1) + Speed
        BY <4>1, WayIs
      <4> QED BY <4>1, <4>2, <4>3
    <3> HIDE DEF n
    <3>2. /\ j \in D!Joints \ held /\ arm[j] \in Int /\ arm[j] \in Lower..Upper
          /\ arm'[j] \in Lower..Upper /\ arm'[j] \in Int
      BY <1>1, <2>1, <2>5, ArmIs
    <3>3. CASE target # <<>>
      <4>1. Distance(arm'[j], goal[j]) <= Upper - Lower /\ Distance(arm'[j], goal[j]) \in Int
        BY <1>1, <1>2, <3>2 DEF Distance
      <4>2. n = 0 /\ Speed * n = 0
        BY <1>1, <2>4, <3>1, <3>3 DEF n
      <4> QED BY <1>1, <3>1, <4>1, <4>2 DEF n
    <3>4. CASE target = <<>>
      <4>1. aim[j] = goal[j]
        BY <2>3, <2>5, <3>4 DEF Settles
      <4>2. \/ arm[j] = goal[j]
            \/ Distance(arm[j], goal[j]) + Speed * (n - 1) <= Upper - Lower
        BY <2>3, <2>5 DEF Settles, n
      <4>3. arm'[j] = D!Moves(j) /\ goal[j] # Released
        BY <1>2, <2>1, <3>2, ArmAssumption
      <4>4. /\ arm[j] = goal[j] => arm'[j] = goal[j]
            /\ arm'[j] = goal[j] \/ Distance(arm'[j], goal[j]) + Speed = Distance(arm[j], goal[j])
        BY <3>2, <4>1, <4>3, MovesIs
      <4>5. Distance(arm[j], goal[j]) \in Int /\ Distance(arm'[j], goal[j]) \in Int
        <5>1. goal[j] \in Int
          BY <1>2
        <5>2. arm[j] \in Int /\ arm'[j] \in Int
          BY <3>2
        <5> QED BY <5>1, <5>2 DEF Distance
      <4>6. arm'[j] = goal[j] \/ Distance(arm'[j], goal[j]) + Speed * n <= Upper - Lower
        BY <1>1, <3>1, <4>2, <4>4, <4>5
      <4> QED BY <3>1, <4>6 DEF n
    <3> QED BY <3>3, <3>4
  <2>6. target # <<>> => target = goal /\ follower'.settlingFor = 1 /\ lagging'
    <3>1. target # <<>> => lagging'
      BY <2>1, Zenon
    <3>2. target # <<>> => follower'.settlingFor = 1
      BY <2>3, <2>4
    <3> QED BY <2>4, <3>1, <3>2
  <2>7. target = <<>> => \A j \in Moved : aim[j] = goal[j]
    BY <2>3 DEF Settles
  <2>8. \A j \in Moved \ held :
          \/ arm'[j] = goal[j]
          \/ Distance(arm'[j], goal[j]) + Speed * (follower'.settlingFor - 1) <= Upper - Lower
    BY <2>3, <2>5
  <2>9. target' = target /\ aim' = aim /\ held' = held /\ goal' = goal
    BY <2>1
  <2> QED BY <1>2, <2>6, <2>7, <2>8, <2>9 DEF Settles
<1>9. CASE ReadingArrives \/ PreemptArrives \/ GoalEnds \/ UNCHANGED vars
  <2>1. /\ UNCHANGED <<follower, target, aim, arm, lagging, held, goal>>
        /\ run' = "following" => run = "following"
    BY <1>9, ReadingArrivesIs, PreemptArrivesIs, GoalEndsIs, StutterIs
  <2> QED BY <2>1 DEF Settles, settling
<1>10. CASE Touch
  <2>1. /\ UNCHANGED <<run, follower, target, aim, arm, lagging, goal>>
        /\ held = {}
    BY <1>10, TouchIs
  <2> QED BY <2>1 DEF Settles, settling
<1> QED
  BY <1>3, <1>4, <1>5, <1>6, <1>7, <1>8, <1>9, <1>10 DEF Next, Loops, Call

\* After as many steps as it takes to cross the range, every joint that nothing holds is
\* where the path leads, and stays there.
LEMMA ArmIsThere ==
  ASSUME Types, Settles, settling, follower.settlingFor >= Crossing + 1
  PROVE  /\ target = <<>> /\ \A j \in Moved : aim[j] = goal[j]
         /\ \A j \in Moved \ held : arm[j] = goal[j]
<1>1. follower.settlingFor \in Nat /\ run = "following"
  BY FollowerIs DEF settling
<1>2. target = <<>> /\ \A j \in Moved : aim[j] = goal[j]
  BY <1>1, CrossingIs DEF Settles
<1>3. ASSUME NEW j \in Moved \ held PROVE arm[j] = goal[j]
  <2> DEFINE n == follower.settlingFor - 1
  <2>1. n \in Int /\ Crossing \in Int /\ Crossing <= n
    BY <1>1, CrossingIs
  <2>2. Speed * Crossing <= Speed * n /\ Speed * n \in Int /\ Speed * Crossing \in Int
    BY <2>1, WayIs
  <2>3. arm[j] \in Int /\ goal[j] \in Int
    BY <1>3, ArmIs, ArmAssumption DEF Settles
  <2>4. arm[j] = goal[j] \/ Distance(arm[j], goal[j]) + Speed * n <= Upper - Lower
    BY <1>3 DEF Settles
  <2> HIDE DEF n
  <2>5. arm[j] = goal[j] \/ Distance(arm[j], goal[j]) <= 0
    <3>1. Distance(arm[j], goal[j]) \in Nat
      BY <2>3, DistanceIs
    <3> QED BY <2>2, <2>4, <3>1, CrossingIs
  <2> QED BY <2>3, <2>5, DistanceIs
<1> QED BY <1>2, <1>3

-------------------------------------------------------------------------------
(* What the follower sees while a goal settles, as long as every joint     *)
(* answers: a stall has a cause.                                           *)

\* What was read, or measured, after the time it takes to cross the range is where the arm
\* still is: what is free was there by then, and what is held does not move.
LooksAlike ==
  run = "following" =>
    /\ follower.haveNow /\ stamp = latest.stamp => follower.now = latest.at
    /\ ~follower.haveNow => follower.settlingFor <= stamp.age
    /\ follower.state = "SETTLING" =>
         /\ follower.settlingFor >= Crossing + 1 + latest.stamp.age =>
              \A j \in Moved : latest.at[j] = arm[j]
         /\ follower.haveNow /\ follower.settlingFor >= Crossing + 1 + stamp.age =>
              \A j \in Moved : follower.now[j] = arm[j]

\* What was read of the arm says so only as long as every joint answers.
Looks == misses = 0 => LooksAlike

\* The loop's turn, as long as every joint answers: the last reading is what is measured now.
LEMMA TurnLooks ==
  ASSUME SlowestPoll <= FeedbackTimeout, Types, Ages, Looks, misses = 0, run = "following"
  PROVE  /\ Fresh /\ Ready(Measured) /\ latest \in Message
         /\ Measured.path = follower.path /\ Measured.state = follower.state
         /\ Measured.settlingFor = follower.settlingFor
         /\ latest.stamp # stamp =>
              /\ Measured.haveNow /\ Measured.now = latest.at /\ Measured.unjudged
              /\ Measured.strikes = follower.strikes
              /\ Measured.previous = follower.previous
              /\ Measured.havePrevious = follower.havePrevious
         /\ latest.stamp = stamp => Measured = follower
         /\ Measured.haveNow => Measured.now = latest.at
         /\ ~Measured.haveNow => follower.settlingFor <= latest.stamp.age
<1>1. Judged(follower) /\ latest \in Message
  BY FollowerIs
<1>2. Fresh
  BY <1>1, ReadingsAreFresh
<1>3. /\ Ready(Measured)
      /\ Measured.path = follower.path /\ Measured.state = follower.state
      /\ Measured.settlingFor = follower.settlingFor
      /\ latest.stamp # stamp =>
           /\ Measured.haveNow /\ Measured.now = latest.at /\ Measured.unjudged
           /\ Measured.strikes = follower.strikes
           /\ Measured.previous = follower.previous
           /\ Measured.havePrevious = follower.havePrevious
      /\ latest.stamp = stamp => Measured = follower
  BY <1>1, <1>2, MeasuredIs
<1>4. CASE latest.stamp # stamp
  BY <1>1, <1>2, <1>3, <1>4
<1>5. CASE latest.stamp = stamp
  <2>1. Measured.haveNow => Measured.now = latest.at
    BY <1>3, <1>5 DEF Looks, LooksAlike
  <2>2. ~Measured.haveNow => follower.settlingFor <= latest.stamp.age
    BY <1>3, <1>5 DEF Looks, LooksAlike
  <2> QED BY <1>1, <1>2, <1>3, <1>5, <2>1, <2>2
<1> QED BY <1>4, <1>5

\* At first there is no goal.
LEMMA LooksAtFirst == Init => Looks
BY DEF Init, ExecutorInit, Looks, LooksAlike

\* Every step keeps it: a reading that is as old as the arm has been standing still shows it there.
LEMMA LooksKept ==
  ASSUME PathsAreLegal, SlowestPoll <= FeedbackTimeout,
         Types, Types', Ages, Ages', Settles, Looks, [Next]_vars
  PROVE  Looks'
<1> SUFFICES ASSUME misses' = 0 PROVE LooksAlike'
  BY DEF Looks
<1>1. misses = 0 /\ LooksAlike /\ ReadingAges
  BY MissesStay DEF Looks, Ages
<1>2. SlowestPoll \in Nat \ {0} /\ MaxAge \in Nat /\ SlowestPoll < MaxAge /\ Crossing \in Nat \ {0}
  BY ParametersAre, CrossingIs
<1>3. CASE ReadingArrives
  <2>1. /\ reading \in Message /\ latest' = reading /\ reading # <<>>
        /\ UNCHANGED <<run, follower, stamp, arm>>
    BY <1>3, ReadingArrivesIs, NothingIs
  <2>2. /\ reading.stamp.age = 0 /\ \A j \in D!Joints : reading.at[j] = arm[j]
    BY <1>1, <2>1 DEF ReadingAges
  <2>3. run = "following" => stamp # latest'.stamp
    <3>1. run = "following" => latest \in Message
      BY FollowerIs
    <3>2. run = "following" => stamp.age >= 1
      BY <1>1, <2>1, <3>1, StampsAre DEF ReadingAges
    <3> QED BY <2>1, <2>2, <3>2
  <2>4. \A j \in Moved : latest'.at[j] = arm[j]
    BY <2>1, <2>2, ParametersAre
  <2> QED BY <1>1, <2>1, <2>3, <2>4 DEF LooksAlike
<1>4. CASE GoalArrives
  <2>1. run' = "following" =>
          ~follower'.haveNow /\ follower'.settlingFor = 0 /\ follower'.state # "SETTLING"
    BY <1>4, GoalArrivesIs
  <2>2. stamp'.age \in Nat
    <3>1. MaxAge \in Nat /\ stamp' \in [age : 0..MaxAge, place : Nat]
      BY <1>2 DEF Types, ExecutorTypes
    <3> QED BY <3>1
  <2> QED BY <2>1, <2>2 DEF LooksAlike
<1>5. CASE Turn
  <2>1. run = "following" /\ UNCHANGED <<latest, arm>>
    BY <1>5, TurnIs
  <2>2. CASE StopOnRequest
    <3>1. run' # "following"
      BY <2>2, StopOnRequestIs
    <3> QED BY <3>1 DEF LooksAlike
  <2>3. CASE Follow
    <3> DEFINE g == Tick(Measured)
               m == Measured
    <3>1. /\ Fresh /\ Ready(m) /\ m.state = follower.state
          /\ m.settlingFor = follower.settlingFor
          /\ m.haveNow => m.now = latest.at
          /\ ~m.haveNow => follower.settlingFor <= latest.stamp.age
      BY <1>1, <2>1, TurnLooks
    <3>2. stamp' = latest.stamp /\ (run' = "following" => follower' = g)
      <4>1. g = Tick(Measured)
        OBVIOUS
      <4> HIDE DEF g
      <4> QED BY <2>3, <3>1, <4>1, FollowIs
    <3>3. /\ g.settlingFor = m.settlingFor /\ g.now = m.now /\ g.haveNow = m.haveNow
          /\ g.state = "SETTLING" => m.state = "SETTLING" \/ m.settlingFor = 0
      <4>1. /\ g.settlingFor = m.settlingFor /\ g.now = m.now /\ g.haveNow = m.haveNow
            /\ g.state = "SETTLING" => m.state \in {"SENDING", "SETTLING"}
        BY <3>1, TickIs
      <4>2. m.state = "SENDING" => m.settlingFor = 0
        BY <3>1 DEF Ready
      <4> QED BY <4>1, <4>2
    <3> HIDE DEF g, m
    <3>4. SUFFICES ASSUME run' = "following" PROVE LooksAlike'
      BY DEF LooksAlike
    <3>5. follower'.haveNow => follower'.now = latest.at
      BY <3>1, <3>2, <3>3, <3>4
    <3>6. ~follower'.haveNow => follower'.settlingFor <= stamp'.age
      BY <3>1, <3>2, <3>3, <3>4
    <3>7. ASSUME follower'.state = "SETTLING", follower'.settlingFor >= Crossing + 1 + latest.stamp.age
          PROVE  \A j \in Moved : latest.at[j] = arm[j]
      <4>1. latest \in Message
        BY <2>1, FollowerIs
      <4>2. follower'.settlingFor # 0
        BY <1>2, <3>7, <4>1, StampsAre
      <4>3. follower.state = "SETTLING" /\ follower'.settlingFor = follower.settlingFor
        BY <3>1, <3>2, <3>3, <3>4, <3>7, <4>2
      <4> QED BY <1>1, <2>1, <3>7, <4>3 DEF LooksAlike
    <3> QED BY <2>1, <3>2, <3>5, <3>6, <3>7 DEF LooksAlike
  <2> QED BY <1>5, <2>2, <2>3, TurnIs
<1>6. CASE Elapse
  <2>1. SUFFICES ASSUME run' = "following" PROVE LooksAlike'
    BY DEF LooksAlike
  <2>2. /\ run = "following" /\ turned
        /\ latest \in Message /\ latest'.at = latest.at /\ latest'.stamp = Older(latest.stamp)
        /\ stamp' = Older(stamp)
        /\ follower.state # "SETTLING" => follower' = follower
        /\ follower.state = "SETTLING" => follower'.settlingFor = follower.settlingFor + 1
        /\ follower'.state = follower.state
        /\ follower'.now = follower.now /\ follower'.haveNow = follower.haveNow
    BY <1>6, <2>1, ElapseIs, FollowerIs
  <2>3. /\ stamp.age \in Nat /\ stamp.age <= SlowestPoll /\ stamp.place = 1
        /\ latest.stamp.age \in Nat /\ latest.stamp.age <= SlowestPoll /\ latest.stamp.place = 1
        /\ stamp \in [age : 0..MaxAge, place : Nat] /\ latest.stamp \in [age : 0..MaxAge, place : Nat]
    BY <1>1, <2>2, StampsAre DEF ReadingAges
  <2>4. /\ stamp'.age = stamp.age + 1 /\ latest'.stamp.age = latest.stamp.age + 1
        /\ stamp' = latest'.stamp => stamp = latest.stamp
    <3>1. stamp'.age = stamp.age + 1
      BY <1>2, <2>2, <2>3, OlderIs
    <3>2. latest'.stamp.age = latest.stamp.age + 1
      BY <1>2, <2>2, <2>3, OlderIs
    <3>3. stamp' = latest'.stamp => stamp.age = latest.stamp.age
      BY <2>3, <3>1, <3>2
    <3>4. stamp.age = latest.stamp.age => stamp = latest.stamp
      BY <2>3
    <3> QED BY <3>1, <3>2, <3>3, <3>4
  <2>5. follower.settlingFor \in Nat /\ follower.state \in {"SENDING", "SETTLING", "REACHED"}
    BY <2>2, FollowerIs
  <2>6. ASSUME follower.state = "SETTLING", follower.settlingFor >= Crossing + 1
        PROVE  \A j \in Moved : arm'[j] = arm[j]
    <3>1. /\ \A j \in Moved : aim[j] = goal[j]
          /\ \A j \in Moved \ held : arm[j] = goal[j]
      BY <2>2, <2>6, ArmIsThere DEF settling
    <3>2. ASSUME NEW j \in Moved \ held PROVE arm'[j] = arm[j]
      <4>1. j \in D!Joints \ held /\ arm'[j] = D!Moves(j) /\ aim[j] = arm[j]
        BY <1>6, <3>1, <3>2, ElapseIs, ParametersAre
      <4> QED BY <4>1, MovesIs
    <3>3. \A j \in held : arm'[j] = arm[j]
      BY <1>6, ElapseIs
    <3> QED BY <3>2, <3>3
  <2>7. follower.haveNow /\ stamp' = latest'.stamp => follower'.now = latest'.at
    BY <1>1, <2>2, <2>4 DEF LooksAlike
  <2>8. ~follower.haveNow => follower'.settlingFor <= stamp'.age
    <3>1. ~follower.haveNow => follower.settlingFor <= stamp.age
      BY <1>1, <2>2 DEF LooksAlike
    <3> QED BY <2>2, <2>3, <2>4, <2>5, <3>1
  <2>9. ASSUME follower.state = "SETTLING", follower'.settlingFor >= Crossing + 1 + latest'.stamp.age
        PROVE  \A j \in Moved : latest'.at[j] = arm'[j]
    <3>1. /\ follower.settlingFor >= Crossing + 1 + latest.stamp.age
          /\ follower.settlingFor >= Crossing + 1
      BY <1>2, <2>2, <2>3, <2>4, <2>5, <2>9
    <3>2. \A j \in Moved : latest.at[j] = arm[j]
      BY <1>1, <2>2, <2>9, <3>1 DEF LooksAlike
    <3> QED BY <2>2, <2>6, <2>9, <3>1, <3>2
  <2>10. ASSUME follower.state = "SETTLING", follower.haveNow,
                follower'.settlingFor >= Crossing + 1 + stamp'.age
         PROVE  \A j \in Moved : follower'.now[j] = arm'[j]
    <3>1. /\ follower.settlingFor >= Crossing + 1 + stamp.age
          /\ follower.settlingFor >= Crossing + 1
      BY <1>2, <2>2, <2>3, <2>4, <2>5, <2>10
    <3>2. \A j \in Moved : follower.now[j] = arm[j]
      BY <1>1, <2>2, <2>10, <3>1 DEF LooksAlike
    <3> QED BY <2>2, <2>6, <2>10, <3>1, <3>2
  <2> QED BY <2>2, <2>7, <2>8, <2>9, <2>10 DEF LooksAlike
<1>7. CASE Poll \/ OnJointTargets \/ OnStandby \/ PreemptArrives \/ GoalEnds \/ Touch \/ UNCHANGED vars
  <2>1. /\ UNCHANGED <<follower, latest, stamp, arm>>
        /\ run' = "following" => run = "following"
    BY <1>7, PollIs, OnJointTargetsIs, OnStandbyIs, PreemptArrivesIs, GoalEndsIs, TouchIs, StutterIs
  <2> QED BY <1>1, <2>1 DEF LooksAlike
<1> QED
  BY <1>3, <1>4, <1>5, <1>6, <1>7 DEF Next, Loops, Call

\* Long after the arm has come where it can, the loop sees it where it is.
LEMMA SeesTheArm ==
  ASSUME SlowestPoll <= FeedbackTimeout, Types, Ages, Looks, misses = 0, settling,
         follower.settlingFor >= Crossing + SlowestPoll + 1
  PROVE  Measured.haveNow /\ \A j \in Moved : Measured.now[j] = arm[j]
<1>1. run = "following" /\ follower.state = "SETTLING" /\ follower.settlingFor \in Nat
  BY FollowerIs DEF settling
<1>2. /\ latest \in Message
      /\ Measured.haveNow => Measured.now = latest.at
      /\ ~Measured.haveNow => follower.settlingFor <= latest.stamp.age
  BY <1>1, TurnLooks
<1>3. latest.stamp.age <= SlowestPoll /\ latest.stamp.age \in Nat
  BY <1>2, StampsAre DEF Ages, ReadingAges
<1>4. SlowestPoll \in Nat /\ Crossing \in Nat \ {0}
  BY ParametersAre, CrossingIs
<1>5. Measured.haveNow
  BY <1>1, <1>2, <1>3, <1>4
<1>6. follower.settlingFor >= Crossing + 1 + latest.stamp.age
  BY <1>1, <1>3, <1>4
<1>7. \A j \in Moved : latest.at[j] = arm[j]
  BY <1>1, <1>6 DEF Looks, LooksAlike
<1> QED BY <1>2, <1>5, <1>7

\* A turn that gives up, with every joint answering: it has waited for longer than the time
\* of the arrival, it sees the arm where it is, and has not taken it for arrived.
LEMMA GivesUp ==
  ASSUME PathsAreLegal, ArrivalIsTimely, Types, Ages, Settles, Looks, misses = 0,
         Follow, Tick(Measured).state = "STALLED"
  PROVE  /\ settling /\ follower.settlingFor > ArrivalTimeout
         /\ held # {}
<1> DEFINE g == Tick(Measured)
<1>1. run = "following" /\ SlowestPoll <= FeedbackTimeout /\ Crossing + SlowestPoll <= ArrivalTimeout
  BY DEF Follow, ArrivalIsTimely
<1>2. /\ Ready(Measured) /\ Measured.state = follower.state /\ Measured.path = follower.path
      /\ Measured.settlingFor = follower.settlingFor
  BY <1>1, TurnLooks
<1>3. /\ g.settlingFor = Measured.settlingFor
      /\ Measured.state = "SETTLING" /\ ~Arrived(Measured) /\ g.settlingFor > ArrivalTimeout
  BY <1>2, TickIs
<1> HIDE DEF g
<1>4. settling /\ follower.settlingFor > ArrivalTimeout
  BY <1>1, <1>2, <1>3 DEF settling
<1>5. follower.settlingFor >= Crossing + SlowestPoll + 1 /\ follower.settlingFor >= Crossing + 1
  BY <1>1, <1>4, FollowerIs, ParametersAre, CrossingIs
<1>6. Measured.haveNow /\ \A j \in Moved : Measured.now[j] = arm[j]
  BY <1>1, <1>4, <1>5, SeesTheArm
<1>7. ASSUME held = {} PROVE FALSE
  <2>1. \A j \in Moved : arm[j] = goal[j]
    BY <1>4, <1>5, <1>7, ArmIsThere
  <2>2. Last(Measured.path) = goal
    <3>1. Measured.path # <<>> /\ Measured.path \in Seq(Pose)
      BY <1>2, <1>3 DEF Ready, Followers
    <3> QED BY <1>1, <1>2, <3>1, FollowerIs DEF Last
  <2>3. ASSUME NEW j \in Moved PROVE Distance(Measured.now[j], Last(Measured.path)[j]) <= Tolerance
    <3>1. Measured.now[j] = goal[j] /\ goal[j] \in Int
      BY <1>6, <2>1, ArmIs
    <3>2. Tolerance \in Nat
      BY FollowAssumption
    <3> QED BY <2>2, <3>1, <3>2 DEF Distance
  <2> QED BY <1>3, <1>6, <2>3 DEF Arrived
<1> QED BY <1>4, <1>7

\* The verdict stays as it is until the next goal, and STALLED is one that the loop gave.
LEMMA VerdictIs ==
  ASSUME Types, [Next]_vars, verdict' = "stalled"
  PROVE  \/ verdict = "stalled" /\ goal' = goal
         \/ Turn /\ Follow /\ Tick(Measured).state = "STALLED"
<1>1. CASE GoalArrives
  BY <1>1, GoalArrivesIs
<1>2. CASE Turn
  <2>1. goal' = goal
    BY <1>2, TurnIs
  <2>2. CASE StopOnRequest
    BY <2>2, StopOnRequestIs
  <2>3. CASE Follow
    <3> DEFINE g == Tick(Measured)
    <3>1. g.state = "STALLED" \/ verdict' = verdict \/ verdict' = "blocked"
      <4>1. g = Tick(Measured)
        OBVIOUS
      <4> HIDE DEF g
      <4> QED BY <2>3, <4>1, FollowIs
    <3> HIDE DEF g
    <3>2. g.state = "STALLED" \/ verdict = "stalled"
      BY <3>1
    <3> QED BY <1>2, <2>1, <2>3, <3>2 DEF g
  <2> QED BY <1>2, <2>2, <2>3, TurnIs
<1>3. CASE ~GoalArrives /\ ~Turn
  BY <1>3, PollIs, OnJointTargetsIs, OnStandbyIs, ReadingArrivesIs, PreemptArrivesIs,
     ElapseIs, GoalEndsIs, TouchIs, StutterIs DEF Next, Loops, Call
<1> QED BY <1>1, <1>2, <1>3

\* All that the verdicts rest on.
Seen == Types /\ Ages /\ Settles /\ Looks

\* It always holds, for any arm and any legal paths.
LEMMA SeenAlways ==
  ASSUME PathsAreLegal, SlowestPoll <= FeedbackTimeout
  PROVE  Spec => []Seen
<1>1. Init => Seen
  BY TypesAtFirst, AgesAtFirst, SettlesAtFirst, LooksAtFirst DEF Seen
<1>2. Seen /\ [Next]_vars => Seen'
  <2> SUFFICES ASSUME Seen, [Next]_vars PROVE Seen'
    OBVIOUS
  <2>1. Types /\ Ages /\ Settles /\ Looks
    BY DEF Seen
  <2>2. Types'
    BY <2>1, TypesKept
  <2>3. Ages' /\ Settles'
    BY <2>1, <2>2, AgesKept, SettlesKept
  <2>4. Looks'
    BY <2>1, <2>2, <2>3, LooksKept
  <2> QED BY <2>2, <2>3, <2>4 DEF Seen
<1> QED BY <1>1, <1>2, PTL DEF Spec

\* A goal that is answered "stalled" has a cause: something holds a joint, or a joint did not
\* answer.  For any arm and any legal paths, if the time of the arrival is long enough to cross
\* the range and be read there.
THEOREM StallsHaveCause ==
  ASSUME PathsAreLegal, ArrivalIsTimely
  PROVE  Spec => []StallHasCause
<1>1. Init => StallHasCause
  BY DEF Init, ExecutorInit, StallHasCause
<1>2. Seen /\ StallHasCause /\ [Next]_vars => StallHasCause'
  <2> SUFFICES ASSUME Seen, StallHasCause, [Next]_vars, verdict' = "stalled"
               PROVE  held' # {} \/ misses' > 0
    BY DEF StallHasCause
  <2>1. Types /\ Ages /\ Settles /\ Looks /\ misses \in Nat
    BY StampsAre DEF Seen
  <2>2. misses' >= misses /\ misses' \in Nat /\ (held # {} => held' = held)
    <3>1. misses' >= misses /\ (held # {} => held' = held)
      BY <2>1, MissesStay
    <3>2. misses' \in Nat
      BY <2>1, TypesKept DEF Types, StepTypes
    <3> QED BY <3>1, <3>2
  <2>3. CASE verdict = "stalled"
    BY <2>1, <2>2, <2>3 DEF StallHasCause
  <2>4. CASE verdict # "stalled"
    <3>1. Follow /\ Tick(Measured).state = "STALLED"
      BY <2>1, <2>4, VerdictIs
    <3>2. misses = 0 => held # {}
      BY <2>1, <3>1, GivesUp
    <3> QED BY <2>1, <2>2, <3>2
  <2> QED BY <2>3, <2>4
<1>3. Spec => []Seen
  BY SeenAlways DEF ArrivalIsTimely
<1> QED BY <1>1, <1>2, <1>3, PTL DEF Spec

-------------------------------------------------------------------------------
(* Contact is reported in time.                                            *)

\* A joint that something holds is this far from where the path leads.
Short(j) == Distance(arm[j], goal[j]) >= Tolerance + MinStep

\* The time that a goal can have waited after n strikes: the time to cross the range, and the
\* wait for each of as many readings, of which every one is a strike.
Counted(n) == stamp.age + Crossing + (SlowestPoll + 1) * (n + 1)

\* A goal with a held joint far from its end has not waited for longer than that.
Strikeful ==
  settling /\ misses = 0 =>
    \A j \in held : Short(j) => follower.settlingFor <= Counted(follower.strikes)

\* One reading more, and one wait for a reading more.
LEMMA CountedIs ==
  ASSUME NEW n \in Nat
  PROVE  /\ (SlowestPoll + 1) * (n + 1) \in Nat
         /\ (SlowestPoll + 1) * ((n + 1) + 1) = (SlowestPoll + 1) * (n + 1) + (SlowestPoll + 1)
         /\ (SlowestPoll + 1) * (n + 1) >= SlowestPoll + 1
         /\ \A m \in Nat : m <= n => (SlowestPoll + 1) * (m + 1) <= (SlowestPoll + 1) * (n + 1)
<1> DEFINE p == SlowestPoll + 1
<1>1. p \in Nat \ {0}
  BY ParametersAre
<1> HIDE DEF p
<1>2. p * (n + 1) \in Nat /\ p * ((n + 1) + 1) = p * (n + 1) + p /\ p * (n + 1) >= p
  <2>1. p * n \in Nat /\ p * (n + 1) = p * n + p /\ p * ((n + 1) + 1) = p * n + p + p
    BY <1>1
  <2> QED BY <1>1, <2>1
<1>3. ASSUME NEW m \in Nat, m <= n PROVE p * (m + 1) <= p * (n + 1)
  <2>1. n - m \in Nat /\ p * (n - m) \in Nat
    BY <1>1, <1>3
  <2>2. p * (n + 1) = p * (m + 1) + p * (n - m)
    BY <1>1, <1>3
  <2> QED BY <1>1, <2>1, <2>2
<1> QED BY <1>2, <1>3 DEF p

\* A joint that stands still, far from the goal, has not closed in on it.
LEMMA StandsStill ==
  ASSUME MinStep <= MaxStep, NEW f, Ready(f), f.haveNow, f.havePrevious, NEW j \in Moved,
         f.path # <<>>, f.path[Len(f.path)] = goal, NEW a \in Int, goal[j] \in Int,
         f.now[j] = a, f.previous[j] = a, Distance(a, goal[j]) >= Tolerance + MinStep
  PROVE  JointNotClosingIn(f)
<1> DEFINE before == Distance(goal[j], a)
           owed == Least(before - Tolerance, MaxStep)
<1>1. /\ before \in Nat /\ before >= Tolerance + MinStep
  BY DistanceIs
<1>2. Tolerance \in Nat /\ MinStep \in Nat \ {0} /\ MaxStep \in Nat /\ FollowShare \in Nat
  BY FollowAssumption
<1> HIDE DEF before
<1>3. owed >= MinStep /\ owed \in Int
  BY <1>1, <1>2 DEF Least
<1> HIDE DEF owed
<1>4. (before - before) * FollowShare < owed
  BY <1>1, <1>2, <1>3
<1>5. Last(f.path) = goal
  <2>1. f.path \in Seq(Pose)
    BY DEF Ready, Followers
  <2> QED BY <2>1 DEF Last
<1>6. /\ before = Distance(Last(f.path)[j], f.previous[j])
      /\ before = Distance(Last(f.path)[j], f.now[j])
      /\ owed = Least(before - Tolerance, MaxStep)
  BY <1>5 DEF before, owed
<1> QED BY <1>3, <1>4, <1>6 DEF JointNotClosingIn

\* A turn while a joint is held far from the goal: the time is accounted for by the strikes it
\* comes to.
LEMMA StrikesAreEarned ==
  ASSUME SlowestPoll <= FeedbackTimeout, MinStep <= MaxStep,
         Types, Ages, Settles, Looks, Strikeful, misses = 0, settling, NEW j \in held, Short(j),
         Follow, NEW g, g = Tick(Measured), g.state \in {"SETTLING", "STALLED"}
  PROVE  /\ g.settlingFor = follower.settlingFor /\ g.strikes \in Nat /\ g.strikes < Strikes
         /\ latest.stamp.age <= SlowestPoll /\ latest.stamp.age \in Nat
         /\ stamp' = latest.stamp
         /\ follower.settlingFor <= latest.stamp.age + Crossing + (SlowestPoll + 1) * (g.strikes + 1)
<1>1. run = "following" /\ follower.state = "SETTLING" /\ j \in Moved
  BY DEF settling, Types, StepTypes
<1>2. /\ Fresh /\ Ready(Measured) /\ latest \in Message
      /\ Measured.path = follower.path /\ Measured.state = follower.state
      /\ Measured.settlingFor = follower.settlingFor
      /\ latest.stamp # stamp =>
           /\ Measured.haveNow /\ Measured.now = latest.at /\ Measured.unjudged
           /\ Measured.strikes = follower.strikes
           /\ Measured.previous = follower.previous
           /\ Measured.havePrevious = follower.havePrevious
      /\ latest.stamp = stamp => Measured = follower
  BY <1>1, TurnLooks
<1>3. /\ g.settlingFor = Measured.settlingFor
      /\ g.strikes \in Nat /\ g.strikes < Strikes
      /\ ~Measured.unjudged => g.strikes = Measured.strikes
      /\ Measured.unjudged => g.strikes = IF JointNotClosingIn(Measured) THEN Measured.strikes + 1 ELSE 0
  BY <1>1, <1>2, TickIs
<1>4. stamp' = latest.stamp
  BY <1>2, FollowIs
<1>5. /\ latest.stamp.age <= SlowestPoll /\ latest.stamp.age \in Nat
      /\ stamp.age <= SlowestPoll + 1 /\ stamp.age \in Nat
  BY <1>1, <1>2, StampsAre DEF Ages, ReadingAges
<1>6. /\ SlowestPoll \in Nat /\ Crossing \in Nat
      /\ Judged(follower) /\ follower.settlingFor \in Nat /\ follower.strikes \in Nat
  BY <1>1, ParametersAre, CrossingIs, FollowerIs
<1>7. follower.settlingFor <= stamp.age + Crossing + (SlowestPoll + 1) * (follower.strikes + 1)
  BY DEF Strikeful, Counted
<1>8. CASE latest.stamp = stamp
  <2>1. g.strikes = follower.strikes
    BY <1>2, <1>3, <1>6, <1>8 DEF Judged
  <2> QED BY <1>2, <1>3, <1>4, <1>5, <1>7, <1>8, <2>1
<1>9. CASE latest.stamp # stamp /\ follower.settlingFor <= latest.stamp.age + Crossing + (SlowestPoll + 1)
  <2>1. (SlowestPoll + 1) * (g.strikes + 1) >= SlowestPoll + 1 /\ (SlowestPoll + 1) * (g.strikes + 1) \in Nat
    BY <1>3, CountedIs
  <2> QED BY <1>2, <1>3, <1>4, <1>5, <1>6, <1>9, <2>1
<1>10. CASE latest.stamp # stamp /\ ~(follower.settlingFor <= latest.stamp.age + Crossing + (SlowestPoll + 1))
  <2>1. /\ follower.settlingFor >= Crossing + 1 + stamp.age
        /\ follower.settlingFor >= Crossing + 1 + latest.stamp.age
        /\ ~(follower.settlingFor <= stamp.age)
    BY <1>5, <1>6, <1>10
  <2>2. follower.haveNow /\ follower.now[j] = arm[j] /\ latest.at[j] = arm[j]
    BY <1>1, <2>1 DEF Looks, LooksAlike
  <2>3. follower.havePrevious /\ follower.previous = follower.now
    BY <1>6, <2>2 DEF Judged, Ready
  <2>4. /\ Measured.haveNow /\ Measured.havePrevious
        /\ Measured.now[j] = arm[j] /\ Measured.previous[j] = arm[j]
    BY <1>2, <1>10, <2>2, <2>3
  <2>5. arm[j] \in Int /\ goal[j] \in Int
    BY <1>1, ArmIs, ArmAssumption DEF Settles
  <2>6. Measured.path # <<>> /\ Measured.path[Len(Measured.path)] = goal
    <3>1. follower.path # <<>>
      BY <1>1, <1>6 DEF Judged, Ready
    <3> QED BY <1>1, <1>2, <3>1, FollowerIs
  <2>7. JointNotClosingIn(Measured)
    BY <1>1, <1>2, <2>4, <2>5, <2>6, StandsStill DEF Short
  <2>8. g.strikes = follower.strikes + 1
    BY <1>2, <1>3, <1>10, <2>7
  <2>9. /\ (SlowestPoll + 1) * ((follower.strikes + 1) + 1)
             = (SlowestPoll + 1) * (follower.strikes + 1) + (SlowestPoll + 1)
        /\ (SlowestPoll + 1) * (follower.strikes + 1) \in Nat
    BY <1>6, CountedIs
  <2>10. follower.settlingFor <= latest.stamp.age + Crossing + (SlowestPoll + 1) * ((follower.strikes + 1) + 1)
    <3> DEFINE all == (SlowestPoll + 1) * (follower.strikes + 1)
    <3>1. /\ all \in Nat /\ follower.settlingFor <= stamp.age + Crossing + all
          /\ (SlowestPoll + 1) * ((follower.strikes + 1) + 1) = all + (SlowestPoll + 1)
      BY <1>7, <2>9
    <3> HIDE DEF all
    <3> QED BY <1>5, <1>6, <3>1
  <2> QED BY <1>2, <1>3, <1>4, <1>5, <2>8, <2>10
<1> QED BY <1>8, <1>9, <1>10

\* At first no goal settles.
LEMMA StrikefulAtFirst == Init => Strikeful
BY DEF Init, ExecutorInit, Strikeful, settling

\* Every step keeps it: when time passes, either the wait was shorter still, or a reading comes
\* and strikes.
LEMMA StrikefulKept ==
  ASSUME SlowestPoll <= FeedbackTimeout, MinStep <= MaxStep,
         Types, Types', Ages, Settles, Looks, Strikeful, [Next]_vars
  PROVE  Strikeful'
<1> SUFFICES ASSUME settling', misses' = 0, NEW j \in held', Short(j)'
             PROVE  follower'.settlingFor <= Counted(follower.strikes)'
  BY DEF Strikeful
<1>1. misses = 0 /\ j \in Moved /\ run' = "following" /\ follower'.state = "SETTLING"
  BY MissesStay DEF settling, Types, StepTypes
<1>2. SlowestPoll \in Nat \ {0} /\ Crossing \in Nat \ {0} /\ MaxAge \in Nat /\ SlowestPoll < MaxAge
  BY ParametersAre, CrossingIs
<1>3. CASE GoalArrives
  BY <1>1, <1>3, GoalArrivesIs
<1>4. CASE Turn
  <2>1. run = "following" /\ UNCHANGED <<arm, held, goal>>
    BY <1>4, TurnIs
  <2>2. Follow
    BY <1>1, <1>4, TurnIs, StopOnRequestIs
  <2> DEFINE g == Tick(Measured)
  <2>3. Ready(Measured) /\ follower' = g
    <3>1. g = Tick(Measured)
      OBVIOUS
    <3> HIDE DEF g
    <3> QED BY <1>1, <2>2, <3>1, FollowIs
  <2>4. Judged(follower) /\ latest \in Message
    BY <2>1, FollowerIs
  <2>5. Measured.state = follower.state /\ Measured.settlingFor = follower.settlingFor
    BY <2>4, MeasuredIs
  <2>6. CASE follower.state = "SETTLING"
    <3>1. settling /\ j \in held /\ Short(j)
      BY <2>1, <2>6 DEF settling, Short
    <3>2. g = Tick(Measured) /\ g.state \in {"SETTLING", "STALLED"}
      BY <1>1, <2>3
    <3> HIDE DEF g
    <3>3. /\ g.settlingFor = follower.settlingFor /\ stamp' = latest.stamp
          /\ follower.settlingFor <= latest.stamp.age + Crossing + (SlowestPoll + 1) * (g.strikes + 1)
      BY <1>1, <2>2, <3>1, <3>2, StrikesAreEarned
    <3> QED BY <2>3, <3>3 DEF Counted
  <2>7. CASE follower.state # "SETTLING"
    <3>1. g.settlingFor = follower.settlingFor /\ g.strikes \in Nat
      <4>1. g.settlingFor = Measured.settlingFor /\ (g.state = "SETTLING" => Judged(g))
        BY <2>3, TickIs
      <4>2. Judged(g)
        BY <1>1, <2>3, <4>1
      <4> HIDE DEF g
      <4> QED BY <2>5, <4>1, <4>2 DEF Judged, Ready, Followers
    <3>2. Measured.state = "SENDING"
      <4>1. g.state = "SETTLING" => Measured.state \in {"SENDING", "SETTLING"}
        BY <2>3, TickIs
      <4> HIDE DEF g
      <4> QED BY <1>1, <2>3, <2>5, <2>7, <4>1
    <3> HIDE DEF g
    <3>3. follower.settlingFor = 0
      BY <2>1, <2>5, <3>2, FollowerIs
    <3>4. (SlowestPoll + 1) * (g.strikes + 1) \in Nat /\ stamp'.age \in Nat
      <4>1. stamp' \in [age : 0..MaxAge, place : Nat]
        BY DEF Types, ExecutorTypes
      <4> QED BY <1>2, <3>1, <4>1, CountedIs
    <3> QED BY <1>2, <2>3, <3>1, <3>3, <3>4 DEF Counted
  <2> QED BY <2>6, <2>7
<1>5. CASE Elapse
  <2>1. /\ run = "following" /\ turned /\ stamp' = Older(stamp)
        /\ follower'.state = follower.state /\ follower'.strikes = follower.strikes
        /\ follower.state = "SETTLING" => follower'.settlingFor = follower.settlingFor + 1
        /\ \A k \in held : arm'[k] = arm[k]
        /\ held' = held /\ goal' = goal
    BY <1>1, <1>5, ElapseIs
  <2>2. settling /\ Short(j) /\ j \in held
    <3>1. arm'[j] = arm[j]
      BY <2>1
    <3> QED BY <1>1, <2>1, <3>1 DEF settling, Short
  <2>3. stamp'.age = stamp.age + 1
    <3>1. stamp.age <= SlowestPoll /\ stamp.age \in Nat /\ stamp \in [age : 0..MaxAge, place : Nat]
      BY <1>1, <2>1, StampsAre DEF Ages, ReadingAges
    <3> QED BY <1>2, <2>1, <3>1, OlderIs
  <2>4. follower.settlingFor <= Counted(follower.strikes)
    BY <1>1, <2>2 DEF Strikeful
  <2>5. /\ (SlowestPoll + 1) * (follower.strikes + 1) \in Nat /\ stamp.age \in Nat
        /\ follower.settlingFor \in Nat
    BY <2>1, FollowerIs, CountedIs, StampsAre
  <2> QED BY <1>1, <1>2, <2>1, <2>3, <2>4, <2>5 DEF Counted
<1>6. CASE Touch
  <2>1. UNCHANGED <<run, follower, stamp, arm, goal>> /\ held = {}
    BY <1>6, TouchIs
  <2>2. settling /\ Short(j)
    BY <1>1, <2>1 DEF settling, Short
  <2>3. /\ follower.settlingFor \in Nat /\ follower.strikes \in Nat /\ stamp.age \in Nat
        /\ (SlowestPoll + 1) * (follower.strikes + 1) \in Nat
    BY <2>2, FollowerIs, StampsAre, CountedIs DEF settling
  <2>4. ~(follower.settlingFor >= Crossing + 1)
    <3> SUFFICES ASSUME follower.settlingFor >= Crossing + 1 PROVE FALSE
      OBVIOUS
    <3>1. arm[j] = goal[j]
      BY <1>1, <2>1, <2>2, ArmIsThere
    <3>2. arm[j] \in Int /\ Tolerance \in Nat /\ MinStep \in Nat \ {0}
      BY <1>1, ArmIs, FollowAssumption
    <3> QED BY <2>2, <3>1, <3>2 DEF Short, Distance
  <2> QED BY <1>2, <2>1, <2>3, <2>4 DEF Counted
<1>7. CASE Poll \/ OnJointTargets \/ OnStandby \/ ReadingArrives \/ PreemptArrives \/ GoalEnds \/ UNCHANGED vars
  <2>1. UNCHANGED <<follower, stamp, arm, held, goal>> /\ (run' = "following" => run = "following")
    BY <1>7, PollIs, OnJointTargetsIs, OnStandbyIs, ReadingArrivesIs, PreemptArrivesIs, GoalEndsIs, StutterIs
  <2> QED BY <1>1, <2>1 DEF Strikeful, settling, Short, Counted
<1> QED
  BY <1>3, <1>4, <1>5, <1>6, <1>7 DEF Next, Loops, Call

\* A joint that something holds well short of the goal is reported as contact: an arm whose
\* joints answer is never called late because of it.  For any arm and any legal paths, if the
\* time of the arrival is long enough for the strikes too.
THEOREM ContactReported ==
  ASSUME PathsAreLegal, ContactIsTimely
  PROVE  Spec => []ContactIsReported
<1>1. ArrivalIsTimely /\ SlowestPoll <= FeedbackTimeout /\ MinStep <= MaxStep
  BY DEF ContactIsTimely, ArrivalIsTimely
<1>2. Init => Strikeful /\ ContactIsReported
  <2>1. Init => ContactIsReported
    BY DEF Init, ExecutorInit, ContactIsReported
  <2> QED BY <2>1, StrikefulAtFirst
<1>3. Seen /\ Seen' /\ Strikeful /\ [Next]_vars => Strikeful'
  BY <1>1, StrikefulKept DEF Seen
<1>4. Seen /\ Strikeful /\ StallHasCause /\ ContactIsReported /\ [Next]_vars => ContactIsReported'
  <2> SUFFICES ASSUME Seen, Strikeful, StallHasCause, ContactIsReported, [Next]_vars,
                      verdict' = "stalled", misses' = 0, NEW j \in held'
               PROVE  Distance(arm'[j], goal'[j]) < Tolerance + MinStep
    BY DEF ContactIsReported
  <2>1. Types /\ Ages /\ Settles /\ Looks
    BY DEF Seen
  <2>2. misses = 0 /\ (held # {} => held' = held)
    BY <2>1, MissesStay
  <2>3. ASSUME held' = held PROVE arm'[j] = arm[j]
    <3>1. CASE Elapse
      BY <2>1, <2>3, <3>1, ElapseIs
    <3>2. CASE ~Elapse
      BY <2>1, <3>2, PollIs, OnJointTargetsIs, OnStandbyIs, ReadingArrivesIs, GoalArrivesIs,
         PreemptArrivesIs, TurnIs, GoalEndsIs, TouchIs, StutterIs DEF Next, Loops, Call
    <3> QED BY <3>1, <3>2
  <2>4. CASE verdict = "stalled" /\ goal' = goal
    <3>1. held # {}
      BY <2>2, <2>4 DEF StallHasCause
    <3>2. held' = held /\ arm'[j] = arm[j]
      BY <2>2, <2>3, <3>1
    <3> QED BY <2>2, <2>4, <3>2 DEF ContactIsReported
  <2>5. CASE Turn /\ Follow /\ Tick(Measured).state = "STALLED"
    <3> DEFINE g == Tick(Measured)
    <3>1. held' = held /\ arm' = arm /\ goal' = goal /\ g.state = "STALLED" /\ g = Tick(Measured)
      BY <2>1, <2>5, TurnIs
    <3>2. settling /\ follower.settlingFor > ArrivalTimeout
      BY <1>1, <2>1, <2>2, <2>5, GivesUp
    <3> HIDE DEF g
    <3>3. SUFFICES ASSUME Short(j) PROVE FALSE
      <4>1. Distance(arm[j], goal[j]) \in Int
        <5>1. j \in Moved
          BY <2>1, <3>1 DEF Types, StepTypes
        <5>2. goal[j] \in Lower..Upper
          BY <2>1, <5>1 DEF Settles
        <5>3. arm[j] \in Int /\ goal[j] \in Int
          BY <2>1, <5>1, <5>2, ArmIs, ArmAssumption
        <5> QED BY <5>3 DEF Distance
      <4>2. Tolerance \in Nat /\ MinStep \in Nat
        BY FollowAssumption
      <4> QED BY <3>1, <4>1, <4>2 DEF Short
    <3>4. /\ g.strikes \in Nat /\ g.strikes < Strikes
          /\ latest.stamp.age <= SlowestPoll /\ latest.stamp.age \in Nat
          /\ follower.settlingFor <= latest.stamp.age + Crossing + (SlowestPoll + 1) * (g.strikes + 1)
      BY <1>1, <2>1, <2>2, <2>5, <3>1, <3>2, <3>3, StrikesAreEarned
    <3> DEFINE n == Strikes - 1
    <3>5. n \in Nat /\ g.strikes <= n /\ n + 1 = Strikes
      BY <3>4, ParametersAre
    <3> HIDE DEF n
    <3>6. /\ (SlowestPoll + 1) * (g.strikes + 1) <= (SlowestPoll + 1) * (n + 1)
          /\ (SlowestPoll + 1) * (n + 1) \in Nat /\ (SlowestPoll + 1) * (g.strikes + 1) \in Nat
      BY <3>4, <3>5, CountedIs
    <3>7. Crossing + SlowestPoll + Strikes * (SlowestPoll + 1) <= ArrivalTimeout
      BY DEF ContactIsTimely
    <3>8. (SlowestPoll + 1) * (n + 1) = Strikes * (SlowestPoll + 1)
      BY <3>5, ParametersAre
    <3>9. follower.settlingFor \in Nat
      BY <2>1, <3>2, FollowerIs DEF settling
    <3> DEFINE struck == (SlowestPoll + 1) * (g.strikes + 1)
               all == Strikes * (SlowestPoll + 1)
    <3>10. /\ struck \in Nat /\ all \in Nat /\ struck <= all
           /\ follower.settlingFor <= latest.stamp.age + Crossing + struck
           /\ Crossing + SlowestPoll + all <= ArrivalTimeout
      BY <3>4, <3>6, <3>7, <3>8
    <3> HIDE DEF struck, all
    <3>11. Crossing \in Nat /\ SlowestPoll \in Nat /\ ArrivalTimeout \in Nat
      BY ParametersAre, CrossingIs
    <3> QED BY <3>2, <3>4, <3>9, <3>10, <3>11
  <2> QED BY <2>1, <2>4, <2>5, VerdictIs
<1>5. Spec => []Seen
  BY <1>1, SeenAlways
<1>6. Spec => []StallHasCause
  BY <1>1, StallsHaveCause
<1> QED BY <1>2, <1>3, <1>4, <1>5, <1>6, PTL DEF Spec

-------------------------------------------------------------------------------
(* Where the arm is when a goal is reached.                                *)

\* A position that was true so many steps ago: no joint has gone further since than it can.
WasSo(where, at, age) ==
  age <= FeedbackTimeout => \A j \in Moved : Distance(where[j], at[j]) <= Speed * age

\* What the driver and the executor hold of the arm was so, as long ago as its stamp says.
Near ==
  /\ \A j \in D!Joints : readAt[j] <= FeedbackTimeout => Distance(arm[j], position[j]) <= Speed * readAt[j]
  /\ reading # <<>> => WasSo(arm, reading.at, reading.stamp.age)
  /\ latest \in Message => WasSo(arm, latest.at, latest.stamp.age)
  /\ run = "following" /\ follower.haveNow => WasSo(arm, follower.now, stamp.age)

\* One more step, and one step's way more.
LEMMA OneMoreStep ==
  ASSUME NEW a \in Int, NEW b \in Int, NEW c \in Int, NEW n \in Nat,
         Distance(c, a) <= Speed, Distance(a, b) <= Speed * n
  PROVE  Distance(c, b) <= Speed * (n + 1)
<1>1. Speed * n \in Int /\ Speed * (n + 1) = Speed * n + Speed /\ Speed \in Nat
  BY WayIs, ArmAssumption
<1> QED BY <1>1 DEF Distance

\* What was so still was so a step later, the step longer ago.
LEMMA StillWasSo ==
  ASSUME Types, Elapse, NEW at \in Looked, NEW age \in 0..MaxAge, WasSo(arm, at, age)
  PROVE  WasSo(arm', at, IF age < MaxAge THEN age + 1 ELSE age)
<1> DEFINE later == IF age < MaxAge THEN age + 1 ELSE age
<1>1. MaxAge = FeedbackTimeout + 1 /\ FeedbackTimeout \in Nat /\ Moved \subseteq D!Joints
  BY ParametersAre
<1>2. ASSUME later <= FeedbackTimeout, NEW j \in Moved PROVE Distance(arm'[j], at[j]) <= Speed * later
  <2>1. later = age + 1 /\ age <= FeedbackTimeout /\ age \in Nat
    BY <1>1, <1>2
  <2>2. Distance(arm[j], at[j]) <= Speed * age
    BY <2>1 DEF WasSo
  <2>3. Distance(arm'[j], arm[j]) <= Speed /\ arm'[j] \in Int /\ arm[j] \in Int /\ at[j] \in Int
    <3>1. j \in D!Joints /\ arm'[j] \in Lower..Upper
      BY <1>1, ElapseIs
    <3> QED BY <3>1, ElapseIs, ArmIs, LookedIs, ArmAssumption
  <2> HIDE DEF later
  <2> QED BY <2>1, <2>2, <2>3, OneMoreStep
<1> QED BY <1>2 DEF WasSo

\* At first nothing has been read.
LEMMA NearAtFirst == Init => Near
<1> SUFFICES ASSUME Init PROVE Near
  OBVIOUS
<1>1. run = "idle" /\ latest = NoReading /\ reading = <<>> /\ readAt = [j \in D!Joints |-> D!Unread]
  BY ParametersAre DEF Init, ExecutorInit, D!DriverInit
<1>2. \A j \in D!Joints : ~(readAt[j] <= FeedbackTimeout)
  <2>1. ~(D!Unread <= FeedbackTimeout)
    BY ParametersAre
  <2> QED BY <1>1, <2>1
<1> QED BY <1>1, <1>2, NothingIs DEF Near

\* Every step keeps it: time takes the arm a step further at most, and adds one to the age.
LEMMA NearKept ==
  ASSUME Types, Types', Near, [Next]_vars
  PROVE  Near'
<1>1. /\ FeedbackTimeout \in Nat /\ MaxAge \in Nat /\ MaxAge = FeedbackTimeout + 1
      /\ D!Unread = MaxAge + 1 /\ Moved \subseteq D!Joints /\ Speed \in Nat
      /\ Lower \in Int /\ Upper \in Int
  BY ParametersAre, ArmAssumption
<1>2. \A j \in D!Joints : arm[j] \in Int /\ position[j] \in Int /\ readAt[j] \in 0..D!Unread /\ readAt[j] \in Nat
  <2>1. /\ arm \in [D!Joints -> Lower..Upper] /\ position \in [D!Joints -> Int]
        /\ readAt \in [D!Joints -> 0..D!Unread]
    BY DEF Types, ArmTypes, D!TypeOK
  <2> QED BY <1>1, <2>1
<1>3. CASE Poll
  <2>1. PICK answered \in SUBSET D!Joints :
          /\ position' = [j \in D!Joints |-> IF j \in answered THEN arm[j] ELSE position[j]]
          /\ readAt' = [j \in D!Joints |-> IF j \in answered THEN 0 ELSE readAt[j]]
    BY <1>3, PollIs
  <2>2. UNCHANGED <<run, follower, latest, stamp, arm>>
    BY <1>3, PollIs
  <2>3. ASSUME NEW j \in D!Joints, readAt'[j] <= FeedbackTimeout
        PROVE  Distance(arm[j], position'[j]) <= Speed * readAt'[j]
    <3>1. CASE j \in answered
      <4>1. position'[j] = arm[j] /\ readAt'[j] = 0
        BY <2>1, <3>1
      <4>2. Distance(arm[j], arm[j]) = 0
        BY <1>2 DEF Distance
      <4>3. Speed * 0 = 0
        BY <1>1
      <4> QED BY <4>1, <4>2, <4>3
    <3>2. CASE j \notin answered
      <4>1. position'[j] = position[j] /\ readAt'[j] = readAt[j]
        BY <2>1, <3>2
      <4> QED BY <2>3, <4>1 DEF Near
    <3> QED BY <3>1, <3>2
  <2>4. ASSUME reading' # reading, reading' # <<>> PROVE WasSo(arm', reading'.at, reading'.stamp.age)
    <3>1. /\ reading' \in Message /\ reading'.at = position'
          /\ \A l \in D!Joints : readAt'[l] <= reading'.stamp.age
      BY <1>3, <2>4, PollIs
    <3>2. reading'.stamp.age \in 0..MaxAge
      BY <3>1, MessageIs
    <3>3. ASSUME reading'.stamp.age <= FeedbackTimeout, NEW j \in Moved
          PROVE  Distance(arm'[j], reading'.at[j]) <= Speed * reading'.stamp.age
      <4>1. /\ j \in D!Joints /\ readAt'[j] \in Nat /\ readAt'[j] <= reading'.stamp.age
            /\ reading'.stamp.age \in Nat
        <5>1. j \in D!Joints
          BY <1>1
        <5>2. readAt'[j] \in Nat
          BY <1>2, <2>1, <5>1
        <5> QED BY <1>1, <3>1, <3>2, <5>1, <5>2
      <4>2. Distance(arm[j], position'[j]) <= Speed * readAt'[j]
        BY <1>1, <2>3, <3>3, <4>1
      <4>3. Speed * readAt'[j] <= Speed * reading'.stamp.age
        BY <4>1, WayIs
      <4>4. Speed * readAt'[j] \in Int /\ Speed * reading'.stamp.age \in Int
        BY <4>1, WayIs
      <4>5. Distance(arm[j], position'[j]) \in Int
        <5>1. position'[j] \in Int /\ arm[j] \in Int
          BY <1>2, <2>1, <4>1
        <5> QED BY <5>1 DEF Distance
      <4> QED BY <2>2, <3>1, <4>2, <4>3, <4>4, <4>5
    <3> QED BY <3>3 DEF WasSo
  <2>5. reading' = reading \/ reading' # <<>>
    BY <1>3, NothingIs, PollIs
  <2> QED BY <2>2, <2>3, <2>4, <2>5 DEF Near
<1>4. CASE ReadingArrives
  <2>1. /\ reading # <<>> /\ latest' = reading /\ reading' = <<>>
        /\ UNCHANGED <<run, follower, stamp, arm, position, readAt>>
    BY <1>4, ReadingArrivesIs, NothingIs
  <2> QED BY <2>1 DEF Near
<1>5. CASE GoalArrives
  <2>1. /\ run' = "following" => ~follower'.haveNow
        /\ UNCHANGED <<latest, reading, arm, position, readAt>>
    BY <1>5, GoalArrivesIs
  <2> QED BY <2>1 DEF Near
<1>6. CASE Turn
  <2>1. /\ run = "following" /\ UNCHANGED <<latest, reading, arm, position, readAt>>
    BY <1>6, TurnIs
  <2>2. CASE StopOnRequest
    <3>1. run' # "following"
      BY <2>2, StopOnRequestIs
    <3> QED BY <2>1, <3>1 DEF Near
  <2>3. CASE Follow
    <3> DEFINE g == Tick(Measured)
    <3>1. /\ Judged(follower) /\ latest \in Message /\ Ready(Measured)
          /\ stamp' = IF Fresh THEN latest.stamp ELSE NoStamp
          /\ run' = "following" => follower' = g
      <4>1. g = Tick(Measured)
        OBVIOUS
      <4> HIDE DEF g
      <4> QED BY <2>3, <4>1, FollowIs
    <3>2. g.now = Measured.now /\ g.haveNow = Measured.haveNow
      BY <3>1, TickIs
    <3> HIDE DEF g
    <3>3. /\ ~Fresh => ~Measured.haveNow
          /\ Fresh /\ latest.stamp # stamp => Measured.now = latest.at
          /\ Fresh /\ latest.stamp = stamp => Measured = follower
      BY <3>1, MeasuredIs
    <3>4. ASSUME run' = "following", follower'.haveNow PROVE WasSo(arm', follower'.now, stamp'.age)
      <4>1. Fresh /\ stamp' = latest.stamp /\ follower'.now = Measured.now /\ Measured.haveNow
        BY <3>1, <3>2, <3>3, <3>4
      <4>2. CASE latest.stamp # stamp
        BY <2>1, <3>1, <3>3, <4>1, <4>2 DEF Near
      <4>3. CASE latest.stamp = stamp
        BY <2>1, <3>1, <3>3, <4>1, <4>3 DEF Near
      <4> QED BY <4>2, <4>3
    <3> QED BY <2>1, <3>4 DEF Near
  <2> QED BY <1>6, <2>2, <2>3, TurnIs
<1>7. CASE Elapse
  <2>1. ASSUME NEW j \in D!Joints, readAt'[j] <= FeedbackTimeout
        PROVE  Distance(arm'[j], position'[j]) <= Speed * readAt'[j]
    <3>1. readAt'[j] = readAt[j] + 1 /\ readAt[j] <= FeedbackTimeout /\ position' = position
      <4>1. readAt'[j] = IF readAt[j] >= MaxAge THEN readAt[j] ELSE readAt[j] + 1
        BY <1>7, ElapseIs
      <4>2. position' = position
        BY <1>7, ElapseIs
      <4> QED BY <1>1, <1>2, <2>1, <4>1, <4>2
    <3>2. Distance(arm'[j], arm[j]) <= Speed /\ arm'[j] \in Int
      <4>1. arm'[j] \in Lower..Upper /\ Distance(arm'[j], arm[j]) <= Speed
        BY <1>7, ElapseIs
      <4> QED BY <1>1, <4>1
    <3>3. Distance(arm[j], position[j]) <= Speed * readAt[j]
      BY <3>1 DEF Near
    <3> QED BY <1>2, <3>1, <3>2, <3>3, OneMoreStep
  <2>2. reading' = <<>>
    BY <1>7, ElapseIs
  <2>3. ASSUME latest' \in Message PROVE WasSo(arm', latest'.at, latest'.stamp.age)
    <3>1. latest \in Message
      BY <1>7, <2>3, ElapseIs, NothingIs DEF Types, ExecutorTypes
    <3>2. latest'.at = latest.at /\ latest'.stamp = Older(latest.stamp)
      BY <1>7, <3>1, ElapseIs
    <3>3. latest.at \in Looked /\ latest.stamp.age \in 0..MaxAge /\ WasSo(arm, latest.at, latest.stamp.age)
      BY <3>1, MessageIs DEF Near
    <3>4. latest'.stamp.age = IF latest.stamp.age < MaxAge THEN latest.stamp.age + 1 ELSE latest.stamp.age
      BY <3>1, <3>2, OlderIs, StampsAre
    <3>5. WasSo(arm', latest.at, IF latest.stamp.age < MaxAge THEN latest.stamp.age + 1 ELSE latest.stamp.age)
      <4> DEFINE at == latest.at
                 age == latest.stamp.age
      <4>1. at \in Looked /\ age \in 0..MaxAge /\ WasSo(arm, at, age)
        BY <3>3
      <4> HIDE DEF at, age
      <4>2. WasSo(arm', at, IF age < MaxAge THEN age + 1 ELSE age)
        BY <1>7, <4>1, StillWasSo
      <4> QED BY <4>2 DEF at, age
    <3> QED BY <3>2, <3>4, <3>5
  <2>4. ASSUME run' = "following", follower'.haveNow PROVE WasSo(arm', follower'.now, stamp'.age)
    <3>1. run = "following" /\ stamp' = Older(stamp)
      BY <1>7, <2>4, ElapseIs
    <3>2. follower'.now = follower.now /\ follower.haveNow
      BY <1>7, <2>4, <3>1, ElapseIs
    <3>3. follower.now \in Looked
      BY <3>1, FollowerIs DEF Followers
    <3>4. stamp.age \in 0..MaxAge /\ WasSo(arm, follower.now, stamp.age)
      BY <3>1, <3>2, StampsAre DEF Near
    <3>5. stamp'.age = IF stamp.age < MaxAge THEN stamp.age + 1 ELSE stamp.age
      BY <3>1, OlderIs, StampsAre
    <3>6. WasSo(arm', follower.now, IF stamp.age < MaxAge THEN stamp.age + 1 ELSE stamp.age)
      <4> DEFINE at == follower.now
                 age == stamp.age
      <4>1. at \in Looked /\ age \in 0..MaxAge /\ WasSo(arm, at, age)
        BY <3>3, <3>4
      <4> HIDE DEF at, age
      <4>2. WasSo(arm', at, IF age < MaxAge THEN age + 1 ELSE age)
        BY <1>7, <4>1, StillWasSo
      <4> QED BY <4>2 DEF at, age
    <3> QED BY <3>2, <3>5, <3>6
  <2> QED BY <2>1, <2>2, <2>3, <2>4 DEF Near
<1>8. CASE OnJointTargets \/ OnStandby \/ PreemptArrives \/ GoalEnds \/ Touch \/ UNCHANGED vars
  <2>1. /\ UNCHANGED <<follower, latest, stamp, reading, arm, position, readAt>>
        /\ run' = "following" => run = "following"
    BY <1>8, OnJointTargetsIs, OnStandbyIs, PreemptArrivesIs, GoalEndsIs, TouchIs, StutterIs
  <2> QED BY <2>1 DEF Near
<1> QED
  BY <1>3, <1>4, <1>5, <1>6, <1>7, <1>8 DEF Next, Loops, Call

-------------------------------------------------------------------------------
(* What a step of a goal says.                                             *)

\* A goal that ends at once is one that has been reached: with no waypoint left to send, the
\* loop has just seen every joint close to the last one.
LEMMA ReachedIs ==
  ASSUME Types, [Next]_vars, run = "following", run' = "idle", follower.path # <<>>
  PROVE  /\ Follow /\ outcome' = "reached" /\ goal' = goal /\ arm' = arm /\ aim' = aim
         /\ settling /\ target' = target /\ goal \in Pose
         /\ Fresh /\ latest \in Message /\ Measured.haveNow
         /\ Measured.now = IF latest.stamp # stamp THEN latest.at ELSE follower.now
         /\ latest.stamp = stamp => follower.haveNow
         /\ \A j \in Moved : Distance(Measured.now[j], goal[j]) <= Tolerance
<1>1. Turn
  <2>1. ~(Poll \/ OnJointTargets \/ OnStandby \/ PreemptArrives \/ Touch \/ Elapse \/ ReadingArrives)
    BY PollIs, OnJointTargetsIs, OnStandbyIs, PreemptArrivesIs, TouchIs, ElapseIs, ReadingArrivesIs
  <2>2. ~(GoalArrives \/ GoalEnds) /\ ~(UNCHANGED vars)
    BY GoalArrivesIs, GoalEndsIs, StutterIs
  <2> QED BY <2>1, <2>2 DEF Next, Loops, Call
<1>2. Follow /\ UNCHANGED <<goal, arm, aim>>
  BY <1>1, TurnIs, StopOnRequestIs
<1> DEFINE g == Tick(Measured)
<1>3. /\ Judged(follower) /\ latest \in Message /\ Ready(Measured)
      /\ g.state = "REACHED" /\ outcome' = "reached"
      /\ follower.state # "SENDING" => target' = target
  <2>1. g = Tick(Measured)
    OBVIOUS
  <2> HIDE DEF g
  <2> QED BY <1>2, <2>1, FollowIs
<1>4. Measured.path = <<>> \/ (Measured.state = "SETTLING" /\ Arrived(Measured))
  <2>1. g = Tick(Measured)
    OBVIOUS
  <2> HIDE DEF g
  <2> QED BY <1>3, <2>1, TickIs
<1> HIDE DEF g
<1>5. /\ Measured.path = follower.path /\ Measured.state = follower.state
      /\ ~Fresh => ~Measured.haveNow
      /\ Fresh /\ latest.stamp # stamp => Measured.now = latest.at
      /\ Fresh /\ latest.stamp = stamp => Measured = follower
  BY <1>3, MeasuredIs
<1>6. /\ Measured.haveNow /\ follower.state = "SETTLING"
      /\ \A j \in Moved : Distance(Measured.now[j], Last(follower.path)[j]) <= Tolerance
  BY <1>4, <1>5 DEF Arrived
<1>7. Last(follower.path) = goal /\ goal \in Pose
  <2>1. follower.path \in Seq(Pose) /\ follower.path[Len(follower.path)] = goal
    BY FollowerIs
  <2>2. Len(follower.path) \in 1..Len(follower.path)
    BY <2>1
  <2> QED BY <2>1, <2>2 DEF Last
<1> QED BY <1>2, <1>3, <1>5, <1>6, <1>7 DEF settling

\* A joint that was close to the goal a while ago is as close to it as it can have got.
LEMMA StillClose ==
  ASSUME NEW a \in Int, NEW b \in Int, NEW c \in Int, NEW n \in Nat, n <= FeedbackTimeout,
         Distance(a, b) <= Speed * n, Distance(b, c) <= Tolerance
  PROVE  Distance(a, c) <= Tolerance + Speed * FeedbackTimeout
<1> DEFINE way == Speed * n
           most == Speed * FeedbackTimeout
<1>1. way \in Int /\ most \in Int /\ way <= most
  <2>1. n \in Int /\ FeedbackTimeout \in Int
    BY ParametersAre
  <2> QED BY <2>1, WayIs
<1>2. Distance(a, b) <= way
  OBVIOUS
<1> HIDE DEF way
<1>3. Distance(a, c) <= Tolerance + most
  <2> HIDE DEF most
  <2> QED BY <1>1, <1>2, FollowAssumption DEF Distance
<1> QED BY <1>3

\* A goal that ends at once: the last reading was close to the goal, and the arm cannot have
\* gone further since than the age of it allows.
LEMMA EndsNear ==
  ASSUME Types, Near, [Next]_vars, run = "following", run' = "idle", follower.path # <<>>
  PROVE  /\ outcome' = "reached" /\ goal' = goal /\ arm' = arm
         /\ \A j \in Moved : Distance(arm[j], goal[j]) <= Tolerance + Speed * FeedbackTimeout
<1>1. /\ outcome' = "reached" /\ goal' = goal /\ arm' = arm /\ goal \in Pose
      /\ Fresh /\ latest \in Message
      /\ Measured.now = IF latest.stamp # stamp THEN latest.at ELSE follower.now
      /\ latest.stamp = stamp => follower.haveNow
      /\ \A j \in Moved : Distance(Measured.now[j], goal[j]) <= Tolerance
  BY ReachedIs
<1>2. latest.stamp.age <= FeedbackTimeout /\ latest.stamp.age \in Nat
  BY <1>1, StampsAre DEF Fresh
<1>3. Measured.now \in Looked /\ WasSo(arm, Measured.now, latest.stamp.age)
  <2>1. CASE latest.stamp # stamp
    BY <1>1, <2>1, MessageIs DEF Near
  <2>2. CASE latest.stamp = stamp
    <3>1. follower.now \in Looked
      BY FollowerIs DEF Followers
    <3> QED BY <1>1, <2>2, <3>1 DEF Near
  <2> QED BY <2>1, <2>2
<1>4. ASSUME NEW j \in Moved
      PROVE  Distance(arm[j], goal[j]) <= Tolerance + Speed * FeedbackTimeout
  <2>1. arm[j] \in Int /\ Measured.now[j] \in Int /\ goal[j] \in Int
    BY <1>1, <1>3, ArmIs, LookedIs DEF Pose
  <2>2. Distance(arm[j], Measured.now[j]) <= Speed * latest.stamp.age
    BY <1>2, <1>3 DEF WasSo
  <2>3. Distance(Measured.now[j], goal[j]) <= Tolerance
    BY <1>1
  <2> QED BY <1>2, <2>1, <2>2, <2>3, StillClose
<1> QED BY <1>1, <1>4

\* The invariant under the theorem on arrival.
NearAlways == Types /\ Near

\* It always holds.
LEMMA NearIsAlways == Spec => []NearAlways
<1>1. Init => NearAlways
  BY TypesAtFirst, NearAtFirst DEF NearAlways
<1>2. NearAlways /\ [Next]_vars => NearAlways'
  BY TypesKept, NearKept DEF NearAlways
<1> QED BY <1>1, <1>2, PTL DEF Spec

\* A goal that is followed and ends has been reached, and every joint is as close to where the
\* path leads as the tolerance says and the age of a reading allows: no polls, misses or paths
\* make it end further from there (PathFollower::tick, ExecutorNode's feedback_timeout).
THEOREM ArrivalIsNear ==
  Spec => [][run = "following" /\ run' = "idle" /\ follower.path # <<>> =>
               /\ outcome' = "reached"
               /\ \A j \in Moved :
                    Distance(arm'[j], goal'[j]) <= Tolerance + Speed * FeedbackTimeout]_vars
<1>1. NearAlways /\ [Next]_vars =>
        [run = "following" /\ run' = "idle" /\ follower.path # <<>> =>
           /\ outcome' = "reached"
           /\ \A j \in Moved :
                Distance(arm'[j], goal'[j]) <= Tolerance + Speed * FeedbackTimeout]_vars
  BY EndsNear DEF NearAlways
<1> QED BY <1>1, NearIsAlways, PTL DEF Spec

\* The invariant under the theorem on what the driver was told.
SettlesAlways == Types /\ Settles

\* When a goal is reached, the driver has been told where its path leads: every joint is told
\* to go there, or the waypoint that says so is on its way.  Nothing that was sent before it
\* can come after it and take the arm elsewhere.
THEOREM ArrivalIsTold ==
  ASSUME PathsAreLegal
  PROVE  Spec => [][run = "following" /\ run' = "idle" /\ follower.path # <<>> =>
                      IF target' = D!Nothing THEN \A j \in Moved : aim'[j] = goal'[j]
                                             ELSE target' = goal']_vars
<1>1. ASSUME SettlesAlways, [Next]_vars, run = "following", run' = "idle", follower.path # <<>>
      PROVE  IF target' = D!Nothing THEN \A j \in Moved : aim'[j] = goal'[j]
                                    ELSE target' = goal'
  <2>1. Types /\ Settles
    BY <1>1 DEF SettlesAlways
  <2>2. settling /\ target' = target /\ aim' = aim /\ goal' = goal
    BY <1>1, <2>1, ReachedIs
  <2> QED BY <2>1, <2>2, ParametersAre DEF Settles
<1>2. SettlesAlways /\ [Next]_vars =>
        [run = "following" /\ run' = "idle" /\ follower.path # <<>> =>
           IF target' = D!Nothing THEN \A j \in Moved : aim'[j] = goal'[j]
                                  ELSE target' = goal']_vars
  BY <1>1
<1>3. Init => SettlesAlways
  BY TypesAtFirst, SettlesAtFirst DEF SettlesAlways
<1>4. SettlesAlways /\ [Next]_vars => SettlesAlways'
  BY TypesKept, SettlesKept DEF SettlesAlways
<1> QED BY <1>2, <1>3, <1>4, PTL DEF Spec

\* What the follower sends of a goal goes from waypoint to waypoint in steps of max_joint_step
\* at most, over the corners of the path too, and the last waypoint is where the path leads.
THEOREM WaypointsAreSmallSteps ==
  Spec => [](run = "following" /\ follower.path # <<>> =>
               /\ Last(follower.path) = goal
               /\ \A i \in 2..Len(follower.path), j \in Moved :
                    Distance(follower.path[i - 1][j], follower.path[i][j]) <= MaxStep)
<1>1. ASSUME Types, run = "following", follower.path # <<>>
      PROVE  /\ Last(follower.path) = goal
             /\ \A i \in 2..Len(follower.path), j \in Moved :
                  Distance(follower.path[i - 1][j], follower.path[i][j]) <= MaxStep
  <2>1. follower.path[Len(follower.path)] = goal
    BY <1>1, FollowerIs
  <2>2. \A i \in 2..Len(follower.path) : OneStep(follower.path[i - 1], follower.path[i])
    BY <1>1 DEF Types, OnTheWay
  <2> QED BY <2>1, <2>2 DEF Last, OneStep
<1> QED BY <1>1, TypesAtFirst, TypesKept, PTL DEF Spec

-------------------------------------------------------------------------------
(* What it takes to be struck, and to be taken for blocked.                *)

\* A turn strikes a follower only over a reading that was not judged before, by which a joint
\* does not follow, or does not close in; the last strike is the one that blocks it.
LEMMA StruckIs ==
  ASSUME NEW f, Ready(f), NEW g, g = Tick(f), g.state = "BLOCKED" \/ g.strikes > f.strikes
  PROVE  /\ f.unjudged
         /\ f.state = "SENDING" => JointNotFollowing(f)
         /\ f.state # "SENDING" => JointNotClosingIn(f) /\ ~Arrived(f)
         /\ g.state = "BLOCKED" => f.strikes + 1 = Strikes
         /\ g.state # "BLOCKED" => g.strikes = f.strikes + 1
<1>1. /\ f \in Followers /\ f.strikes \in Nat /\ f.strikes < Strikes /\ Strikes \in Nat \ {0}
      /\ f.state \in {"SENDING", "SETTLING", "REACHED"}
  BY ParametersAre DEF Ready, Followers
<1>2. ASSUME NEW failing \in BOOLEAN, NEW h, h = Judge(f, failing),
             h.state = "BLOCKED" \/ h.strikes > f.strikes
      PROVE  /\ f.unjudged /\ failing
             /\ h.state = "BLOCKED" => f.strikes + 1 = Strikes
             /\ h.state # "BLOCKED" => h.strikes = f.strikes + 1
  <2>1. f.unjudged
    BY <1>1, <1>2 DEF Judge
  <2> DEFINE k == [f EXCEPT !.unjudged = FALSE]
  <2>2. k \in Followers /\ k.strikes = f.strikes /\ k.state = f.state
    BY <1>1 DEF Followers
  <2>3. h = Strike(k, failing)
    BY <1>2, <2>1 DEF Judge
  <2> HIDE DEF k
  <2>4. CASE failing /\ k.strikes + 1 >= Strikes
    <3>1. h.state = "BLOCKED"
      BY <2>2, <2>3, <2>4, StrikeIs
    <3>2. f.strikes + 1 = Strikes
      BY <1>1, <2>2, <2>4
    <3> QED BY <2>1, <2>4, <3>1, <3>2
  <2>5. CASE ~(failing /\ k.strikes + 1 >= Strikes)
    <3>1. h.state = k.state /\ h.strikes = IF failing THEN k.strikes + 1 ELSE 0
      BY <1>2, <2>2, <2>3, <2>5, StrikeIs
    <3> QED BY <1>1, <1>2, <2>1, <2>2, <3>1
  <2> QED BY <2>4, <2>5
<1>3. CASE f.state = "SENDING"
  <2> DEFINE h == Judge(f, JointNotFollowing(f))
  <2>1. h \in Followers /\ JointNotFollowing(f) \in BOOLEAN
    BY JudgeIs, LooksAre
  <2>2. g = SendOne(h)
    BY <1>3 DEF Tick
  <2>3. h.state = "BLOCKED" \/ h.strikes > f.strikes =>
          /\ f.unjudged /\ JointNotFollowing(f)
          /\ h.state = "BLOCKED" => f.strikes + 1 = Strikes
          /\ h.state # "BLOCKED" => h.strikes = f.strikes + 1
    BY <1>2, <2>1
  <2> HIDE DEF h
  <2>4. g.strikes = h.strikes /\ (g.state = "BLOCKED" <=> h.state = "BLOCKED")
    BY <2>1, <2>2 DEF SendOne, Followers
  <2> QED BY <1>3, <2>3, <2>4
<1>4. CASE f.state = "SETTLING" /\ ~Arrived(f)
  <2> DEFINE h == Judge(f, JointNotClosingIn(f))
  <2>1. h \in Followers /\ JointNotClosingIn(f) \in BOOLEAN
    BY JudgeIs, LooksAre
  <2>2. g = GiveUpInTime(h)
    BY <1>4 DEF Tick
  <2>3. h.state = "BLOCKED" \/ h.strikes > f.strikes =>
          /\ f.unjudged /\ JointNotClosingIn(f)
          /\ h.state = "BLOCKED" => f.strikes + 1 = Strikes
          /\ h.state # "BLOCKED" => h.strikes = f.strikes + 1
    BY <1>2, <2>1
  <2> HIDE DEF h
  <2>4. g.strikes = h.strikes /\ (g.state = "BLOCKED" <=> h.state = "BLOCKED")
    BY <2>1, <2>2 DEF GiveUpInTime, Followers
  <2> QED BY <1>4, <2>3, <2>4
<1>5. CASE f.state = "SETTLING" /\ Arrived(f)
  <2> DEFINE there == [f EXCEPT !.state = "REACHED"]
  <2>1. g = [there EXCEPT !.unjudged = FALSE]
    BY <1>5 DEF Tick
  <2>2. there \in Followers /\ there.state = "REACHED" /\ there.strikes = f.strikes
    BY <1>1 DEF Followers, States
  <2> HIDE DEF there
  <2>3. g.state = "REACHED" /\ g.strikes = f.strikes
    BY <2>1, <2>2 DEF Followers
  <2> QED BY <1>1, <2>3
<1>6. CASE f.state = "REACHED"
  BY <1>1, <1>6 DEF Tick
<1> QED BY <1>1, <1>3, <1>4, <1>5, <1>6

\* Contact takes blocked_strikes readings of their own: whatever the polls, no turn strikes
\* twice, none strikes over a reading that was looked at before or is too old, and BLOCKED
\* is said at the last strike and at no other time (PathFollower::strike, ExecutorNode).
THEOREM StrikesNeedReadings ==
  Spec => [][run = "following" =>
               /\ run' = "following" => follower'.strikes <= follower.strikes + 1
               /\ \/ run' = "following" /\ follower'.strikes > follower.strikes
                  \/ run' = "releasing" /\ verdict' = "blocked"
                  => /\ Fresh /\ latest.stamp # stamp
                     /\ JointNotFollowing(Measured) \/ JointNotClosingIn(Measured)
               /\ run' = "releasing" /\ verdict' = "blocked" => follower.strikes = Strikes - 1]_vars
<1> DEFINE Step == run = "following" =>
                     /\ run' = "following" => follower'.strikes <= follower.strikes + 1
                     /\ \/ run' = "following" /\ follower'.strikes > follower.strikes
                        \/ run' = "releasing" /\ verdict' = "blocked"
                        => /\ Fresh /\ latest.stamp # stamp
                           /\ JointNotFollowing(Measured) \/ JointNotClosingIn(Measured)
                     /\ run' = "releasing" /\ verdict' = "blocked" => follower.strikes = Strikes - 1
<1>1. ASSUME Types, [Next]_vars PROVE Step
  <2> SUFFICES ASSUME run = "following" PROVE Step
    OBVIOUS
  <2>1. follower.strikes \in Nat /\ Strikes \in Nat \ {0} /\ Judged(follower) /\ latest \in Message
    BY <1>1, FollowerIs, ParametersAre
  <2>2. CASE Follow
    <3> DEFINE g == Tick(Measured)
    <3>1. /\ Ready(Measured)
          /\ run' = "following" => follower' = g /\ g.state \in {"SENDING", "SETTLING"}
          /\ run' = "releasing" /\ verdict' = "blocked" => g.state = "BLOCKED"
      <4>1. g = Tick(Measured)
        OBVIOUS
      <4> HIDE DEF g
      <4> QED BY <1>1, <2>2, <4>1, FollowIs
    <3>2. g.state = "BLOCKED" \/ g.strikes > Measured.strikes =>
            /\ Measured.unjudged
            /\ JointNotFollowing(Measured) \/ JointNotClosingIn(Measured)
            /\ g.state = "BLOCKED" => Measured.strikes + 1 = Strikes
            /\ g.state # "BLOCKED" => g.strikes = Measured.strikes + 1
      <4>1. g = Tick(Measured)
        OBVIOUS
      <4> HIDE DEF g
      <4> QED BY <3>1, <4>1, StruckIs
    <3>3. g.state \in {"SENDING", "SETTLING"} => g.strikes \in Nat
      <4>1. g = Tick(Measured)
        OBVIOUS
      <4> HIDE DEF g
      <4> QED BY <3>1, <4>1, TickIs DEF Judged, Ready, Followers
    <3> HIDE DEF g
    <3>4. /\ ~Fresh => ~Measured.unjudged /\ Measured.strikes = 0
          /\ Fresh /\ latest.stamp # stamp => Measured.strikes = follower.strikes
          /\ Fresh /\ latest.stamp = stamp => Measured = follower /\ ~Measured.unjudged
      <4>1. ~Fresh => Measured.strikes = 0
        <5> DEFINE f == follower
                   a == [f EXCEPT !.haveNow = FALSE]
                   b == [a EXCEPT !.havePrevious = FALSE]
                   c == [b EXCEPT !.unjudged = FALSE]
        <5>1. f \in Followers
          BY <2>1 DEF Judged, Ready
        <5>2. ~Fresh => Measured = [c EXCEPT !.strikes = 0]
          BY DEF Measured, LoseMeasurement
        <5> HIDE DEF f
        <5>3. c \in Followers
          BY <5>1 DEF Followers
        <5> HIDE DEF c
        <5> QED BY <5>2, <5>3 DEF Followers
      <4> QED BY <2>1, <4>1, MeasuredIs DEF Judged
    <3>5. Measured.strikes \in Nat /\ (g.strikes > Measured.strikes \/ g.state = "BLOCKED" => Measured.unjudged)
      BY <2>1, <3>1, <3>2 DEF Ready, Followers
    <3>6. Measured.unjudged => Fresh /\ latest.stamp # stamp /\ Measured.strikes = follower.strikes
      BY <3>4
    <3>7. Measured.strikes = 0 \/ Measured.strikes = follower.strikes
      BY <3>4
    <3>8. ASSUME run' = "following" PROVE follower'.strikes <= follower.strikes + 1
      BY <2>1, <3>1, <3>2, <3>3, <3>5, <3>7, <3>8
    <3>9. ASSUME run' = "following", follower'.strikes > follower.strikes
          PROVE  /\ Fresh /\ latest.stamp # stamp
                 /\ JointNotFollowing(Measured) \/ JointNotClosingIn(Measured)
      <4>1. g.strikes > Measured.strikes
        BY <2>1, <3>1, <3>3, <3>5, <3>7, <3>9
      <4> QED BY <3>2, <3>6, <4>1
    <3>10. ASSUME run' = "releasing", verdict' = "blocked"
           PROVE  /\ Fresh /\ latest.stamp # stamp
                  /\ JointNotFollowing(Measured) \/ JointNotClosingIn(Measured)
                  /\ follower.strikes = Strikes - 1
      BY <2>1, <3>1, <3>2, <3>6, <3>10
    <3> QED BY <3>8, <3>9, <3>10
  <2>3. CASE StopOnRequest
    BY <2>3, StopOnRequestIs
  <2>4. CASE ~(Follow \/ StopOnRequest)
    <3>1. ~(Turn \/ GoalArrives \/ GoalEnds)
      BY <1>1, <2>4, TurnIs, GoalArrivesIs, GoalEndsIs
    <3>2. run' = run /\ follower'.strikes = follower.strikes
      BY <1>1, <3>1, PollIs, OnJointTargetsIs, OnStandbyIs, PreemptArrivesIs, TouchIs, ElapseIs,
         ReadingArrivesIs, StutterIs DEF Next, Loops, Call
    <3> QED BY <2>1, <3>2
  <2> QED BY <2>2, <2>3, <2>4
<1>2. Types /\ [Next]_vars => [Step]_vars
  BY <1>1
<1> QED BY <1>2, TypesAtFirst, TypesKept, PTL DEF Spec

-------------------------------------------------------------------------------
(* Where the arm is after a goal was reached.                              *)

\* A path has somewhere to lead to: more than the corner where the arm already is, or none.
PathsLeadOn == \A path \in Paths : Len(path) # 1

\* A goal that has been reached leaves the arm near the end of its path, and the driver told to
\* go there, or about to be; a goal that starts to settle has sent its last waypoint this step.
Rests ==
  /\ verdict # "reached"
  /\ run = "following" => follower.path # <<>> /\ outcome = "none"
  /\ settling /\ follower.settlingFor = 0 => turned
  /\ outcome = "reached" =>
       /\ run = "idle"
       /\ \A j \in Moved : Distance(arm[j], goal[j]) <= Tolerance + Speed * FeedbackTimeout
       /\ target # <<>> => target = goal /\ lagging
       /\ target = <<>> => \A j \in Moved : aim[j] = goal[j]

\* A goal that is accepted has a waypoint to send.
LEMMA GoalHasWay ==
  ASSUME PathsLeadOn, Types, GoalArrives, run' = "following"
  PROVE  follower'.path # <<>>
<1>1. PICK path \in Paths : OnExecute(path)
  BY DEF GoalArrives
<1>2. path # <<>> /\ follower' = Load(path)
  BY <1>1, GoalArrivesIs DEF OnExecute
<1>3. path \in Seq(Pose)
  BY ExecutorAssumption
<1>4. path # <<>> /\ Len(path) # 1
  BY <1>2 DEF PathsLeadOn
<1>5. Len(path) > 1
  <2> DEFINE n == Len(path)
  <2>1. n \in Nat \ {0}
    BY <1>3, <1>4, HasLength
  <2>2. n # 1
    BY <1>4
  <2> HIDE DEF n
  <2>3. n > 1
    BY <2>1, <2>2
  <2> QED BY <2>3 DEF n
<1>6. Waypoints(path) # <<>>
  BY <1>3, <1>4, <1>5, WaypointsLead DEF Leads
<1> QED BY <1>2, <1>6 DEF Load

\* Nothing has been reached yet.
LEMMA RestsAtFirst == Init => Rests
BY DEF Init, ExecutorInit, Rests, settling

\* What the next step leaves of it.
LEMMA RestsKept ==
  ASSUME PathsAreLegal, PathsLeadOn, Types, Types', Near, Settles, Rests, [Next]_vars
  PROVE  Rests'
<1>1. \A j \in Moved : j \in D!Joints /\ goal[j] \in Lower..Upper /\ goal[j] \in Int
  BY ArmAssumption DEF Settles
<1> DEFINE close == Tolerance + Speed * FeedbackTimeout
<1>2. close \in Int
  <2>1. FeedbackTimeout \in Int /\ Tolerance \in Int
    BY ParametersAre, FollowAssumption
  <2>2. Speed * FeedbackTimeout \in Int
    BY <2>1, WayIs
  <2> QED BY <2>1, <2>2
<1>3. CASE Poll \/ ReadingArrives \/ PreemptArrives \/ Touch \/ UNCHANGED vars
  <2>1. UNCHANGED <<run, follower, verdict, outcome, target, arm, aim, goal, turned, lagging>>
    BY <1>3, PollIs, ReadingArrivesIs, PreemptArrivesIs, TouchIs, StutterIs
  <2> QED BY <2>1 DEF Rests, settling
<1>4. CASE OnJointTargets
  <2>1. /\ target # <<>> /\ target' = <<>>
        /\ UNCHANGED <<run, follower, verdict, outcome, arm, goal, turned>>
    BY <1>4, OnJointTargetsIs, NothingIs
  <2>2. ASSUME outcome = "reached" PROVE \A j \in Moved : aim'[j] = goal[j]
    <3>1. target = goal
      BY <2>1, <2>2 DEF Rests
    <3>2. aim' = [j \in D!Joints |-> IF j \in Moved THEN target[j] ELSE aim[j]]
      BY <1>1, <1>4, <3>1, OnJointTargetsIs
    <3> QED BY <1>1, <3>1, <3>2
  <2> QED BY <2>1, <2>2 DEF Rests, settling
<1>5. CASE OnStandby
  <2>1. run = "releasing" /\ run' = run /\ verdict' = verdict /\ outcome' = outcome
    BY <1>5, OnStandbyIs DEF Types, Phases
  <2> QED BY <2>1 DEF Rests, settling
<1>6. CASE GoalArrives
  <2>1. verdict' = "none" /\ outcome' \in {"none", "refused"}
    BY <1>6, GoalArrivesIs
  <2>2. run' = "following" => outcome' = "none" /\ follower'.path # <<>> /\ follower'.state # "SETTLING"
    BY <1>6, GoalArrivesIs, GoalHasWay
  <2> QED BY <2>1, <2>2 DEF Rests, settling
<1>7. CASE GoalEnds
  <2>1. run' = "idle" /\ outcome' = verdict /\ verdict' = verdict
    BY <1>7, GoalEndsIs
  <2> QED BY <2>1 DEF Rests, settling
<1>8. CASE Turn
  <2>1. run = "following" /\ ~turned /\ turned' /\ follower.path # <<>> /\ outcome = "none"
    BY <1>8, TurnIs DEF Rests
  <2>2. UNCHANGED <<lagging, goal, arm, aim>>
    BY <1>8, TurnIs
  <2>3. CASE StopOnRequest
    <3>1. run' = "releasing" /\ verdict' = "stopped" /\ outcome' = outcome
      BY <2>3, StopOnRequestIs
    <3> QED BY <2>1, <3>1 DEF Rests, settling
  <2>4. CASE Follow
    <3> DEFINE g == Tick(Measured)
    <3>1. /\ Ready(Measured) /\ Measured.path = follower.path
          /\ \/ run' = "following" /\ follower' = g /\ UNCHANGED <<verdict, outcome>>
             \/ run' = "idle" /\ UNCHANGED verdict
             \/ run' = "releasing" /\ verdict' \in {"stalled", "blocked"} /\ outcome' = outcome
      <4>1. g = Tick(Measured)
        OBVIOUS
      <4> HIDE DEF g
      <4> QED BY <2>1, <2>4, <4>1, FollowIs, FollowerIs, MeasuredIs
    <3>2. g.path = follower.path
      <4>1. g = Tick(Measured)
        OBVIOUS
      <4> HIDE DEF g
      <4> QED BY <3>1, <4>1, TickIs
    <3> HIDE DEF g
    <3>3. CASE run' = "idle"
      <4>1. /\ settling /\ target' = target /\ goal \in Pose /\ outcome' = "reached"
        BY <2>1, <3>3, ReachedIs
      <4>2. \A j \in Moved : Distance(arm[j], goal[j]) <= close
        BY <2>1, <3>3, EndsNear
      <4>3. target # <<>> => target = goal /\ lagging
        BY <2>1, <4>1 DEF Settles, Rests
      <4>4. target = <<>> => \A j \in Moved : aim[j] = goal[j]
        BY <4>1 DEF Settles
      <4>5. verdict' # "reached"
        BY <3>1, <3>3 DEF Rests
      <4> QED BY <2>2, <3>3, <4>1, <4>2, <4>3, <4>4, <4>5 DEF Rests, settling
    <3>4. CASE run' # "idle"
      <4>1. verdict' # "reached" /\ outcome' = "none"
        BY <2>1, <3>1, <3>4 DEF Rests
      <4>2. run' = "following" => follower'.path # <<>>
        BY <2>1, <3>1, <3>2, <3>4
      <4> QED BY <2>1, <4>1, <4>2 DEF Rests
    <3> QED BY <3>3, <3>4
  <2> QED BY <1>8, <2>3, <2>4, TurnIs
<1>9. CASE Elapse
  <2>1. /\ run = "following" => turned
        /\ ~lagging
        /\ UNCHANGED <<run, verdict, outcome, target, aim, goal>>
        /\ arm' \in [D!Joints -> Lower..Upper]
        /\ \A j \in held : arm'[j] = arm[j]
        /\ \A j \in D!Joints \ held : arm'[j] = D!Moves(j)
    BY <1>9, ElapseIs
  <2>2. run = "following" => follower'.path = follower.path
    BY <1>9, ElapseIs
  <2>3. settling' => follower'.settlingFor # 0
    <3> SUFFICES ASSUME settling' PROVE follower'.settlingFor # 0
      OBVIOUS
    <3>1. run = "following" /\ follower'.state = "SETTLING"
      BY <2>1 DEF settling
    <3>2. follower'.settlingFor = follower.settlingFor + 1 /\ follower.settlingFor \in Nat
      BY <1>9, <3>1, ElapseIs, FollowerIs
    <3> QED BY <3>2
  <2>4. ASSUME outcome = "reached"
        PROVE  /\ target = <<>> /\ \A j \in Moved : aim[j] = goal[j]
               /\ \A j \in Moved : Distance(arm'[j], goal[j]) <= close
    <3>1. target = <<>> /\ \A j \in Moved : aim[j] = goal[j] /\ Distance(arm[j], goal[j]) <= close
      BY <2>1, <2>4 DEF Rests
    <3> HIDE DEF close
    <3>2. ASSUME NEW j \in Moved PROVE Distance(arm'[j], goal[j]) <= close
      <4>1. /\ j \in D!Joints /\ goal[j] \in Int /\ arm[j] \in Int /\ arm'[j] \in Int
            /\ goal[j] # Released /\ aim[j] = goal[j] /\ Distance(arm[j], goal[j]) <= close
        BY <1>1, <2>1, <3>1, ArmIs, ArmAssumption
      <4>2. CASE j \in held
        BY <2>1, <4>1, <4>2
      <4>3. CASE j \notin held
        <5>1. arm'[j] = goal[j] \/ Distance(arm'[j], goal[j]) + Speed = Distance(arm[j], goal[j])
          BY <2>1, <4>1, <4>3, MovesIs
        <5>2. Distance(arm[j], goal[j]) \in Nat /\ Distance(arm'[j], goal[j]) \in Nat /\ Speed \in Nat
          BY <4>1, DistanceIs, ArmAssumption
        <5>3. arm'[j] = goal[j] => Distance(arm'[j], goal[j]) = 0
          BY <4>1 DEF Distance
        <5> QED BY <1>2, <4>1, <5>1, <5>2, <5>3
      <4> QED BY <4>2, <4>3
    <3> QED BY <3>1, <3>2
  <2> QED BY <2>1, <2>2, <2>3, <2>4 DEF Rests
<1> QED
  BY <1>3, <1>4, <1>5, <1>6, <1>7, <1>8, <1>9 DEF Next, Loops, Call

\* The arm that has been reported as arrived is near the end of the path, and stays there until
\* the next goal is accepted: no waypoint of the path, and nothing that is still on its way,
\* leads it off again.  How near, the tolerance and the age of a reading say.
THEOREM ArrivedArmStays ==
  ASSUME PathsAreLegal, PathsLeadOn
  PROVE  Spec => [](outcome = "reached" =>
                      \A j \in Moved : Distance(arm[j], goal[j]) <= Tolerance + Speed * FeedbackTimeout)
<1> DEFINE All == Types /\ Near /\ Settles /\ Rests
<1>1. Init => All
  BY TypesAtFirst, NearAtFirst, SettlesAtFirst, RestsAtFirst
<1>2. All /\ [Next]_vars => All'
  BY TypesKept, NearKept, SettlesKept, RestsKept
<1>3. All => (outcome = "reached" =>
                \A j \in Moved : Distance(arm[j], goal[j]) <= Tolerance + Speed * FeedbackTimeout)
  BY DEF Rests
<1> HIDE DEF All
<1> QED BY <1>1, <1>2, <1>3, PTL DEF Spec

-------------------------------------------------------------------------------
(* What a free arm is taken for, when it has had time to come closer.      *)

\* Every joint has come as much closer to where it goes, or is there.
Closer(from, at, to, way) ==
  \A j \in Moved : at[j] = to[j] \/ Distance(at[j], to[j]) + way <= Distance(from[j], to[j])

\* While a goal settles and nothing holds the arm, it comes one step's way closer every step, and
\* so does what is read of it from one reading to the next.
Closing ==
  settling /\ misses = 0 /\ held = {} =>
    /\ follower.settlingFor >= latest.stamp.age + 1 =>
         Closer(latest.at, arm, goal, Speed * latest.stamp.age)
    /\ follower.haveNow /\ follower.settlingFor >= stamp.age + 1 =>
         /\ Closer(follower.now, arm, goal, Speed * stamp.age)
         /\ stamp # latest.stamp => Closer(follower.now, latest.at, goal, Speed)

\* One more step on the way, and one step's way more.
LEMMA CloserStill ==
  ASSUME NEW from, NEW at, NEW next, NEW to, NEW n \in Nat,
         \A j \in Moved : from[j] \in Int /\ at[j] \in Int /\ next[j] \in Int /\ to[j] \in Int,
         \A j \in Moved : /\ at[j] = to[j] => next[j] = to[j]
                          /\ next[j] = to[j] \/ Distance(next[j], to[j]) + Speed = Distance(at[j], to[j]),
         Closer(from, at, to, Speed * n)
  PROVE  Closer(from, next, to, Speed * (n + 1))
<1> SUFFICES ASSUME NEW j \in Moved, next[j] # to[j]
             PROVE  Distance(next[j], to[j]) + Speed * (n + 1) <= Distance(from[j], to[j])
  BY DEF Closer
<1>1. Speed * n \in Int /\ Speed * (n + 1) = Speed * n + Speed /\ Speed \in Nat
  BY WayIs, ArmAssumption
<1>2. Distance(next[j], to[j]) \in Int /\ Distance(at[j], to[j]) \in Int /\ Distance(from[j], to[j]) \in Int
  BY DEF Distance
<1>3. /\ Distance(at[j], to[j]) + Speed * n <= Distance(from[j], to[j])
      /\ Distance(next[j], to[j]) + Speed = Distance(at[j], to[j])
  BY DEF Closer
<1> QED BY <1>1, <1>2, <1>3

\* A step of the clock moves a joint that nothing holds on, once the driver has the last waypoint.
LEMMA StepsOn ==
  ASSUME Types, Settles, Elapse, settling, follower.settlingFor >= 1
  PROVE  \A j \in Moved \ held :
           /\ arm[j] \in Int /\ arm'[j] \in Int /\ goal[j] \in Int
           /\ arm[j] = goal[j] => arm'[j] = goal[j]
           /\ arm'[j] = goal[j] \/ Distance(arm'[j], goal[j]) + Speed = Distance(arm[j], goal[j])
<1> SUFFICES ASSUME NEW j \in Moved \ held
             PROVE  /\ arm[j] \in Int /\ arm'[j] \in Int /\ goal[j] \in Int
                    /\ arm[j] = goal[j] => arm'[j] = goal[j]
                    /\ arm'[j] = goal[j] \/ Distance(arm'[j], goal[j]) + Speed = Distance(arm[j], goal[j])
  OBVIOUS
<1>1. /\ ~lagging /\ arm' \in [D!Joints -> Lower..Upper]
      /\ \A l \in D!Joints \ held : arm'[l] = D!Moves(l)
  BY ElapseIs
<1>2. follower.settlingFor \in Nat
  BY FollowerIs DEF settling
<1>3. target = <<>> /\ aim[j] = goal[j] /\ goal[j] \in Lower..Upper
  <2>1. target = <<>>
    BY <1>1, <1>2 DEF Settles
  <2> QED BY <2>1 DEF Settles
<1>4. j \in D!Joints /\ arm[j] \in Int /\ arm'[j] \in Int /\ goal[j] \in Int
  <2>1. j \in D!Joints /\ arm[j] \in Int
    BY ArmIs
  <2>2. Lower..Upper \subseteq Int
    BY ArmAssumption
  <2> QED BY <1>1, <1>3, <2>1, <2>2
<1>5. arm'[j] = D!Moves(j) /\ aim[j] # Released
  BY <1>1, <1>3, <1>4, ArmAssumption
<1> QED BY <1>3, <1>4, <1>5, MovesIs

\* At first there is no goal.
LEMMA ClosingAtFirst == Init => Closing
BY DEF Init, ExecutorInit, Closing, settling

\* Every step keeps it: a reading is of where the arm is, and what was measured is a reading.
LEMMA ClosingKept ==
  ASSUME SlowestPoll <= FeedbackTimeout, Types, Types', Ages, Settles, Looks, Closing, [Next]_vars
  PROVE  Closing'
<1> SUFFICES ASSUME settling', misses' = 0, held' = {} PROVE Closing'
  BY DEF Closing
<1>1. misses = 0 /\ held = {} /\ ReadingAges /\ LooksAlike /\ run' = "following"
  <2>1. misses = 0 /\ held = {}
    BY MissesStay
  <2> QED BY <2>1 DEF Looks, Ages, settling
<1>2. SlowestPoll \in Nat \ {0} /\ MaxAge \in Nat /\ SlowestPoll < MaxAge
  BY ParametersAre
<1>3. CASE ReadingArrives
  <2>1. /\ reading \in Message /\ latest' = reading /\ reading # <<>>
        /\ UNCHANGED <<run, follower, stamp, arm, goal>>
    BY <1>3, ReadingArrivesIs, NothingIs
  <2>2. settling
    BY <2>1 DEF settling
  <2>3. /\ reading.stamp.age = 0
        /\ \A j \in Moved : reading.at[j] = arm[j] /\ arm[j] \in Int /\ goal[j] \in Int
    <3>1. reading.stamp.age = 0 /\ \A j \in D!Joints : reading.at[j] = arm[j]
      BY <1>1, <2>1 DEF ReadingAges
    <3>2. \A j \in Moved : goal[j] \in Int
      BY ArmAssumption DEF Settles
    <3> QED BY <3>1, <3>2, ArmIs
  <2>4. Closer(reading.at, arm, goal, Speed * 0)
    <3>1. Speed * 0 = 0
      BY ArmAssumption
    <3>2. \A j \in Moved : Distance(arm[j], goal[j]) \in Int
      BY <2>3 DEF Distance
    <3> QED BY <2>3, <3>1, <3>2 DEF Closer
  <2>5. ASSUME follower.haveNow, follower.settlingFor >= stamp.age + 1
        PROVE  /\ Closer(follower.now, arm, goal, Speed * stamp.age)
               /\ Closer(follower.now, reading.at, goal, Speed)
    <3>1. Closer(follower.now, arm, goal, Speed * stamp.age)
      BY <1>1, <2>2, <2>5 DEF Closing
    <3>2. stamp.age \in Nat /\ stamp.age >= 1
      <4>1. latest \in Message
        BY <2>2, FollowerIs DEF settling
      <4> QED BY <1>1, <2>1, <4>1, StampsAre DEF ReadingAges
    <3>3. Speed <= Speed * stamp.age /\ Speed * stamp.age \in Int /\ Speed \in Int
      <4> DEFINE n == stamp.age
      <4>1. n \in Int /\ 1 \in Int /\ 1 <= n
        BY <3>2
      <4> HIDE DEF n
      <4>2. Speed * 1 <= Speed * n /\ Speed * n \in Int /\ Speed * 1 = Speed /\ Speed \in Int
        BY <4>1, WayIs, ArmAssumption
      <4> QED BY <4>2 DEF n
    <3>4. ASSUME NEW j \in Moved
          PROVE  \/ reading.at[j] = goal[j]
                 \/ Distance(reading.at[j], goal[j]) + Speed <= Distance(follower.now[j], goal[j])
      <4> DEFINE way == Speed * stamp.age
                 a == Distance(arm[j], goal[j])
                 b == Distance(follower.now[j], goal[j])
      <4>1. arm[j] = goal[j] \/ a + way <= b
        BY <3>1 DEF Closer
      <4>2. a \in Int /\ b \in Int
        <5>1. follower.now[j] \in Int
          BY <2>2, FollowerIs, LookedIs DEF settling, Followers
        <5>2. arm[j] \in Int /\ goal[j] \in Int
          BY <2>3
        <5> QED BY <5>1, <5>2 DEF Distance
      <4>3. reading.at[j] = arm[j]
        BY <2>3
      <4>4. Distance(reading.at[j], goal[j]) = a
        BY <4>3
      <4> HIDE DEF way, a, b
      <4>5. arm[j] = goal[j] \/ a + Speed <= b
        <5>1. Speed <= way /\ way \in Int /\ Speed \in Int
          BY <3>3 DEF way
        <5> QED BY <4>1, <4>2, <5>1
      <4> QED BY <4>3, <4>4, <4>5 DEF b
    <3> QED BY <3>1, <3>4 DEF Closer
  <2>6. /\ follower'.settlingFor >= latest'.stamp.age + 1 =>
             Closer(latest'.at, arm', goal', Speed * latest'.stamp.age)
        /\ follower'.haveNow /\ follower'.settlingFor >= stamp'.age + 1 =>
             /\ Closer(follower'.now, arm', goal', Speed * stamp'.age)
             /\ stamp' # latest'.stamp => Closer(follower'.now, latest'.at, goal', Speed)
    BY <2>1, <2>3, <2>4, <2>5
  <2> QED BY <2>6 DEF Closing
<1>4. CASE GoalArrives
  <2>1. run' = "following" => follower'.state # "SETTLING"
    BY <1>4, GoalArrivesIs
  <2> QED BY <2>1 DEF settling
<1>5. CASE Turn
  <2>1. run = "following" /\ UNCHANGED <<latest, arm, goal, held, misses>>
    BY <1>5, TurnIs
  <2>2. Follow
    BY <1>1, <1>5, TurnIs, StopOnRequestIs
  <2> DEFINE g == Tick(Measured)
             m == Measured
  <2>3. /\ Ready(m) /\ m.state = follower.state
        /\ m.settlingFor = follower.settlingFor
        /\ m.haveNow => m.now = latest.at
        /\ Fresh
    BY <1>1, <2>1, TurnLooks
  <2>4. stamp' = latest.stamp /\ follower' = g
    <3>1. g = Tick(Measured)
      OBVIOUS
    <3> HIDE DEF g
    <3> QED BY <1>1, <2>2, <2>3, <3>1, FollowIs
  <2>5. /\ g.settlingFor = m.settlingFor /\ g.now = m.now /\ g.haveNow = m.haveNow
        /\ g.state = "SETTLING" => m.state = "SETTLING" \/ m.settlingFor = 0
    <3>1. /\ g.settlingFor = m.settlingFor /\ g.now = m.now /\ g.haveNow = m.haveNow
          /\ g.state = "SETTLING" => m.state \in {"SENDING", "SETTLING"}
      BY <2>3, TickIs
    <3>2. m.state = "SENDING" => m.settlingFor = 0
      BY <2>3 DEF Ready
    <3> QED BY <3>1, <3>2
  <2> HIDE DEF g, m
  <2>6. follower'.settlingFor = follower.settlingFor /\ (follower'.haveNow => follower'.now = latest.at)
    BY <2>3, <2>4, <2>5
  <2>7. ASSUME follower'.settlingFor >= latest.stamp.age + 1
        PROVE  Closer(latest.at, arm, goal, Speed * latest.stamp.age)
    <3>1. latest \in Message
      BY <2>1, FollowerIs
    <3>2. follower'.settlingFor # 0
      BY <2>7, <3>1, StampsAre
    <3>3. settling
      BY <2>1, <2>3, <2>4, <2>5, <2>6, <3>2 DEF settling
    <3> QED BY <1>1, <2>6, <2>7, <3>3 DEF Closing
  <2>8. /\ follower'.settlingFor >= latest'.stamp.age + 1 =>
             Closer(latest'.at, arm', goal', Speed * latest'.stamp.age)
        /\ follower'.haveNow /\ follower'.settlingFor >= stamp'.age + 1 =>
             Closer(follower'.now, arm', goal', Speed * stamp'.age)
        /\ stamp' = latest'.stamp
    BY <2>1, <2>4, <2>6, <2>7
  <2> QED BY <2>8 DEF Closing
<1>6. CASE Elapse
  <2>1. /\ run = "following"
        /\ latest \in Message /\ latest'.at = latest.at /\ latest'.stamp = Older(latest.stamp)
        /\ stamp' = Older(stamp)
        /\ follower.state = "SETTLING" /\ follower'.settlingFor = follower.settlingFor + 1
        /\ follower'.now = follower.now /\ follower'.haveNow = follower.haveNow
        /\ UNCHANGED <<goal, held>> /\ turned
    <3>1. run = "following" /\ turned /\ UNCHANGED <<goal, held>>
      BY <1>1, <1>6, ElapseIs DEF Elapse, factVars
    <3>2. follower.state = "SETTLING"
      BY <1>6, <3>1, ElapseIs DEF settling
    <3> QED BY <1>6, <3>1, <3>2, ElapseIs, FollowerIs
  <2>2. settling /\ follower.settlingFor \in Nat
    BY <2>1, FollowerIs DEF settling
  <2>3. /\ stamp.age \in Nat /\ stamp.age <= SlowestPoll /\ stamp.place = 1
        /\ latest.stamp.age \in Nat /\ latest.stamp.age <= SlowestPoll /\ latest.stamp.place = 1
        /\ stamp \in [age : 0..MaxAge, place : Nat] /\ latest.stamp \in [age : 0..MaxAge, place : Nat]
    BY <1>1, <2>1, StampsAre DEF ReadingAges
  <2>4. stamp'.age = stamp.age + 1 /\ latest'.stamp.age = latest.stamp.age + 1
    <3>1. stamp'.age = stamp.age + 1
      BY <1>2, <2>1, <2>3, OlderIs
    <3>2. latest'.stamp.age = latest.stamp.age + 1
      BY <1>2, <2>1, <2>3, OlderIs
    <3> QED BY <3>1, <3>2
  <2>5. stamp' # latest'.stamp => stamp # latest.stamp
    BY <2>1
  <2>6. follower.now \in Looked /\ latest.at \in [D!Joints -> Int]
    BY <2>1, <2>2, FollowerIs DEF Followers, Message
  <2>7. ASSUME follower'.settlingFor >= latest'.stamp.age + 1
        PROVE  Closer(latest'.at, arm', goal', Speed * latest'.stamp.age)
    <3>1. follower.settlingFor >= latest.stamp.age + 1 /\ follower.settlingFor >= 1
      BY <2>1, <2>2, <2>3, <2>4, <2>7
    <3>2. Closer(latest.at, arm, goal, Speed * latest.stamp.age)
      BY <1>1, <2>2, <3>1 DEF Closing
    <3>3. \A j \in Moved : latest.at[j] \in Int
      BY <2>6, ParametersAre
    <3> DEFINE n == latest.stamp.age
    <3>4. Closer(latest.at, arm', goal, Speed * (n + 1))
      <4>1. n \in Nat /\ Closer(latest.at, arm, goal, Speed * n)
        BY <2>3, <3>2
      <4> HIDE DEF n
      <4>2. \A j \in Moved :
              /\ arm[j] \in Int /\ arm'[j] \in Int /\ goal[j] \in Int
              /\ arm[j] = goal[j] => arm'[j] = goal[j]
              /\ arm'[j] = goal[j] \/ Distance(arm'[j], goal[j]) + Speed = Distance(arm[j], goal[j])
        BY <1>1, <1>6, <2>2, <3>1, StepsOn
      <4> QED BY <3>3, <4>1, <4>2, CloserStill
    <3> QED BY <2>1, <2>4, <3>4
  <2>8. ASSUME follower'.haveNow, follower'.settlingFor >= stamp'.age + 1
        PROVE  /\ Closer(follower'.now, arm', goal', Speed * stamp'.age)
               /\ stamp' # latest'.stamp => Closer(follower'.now, latest'.at, goal', Speed)
    <3>1. /\ follower.settlingFor >= stamp.age + 1 /\ follower.settlingFor >= 1
          /\ follower.haveNow
      BY <2>1, <2>2, <2>3, <2>4, <2>8
    <3>2. /\ Closer(follower.now, arm, goal, Speed * stamp.age)
          /\ stamp # latest.stamp => Closer(follower.now, latest.at, goal, Speed)
      BY <1>1, <2>2, <3>1 DEF Closing
    <3>3. \A j \in Moved : follower.now[j] \in Int
      BY <2>6, LookedIs
    <3> DEFINE n == stamp.age
    <3>4. Closer(follower.now, arm', goal, Speed * (n + 1))
      <4>1. n \in Nat /\ Closer(follower.now, arm, goal, Speed * n)
        BY <2>3, <3>2
      <4> HIDE DEF n
      <4>2. \A j \in Moved :
              /\ arm[j] \in Int /\ arm'[j] \in Int /\ goal[j] \in Int
              /\ arm[j] = goal[j] => arm'[j] = goal[j]
              /\ arm'[j] = goal[j] \/ Distance(arm'[j], goal[j]) + Speed = Distance(arm[j], goal[j])
        BY <1>1, <1>6, <2>2, <3>1, StepsOn
      <4> QED BY <3>3, <4>1, <4>2, CloserStill
    <3>5. Closer(follower'.now, arm', goal', Speed * stamp'.age)
      BY <2>1, <2>4, <3>4
    <3>6. stamp' # latest'.stamp => Closer(follower'.now, latest'.at, goal', Speed)
      BY <2>1, <2>5, <3>2
    <3> QED BY <3>5, <3>6
  <2> QED BY <2>7, <2>8 DEF Closing
<1>7. CASE Poll \/ OnJointTargets \/ OnStandby \/ PreemptArrives \/ GoalEnds \/ Touch \/ UNCHANGED vars
  <2>1. /\ UNCHANGED <<follower, latest, stamp, arm, goal>>
        /\ run' = "following" => run = "following"
    BY <1>7, PollIs, OnJointTargetsIs, OnStandbyIs, PreemptArrivesIs, GoalEndsIs, TouchIs, StutterIs
  <2>2. settling
    BY <1>1, <2>1 DEF settling
  <2> QED BY <1>1, <2>1, <2>2 DEF Closing
<1> QED
  BY <1>3, <1>4, <1>5, <1>6, <1>7 DEF Next, Loops, Call

\* A joint that came a step's way closer since the last reading, or is at the goal, closes in.
LEMMA ClosesIn ==
  ASSUME NEW f, FollowingShows, f.now \in Looked, f.previous \in Looked,
         Last(f.path) \in Pose, Closer(f.previous, f.now, Last(f.path), Speed)
  PROVE  ~JointNotClosingIn(f)
<1> SUFFICES ASSUME JointNotClosingIn(f) PROVE FALSE
  OBVIOUS
<1> DEFINE to == Last(f.path)
<1>1. PICK j \in Moved :
        LET before == Distance(to[j], f.previous[j])
            owed == Least(before - Tolerance, MaxStep)
        IN  owed >= MinStep /\ (before - Distance(to[j], f.now[j])) * FollowShare < owed
  BY DEF JointNotClosingIn
<1> DEFINE before == Distance(to[j], f.previous[j])
           after == Distance(to[j], f.now[j])
           owed == Least(before - Tolerance, MaxStep)
<1>2. before \in Nat /\ after \in Nat /\ (f.now[j] = to[j] => after = 0)
  <2>1. to[j] \in Int /\ f.previous[j] \in Int /\ f.now[j] \in Int
    BY LookedIs DEF Pose
  <2> HIDE DEF to
  <2> QED BY <2>1, DistanceIs
<1>3. f.now[j] = to[j] \/ after + Speed <= before
  <2>1. to[j] \in Int /\ f.previous[j] \in Int /\ f.now[j] \in Int
    BY LookedIs DEF Pose
  <2>2. f.now[j] = to[j] \/ Distance(f.now[j], to[j]) + Speed <= Distance(f.previous[j], to[j])
    BY DEF Closer
  <2> HIDE DEF to
  <2> QED BY <2>1, <2>2, DistanceIs
<1>4. (before - after) * FollowShare < owed
  BY <1>1
<1>5. /\ Tolerance \in Nat \ {0} /\ MaxStep \in Nat /\ FollowShare \in Nat \ {0} /\ Speed \in Nat
  BY FollowAssumption, ArmAssumption
<1>6. owed <= MaxStep /\ owed < before /\ owed \in Int
  BY <1>2, <1>5 DEF Least
<1> HIDE DEF before, after, owed, to
<1>7. CASE after = 0
  <2>1. before * FollowShare >= before
    <3>1. before * FollowShare = before * (FollowShare - 1) + before /\ before * (FollowShare - 1) >= 0
      BY <1>2, <1>5
    <3> QED BY <1>2, <1>5, <3>1
  <2>2. before - after = before
    BY <1>2, <1>7
  <2>3. before * FollowShare < owed
    BY <1>4, <2>2
  <2>4. before * FollowShare \in Int
    BY <1>2, <1>5
  <2> QED BY <1>2, <1>6, <2>1, <2>3, <2>4
<1>8. CASE after + Speed <= before
  <2> DEFINE d == (before - after) - Speed
  <2>1. d \in Nat /\ before - after = Speed + d
    BY <1>2, <1>5, <1>8
  <2> HIDE DEF d
  <2>2. (Speed + d) * FollowShare >= Speed * FollowShare
    <3>1. (Speed + d) * FollowShare = Speed * FollowShare + d * FollowShare /\ d * FollowShare >= 0
      BY <1>5, <2>1
    <3>2. d * FollowShare \in Int /\ Speed * FollowShare \in Int
      BY <1>5, <2>1
    <3> QED BY <3>1, <3>2
  <2>3. (Speed + d) * FollowShare < owed
    BY <1>4, <2>1
  <2>4. (Speed + d) * FollowShare \in Int /\ Speed * FollowShare \in Int
    BY <1>5, <2>1
  <2>5. MaxStep <= Speed * FollowShare
    BY DEF FollowingShows
  <2> QED BY <1>5, <1>6, <2>2, <2>3, <2>4, <2>5
<1> QED BY <1>2, <1>3, <1>7, <1>8

\* All that this verdict rests on.
ClosingAlways == Seen /\ Closing

\* An arm that has settled for longer than a reading takes is called blocked only when it met
\* something, or a joint did not answer: for any arm, any legal paths and polls however
\* irregular, if it is fast enough to be seen to follow (PathFollower::jointNotClosingIn).
THEOREM LateContactIsReal ==
  ASSUME PathsAreLegal, SlowestPoll <= FeedbackTimeout, FollowingShows
  PROVE  Spec => [][settling /\ follower.settlingFor > SlowestPoll + 1
                    /\ run' = "releasing" /\ verdict' = "blocked"
                    => held # {} \/ misses > 0]_vars
<1> DEFINE Step == settling /\ follower.settlingFor > SlowestPoll + 1
                   /\ run' = "releasing" /\ verdict' = "blocked"
                   => held # {} \/ misses > 0
<1>1. ASSUME ClosingAlways, [Next]_vars PROVE Step
  <2> SUFFICES ASSUME settling, follower.settlingFor > SlowestPoll + 1,
                      run' = "releasing", verdict' = "blocked", ~(held # {} \/ misses > 0)
               PROVE  FALSE
    OBVIOUS
  <2>1. Types /\ Ages /\ Settles /\ Looks /\ Closing
    BY <1>1 DEF ClosingAlways, Seen
  <2>2. held = {} /\ misses = 0 /\ run = "following" /\ follower.state = "SETTLING"
    BY <2>1, StampsAre DEF settling
  <2>3. Turn /\ Follow
    <3>1. run' # run
      BY <2>2
    <3>2. ~GoalArrives
      BY <2>1, <2>2, GoalArrivesIs
    <3>3. Turn \/ GoalEnds
      BY <1>1, <2>1, <3>1, <3>2, PollIs, OnJointTargetsIs, OnStandbyIs, PreemptArrivesIs, TouchIs,
         ElapseIs, ReadingArrivesIs, StutterIs DEF Next, Loops, Call
    <3>4. ~GoalEnds
      BY <2>1, <2>2, GoalEndsIs
    <3>5. ~StopOnRequest
      BY <2>1, StopOnRequestIs
    <3> QED BY <2>1, <3>3, <3>4, <3>5, TurnIs
  <2> DEFINE g == Tick(Measured)
  <2>4. Ready(Measured) /\ g.state = "BLOCKED"
    <3>1. g = Tick(Measured)
      OBVIOUS
    <3> HIDE DEF g
    <3> QED BY <2>1, <2>3, <3>1, FollowIs
  <2>5. Measured.state = "SETTLING" /\ Measured.path = follower.path
    BY <2>1, <2>2, TurnLooks
  <2>6. Measured.unjudged /\ JointNotClosingIn(Measured)
    <3>1. g = Tick(Measured)
      OBVIOUS
    <3> HIDE DEF g
    <3> QED BY <2>4, <2>5, <3>1, StruckIs
  <2> HIDE DEF g
  <2>7. Judged(follower) /\ follower \in Followers /\ latest \in Message /\ follower.settlingFor \in Nat
    BY <2>1, <2>2, FollowerIs
  <2>8. latest.stamp # stamp
    BY <2>1, <2>2, <2>6, <2>7, TurnLooks DEF Judged
  <2>9. Measured.now = latest.at /\ Measured.previous = follower.previous
    BY <2>1, <2>2, <2>8, TurnLooks
  <2>10. stamp.age \in Nat /\ SlowestPoll \in Nat /\ stamp.age <= SlowestPoll + 1
    BY <2>1, <2>2, StampsAre, ParametersAre DEF Ages, ReadingAges
  <2>11. follower.haveNow /\ follower.settlingFor >= stamp.age + 1
    <3>1. follower.settlingFor > stamp.age /\ follower.settlingFor >= stamp.age + 1
      BY <2>7, <2>10
    <3>2. ~follower.haveNow => follower.settlingFor <= stamp.age
      BY <2>1, <2>2 DEF Looks, LooksAlike
    <3> QED BY <2>7, <2>10, <3>1, <3>2
  <2>12. follower.previous = follower.now
    BY <2>7, <2>11 DEF Judged, Ready
  <2>13. Last(Measured.path) = goal /\ goal \in Pose
    <3>1. follower.path # <<>> /\ follower.path \in Seq(Pose)
      BY <2>2, <2>7 DEF Judged, Ready, Followers
    <3>2. Len(follower.path) \in 1..Len(follower.path)
      <4> DEFINE n == Len(follower.path)
      <4>1. n \in Nat /\ n # 0
        BY <3>1
      <4> HIDE DEF n
      <4>2. n \in 1..n
        BY <4>1
      <4> QED BY <4>2 DEF n
    <3>3. goal = follower.path[Len(follower.path)]
      BY <2>1, <2>2, <3>1, FollowerIs
    <3>4. follower.path[Len(follower.path)] \in Pose
      BY <3>1, <3>2
    <3> QED BY <2>5, <3>3, <3>4 DEF Last
  <2>14. Closer(Measured.previous, Measured.now, Last(Measured.path), Speed)
    <3>1. Closer(follower.now, latest.at, goal, Speed)
      BY <2>1, <2>2, <2>8, <2>11 DEF Closing
    <3> QED BY <2>9, <2>12, <2>13, <3>1
  <2>15. Measured.now \in Looked /\ Measured.previous \in Looked
    BY <2>4 DEF Ready, Followers
  <2> QED BY <2>6, <2>13, <2>14, <2>15, ClosesIn
<1>2. Init => ClosingAlways
  BY TypesAtFirst, AgesAtFirst, SettlesAtFirst, LooksAtFirst, ClosingAtFirst DEF Seen, ClosingAlways
<1>3. ClosingAlways /\ [Next]_vars => ClosingAlways'
  <2> SUFFICES ASSUME ClosingAlways, [Next]_vars PROVE ClosingAlways'
    OBVIOUS
  <2>1. Types /\ Ages /\ Settles /\ Looks /\ Closing
    BY DEF ClosingAlways, Seen
  <2>2. Types'
    BY <2>1, TypesKept
  <2>3. Ages' /\ Settles'
    BY <2>1, <2>2, AgesKept, SettlesKept
  <2>4. Looks' /\ Closing'
    BY <2>1, <2>2, <2>3, LooksKept, ClosingKept
  <2> QED BY <2>2, <2>3, <2>4 DEF ClosingAlways, Seen
<1>4. ClosingAlways /\ [Next]_vars => [Step]_vars
  BY <1>1
<1> QED BY <1>2, <1>3, <1>4, PTL DEF Spec

-------------------------------------------------------------------------------
(* Where the arm is when a goal is reached by a reading of its own time.   *)

\* Every joint is as close to where it goes as it was, or closer.
NoFurther(from, at, to) == \A j \in Moved : Distance(at[j], to[j]) <= Distance(from[j], to[j])

\* An age that counts, and that is less than so many steps.
Within(age, n) == age <= FeedbackTimeout /\ age < n

\* While a goal settles, what was read since the last waypoint was sent was no closer to the goal
\* than the arm is now, whether something holds a joint or not.
Approaches ==
  settling =>
    /\ \A j \in Moved : Within(readAt[j], follower.settlingFor) =>
         Distance(arm[j], goal[j]) <= Distance(position[j], goal[j])
    /\ reading # <<>> /\ Within(reading.stamp.age, follower.settlingFor) =>
         NoFurther(reading.at, arm, goal)
    /\ Within(latest.stamp.age, follower.settlingFor) => NoFurther(latest.at, arm, goal)
    /\ follower.haveNow /\ Within(stamp.age, follower.settlingFor) =>
         NoFurther(follower.now, arm, goal)

\* What counts after a step of the clock counted before it.
LEMMA WithinBefore ==
  ASSUME NEW age \in 0..MaxAge, NEW n \in Nat,
         NEW later, later = IF age < MaxAge THEN age + 1 ELSE age, Within(later, n + 1)
  PROVE  Within(age, n) /\ n >= 1
<1>1. MaxAge = FeedbackTimeout + 1 /\ FeedbackTimeout \in Nat
  BY ParametersAre
<1> QED BY <1>1 DEF Within

\* A step of the clock takes no joint away from the goal, once the driver has the last waypoint.
LEMMA StepsNoFurther ==
  ASSUME Types, Settles, Elapse, settling, follower.settlingFor >= 1, NEW j \in Moved
  PROVE  /\ arm[j] \in Int /\ arm'[j] \in Int /\ goal[j] \in Int
         /\ Distance(arm'[j], goal[j]) <= Distance(arm[j], goal[j])
<1>1. arm[j] \in Int /\ arm'[j] \in Int /\ goal[j] \in Int /\ Speed \in Nat
  <2>1. j \in D!Joints /\ arm[j] \in Int
    BY ArmIs
  <2>2. arm' \in [D!Joints -> Lower..Upper] /\ Lower..Upper \subseteq Int
    BY ElapseIs, ArmAssumption
  <2>3. goal[j] \in Lower..Upper
    BY DEF Settles
  <2> QED BY <2>1, <2>2, <2>3, ArmAssumption
<1>2. CASE j \in held
  <2>1. arm'[j] = arm[j]
    BY <1>2, ElapseIs
  <2> QED BY <1>1, <2>1 DEF Distance
<1>3. CASE j \notin held
  <2>1. \/ arm'[j] = goal[j]
        \/ Distance(arm'[j], goal[j]) + Speed = Distance(arm[j], goal[j])
    BY <1>3, StepsOn
  <2> QED BY <1>1, <2>1 DEF Distance
<1> QED BY <1>2, <1>3

\* What was no closer is no closer after such a step.
LEMMA StillNoFurther ==
  ASSUME Types, Settles, Elapse, settling, follower.settlingFor >= 1,
         NEW from \in Looked, NoFurther(from, arm, goal)
  PROVE  NoFurther(from, arm', goal)
<1> SUFFICES ASSUME NEW j \in Moved PROVE Distance(arm'[j], goal[j]) <= Distance(from[j], goal[j])
  BY DEF NoFurther
<1>1. /\ arm[j] \in Int /\ arm'[j] \in Int /\ goal[j] \in Int /\ from[j] \in Int
      /\ Distance(arm'[j], goal[j]) <= Distance(arm[j], goal[j])
  BY StepsNoFurther, LookedIs
<1>2. Distance(arm[j], goal[j]) <= Distance(from[j], goal[j])
  BY DEF NoFurther
<1> QED BY <1>1, <1>2 DEF Distance

\* At first there is no goal.
LEMMA ApproachesAtFirst == Init => Approaches
BY DEF Init, ExecutorInit, Approaches, settling

\* Every step keeps it: a poll reads the arm where it is, and time brings it no further away.
LEMMA ApproachesKept ==
  ASSUME Types, Types', Settles, Approaches, [Next]_vars
  PROVE  Approaches'
<1> SUFFICES ASSUME settling' PROVE Approaches'
  BY DEF Approaches
<1>1. /\ FeedbackTimeout \in Nat /\ MaxAge \in Nat /\ MaxAge = FeedbackTimeout + 1
      /\ D!Unread = MaxAge + 1 /\ Moved \subseteq D!Joints
  BY ParametersAre
<1>2. \A j \in Moved : /\ arm[j] \in Int /\ position[j] \in Int /\ goal[j] \in Int
                       /\ readAt[j] \in 0..D!Unread /\ readAt[j] \in Nat
  <2>1. /\ arm \in [D!Joints -> Lower..Upper] /\ position \in [D!Joints -> Int]
        /\ readAt \in [D!Joints -> 0..D!Unread] /\ Lower..Upper \subseteq Int
    BY ArmAssumption DEF Types, ArmTypes, D!TypeOK
  <2> QED BY <1>1, <2>1 DEF Settles
<1>3. CASE Poll
  <2>1. PICK answered \in SUBSET D!Joints :
          /\ position' = [j \in D!Joints |-> IF j \in answered THEN arm[j] ELSE position[j]]
          /\ readAt' = [j \in D!Joints |-> IF j \in answered THEN 0 ELSE readAt[j]]
    BY <1>3, PollIs
  <2>2. UNCHANGED <<run, follower, latest, stamp, arm, goal>>
    BY <1>3, PollIs
  <2>3. settling /\ follower.settlingFor \in Nat
    <3>1. settling
      BY <2>2 DEF settling
    <3> QED BY <3>1, FollowerIs DEF settling
  <2>4. ASSUME NEW j \in Moved, Within(readAt'[j], follower.settlingFor)
        PROVE  Distance(arm[j], goal[j]) <= Distance(position'[j], goal[j])
    <3>1. CASE j \in answered
      <4>1. position'[j] = arm[j]
        BY <1>1, <2>1, <3>1
      <4> QED BY <1>2, <4>1 DEF Distance
    <3>2. CASE j \notin answered
      <4>1. position'[j] = position[j] /\ readAt'[j] = readAt[j]
        BY <1>1, <2>1, <3>2
      <4> QED BY <2>3, <2>4, <4>1 DEF Approaches
    <3> QED BY <3>1, <3>2
  <2>5. ASSUME reading' # reading, reading' # <<>>, Within(reading'.stamp.age, follower.settlingFor)
        PROVE  NoFurther(reading'.at, arm, goal)
    <3>1. /\ reading' \in Message /\ reading'.at = position'
          /\ \A l \in D!Joints : readAt'[l] <= reading'.stamp.age
      BY <1>3, <2>5, PollIs
    <3>2. reading'.stamp.age \in 0..MaxAge
      BY <3>1, MessageIs
    <3>3. ASSUME NEW j \in Moved PROVE Within(readAt'[j], follower.settlingFor)
      <4>1. readAt'[j] \in Nat /\ readAt'[j] <= reading'.stamp.age
        BY <1>1, <1>2, <2>1, <3>1
      <4> QED BY <1>1, <2>3, <2>5, <3>2, <4>1 DEF Within
    <3> QED BY <2>4, <3>1, <3>3 DEF NoFurther
  <2>6. reading' = reading \/ reading' # <<>>
    BY <1>3, NothingIs, PollIs
  <2> QED BY <2>2, <2>3, <2>4, <2>5, <2>6 DEF Approaches
<1>4. CASE ReadingArrives
  <2>1. /\ reading # <<>> /\ latest' = reading /\ reading' = <<>>
        /\ UNCHANGED <<run, follower, stamp, arm, position, readAt, goal>>
    BY <1>4, ReadingArrivesIs, NothingIs
  <2>2. settling
    BY <2>1 DEF settling
  <2> QED BY <2>1, <2>2 DEF Approaches
<1>5. CASE GoalArrives
  <2>1. run' = "following" => follower'.state # "SETTLING"
    BY <1>5, GoalArrivesIs
  <2> QED BY <2>1 DEF settling
<1>6. CASE Turn
  <2>1. /\ run = "following" /\ UNCHANGED <<latest, reading, arm, position, readAt, goal>>
    BY <1>6, TurnIs
  <2>2. Follow
    <3>1. run' = "following"
      BY DEF settling
    <3> QED BY <1>6, <3>1, TurnIs, StopOnRequestIs
  <2> DEFINE g == Tick(Measured)
             m == Measured
  <2>3. /\ Judged(follower) /\ latest \in Message /\ Ready(m)
        /\ stamp' = IF Fresh THEN latest.stamp ELSE NoStamp
        /\ follower' = g
    <3>1. g = Tick(Measured)
      OBVIOUS
    <3> HIDE DEF g
    <3> QED BY <2>2, <3>1, FollowIs DEF settling
  <2>4. /\ g.settlingFor = m.settlingFor /\ g.now = m.now /\ g.haveNow = m.haveNow
        /\ g.state = "SETTLING" => m.state = "SETTLING" \/ m.settlingFor = 0
    <3>1. /\ g.settlingFor = m.settlingFor /\ g.now = m.now /\ g.haveNow = m.haveNow
          /\ g.state = "SETTLING" => m.state \in {"SENDING", "SETTLING"}
      BY <2>3, TickIs
    <3>2. m.state = "SENDING" => m.settlingFor = 0
      BY <2>3 DEF Ready
    <3> QED BY <3>1, <3>2
  <2>5. /\ m.state = follower.state /\ m.settlingFor = follower.settlingFor
        /\ ~Fresh => ~m.haveNow
        /\ Fresh /\ latest.stamp # stamp => m.now = latest.at
        /\ Fresh /\ latest.stamp = stamp => m = follower
    BY <2>3, MeasuredIs
  <2> HIDE DEF g, m
  <2>6. follower'.settlingFor = follower.settlingFor /\ follower.settlingFor \in Nat
    BY <2>1, <2>3, <2>4, <2>5, FollowerIs
  <2>7. CASE follower.settlingFor = 0
    <3>1. \A age \in Nat : ~Within(age, follower'.settlingFor)
      BY <2>6, <2>7 DEF Within
    <3>2. /\ latest'.stamp.age \in Nat /\ stamp'.age \in Nat
          /\ \A j \in Moved : readAt'[j] \in Nat
          /\ reading' # <<>> => reading'.stamp.age \in Nat
      <4>1. latest'.stamp.age \in Nat
        BY <2>1, <2>3, StampsAre
      <4>2. stamp'.age \in Nat
        <5>1. stamp' \in [age : 0..MaxAge, place : Nat]
          BY DEF Types, ExecutorTypes
        <5> QED BY <1>1, <5>1
      <4>3. reading' # <<>> => reading'.stamp.age \in Nat
        <5>1. reading' # <<>> => reading' \in Message
          BY <2>1, NothingIs DEF Types, StepTypes, ArmTypes, D!TypeOK
        <5> QED BY <5>1 DEF Message
      <4> QED BY <1>2, <2>1, <4>1, <4>2, <4>3
    <3> QED BY <3>1, <3>2 DEF Approaches
  <2>8. CASE follower.settlingFor # 0
    <3>1. settling
      BY <2>1, <2>3, <2>4, <2>5, <2>8 DEF settling
    <3>2. ASSUME follower'.haveNow, Within(stamp'.age, follower'.settlingFor)
          PROVE  NoFurther(follower'.now, arm, goal)
      <4>1. Fresh /\ stamp' = latest.stamp /\ follower'.now = m.now
        BY <2>3, <2>4, <2>5, <3>2
      <4>2. CASE latest.stamp # stamp
        BY <2>5, <2>6, <3>1, <3>2, <4>1, <4>2 DEF Approaches
      <4>3. CASE latest.stamp = stamp
        BY <2>3, <2>4, <2>5, <2>6, <3>1, <3>2, <4>1, <4>3 DEF Approaches
      <4> QED BY <4>2, <4>3
    <3> QED BY <2>1, <2>6, <3>1, <3>2 DEF Approaches
  <2> QED BY <2>7, <2>8
<1>7. CASE Elapse
  <2>1. /\ run = "following" /\ UNCHANGED <<goal, position>> /\ reading' = <<>>
        /\ stamp' = Older(stamp)
    BY <1>7, ElapseIs DEF Elapse, factVars, settling
  <2>2. /\ settling /\ follower'.settlingFor = follower.settlingFor + 1
        /\ follower.settlingFor \in Nat /\ latest \in Message
        /\ follower'.now = follower.now /\ follower'.haveNow = follower.haveNow
        /\ latest'.at = latest.at /\ latest'.stamp = Older(latest.stamp)
    <3>1. follower.state = "SETTLING"
      BY <1>7, <2>1, ElapseIs DEF settling
    <3> QED BY <1>7, <2>1, <3>1, ElapseIs, FollowerIs DEF settling
  <2>3. /\ stamp.age \in 0..MaxAge /\ latest.stamp.age \in 0..MaxAge
        /\ stamp'.age = IF stamp.age < MaxAge THEN stamp.age + 1 ELSE stamp.age
        /\ latest'.stamp.age = IF latest.stamp.age < MaxAge THEN latest.stamp.age + 1 ELSE latest.stamp.age
    BY <2>1, <2>2, StampsAre, OlderIs
  <2>4. follower.now \in Looked /\ latest.at \in Looked
    BY <2>1, <2>2, FollowerIs, MessageIs DEF Followers
  <2>5. ASSUME NEW j \in Moved, Within(readAt'[j], follower'.settlingFor)
        PROVE  Distance(arm'[j], goal[j]) <= Distance(position[j], goal[j])
    <3>1. readAt'[j] = IF readAt[j] >= MaxAge THEN readAt[j] ELSE readAt[j] + 1
      BY <1>1, <1>7, ElapseIs
    <3>2. Within(readAt[j], follower.settlingFor) /\ follower.settlingFor >= 1
      BY <1>1, <1>2, <2>2, <2>5, <3>1 DEF Within
    <3>3. Distance(arm[j], goal[j]) <= Distance(position[j], goal[j])
      BY <2>2, <3>2 DEF Approaches
    <3>4. arm'[j] \in Int /\ Distance(arm'[j], goal[j]) <= Distance(arm[j], goal[j])
      BY <1>7, <2>2, <3>2, StepsNoFurther
    <3> QED BY <1>2, <3>3, <3>4 DEF Distance
  <2>6. ASSUME Within(latest'.stamp.age, follower'.settlingFor)
        PROVE  NoFurther(latest.at, arm', goal)
    <3>1. Within(latest.stamp.age, follower.settlingFor) /\ follower.settlingFor >= 1
      BY <2>2, <2>3, <2>6, WithinBefore
    <3>2. NoFurther(latest.at, arm, goal)
      BY <2>2, <3>1 DEF Approaches
    <3> QED BY <1>7, <2>2, <2>4, <3>1, <3>2, StillNoFurther
  <2>7. ASSUME follower.haveNow, Within(stamp'.age, follower'.settlingFor)
        PROVE  NoFurther(follower.now, arm', goal)
    <3>1. Within(stamp.age, follower.settlingFor) /\ follower.settlingFor >= 1
      BY <2>2, <2>3, <2>7, WithinBefore
    <3>2. NoFurther(follower.now, arm, goal)
      BY <2>2, <2>7, <3>1 DEF Approaches
    <3> QED BY <1>7, <2>2, <2>4, <3>1, <3>2, StillNoFurther
  <2> QED BY <2>1, <2>2, <2>5, <2>6, <2>7 DEF Approaches
<1>8. CASE OnJointTargets \/ OnStandby \/ PreemptArrives \/ GoalEnds \/ Touch \/ UNCHANGED vars
  <2>1. /\ UNCHANGED <<follower, latest, stamp, reading, arm, position, readAt, goal>>
        /\ run' = "following" => run = "following"
    BY <1>8, OnJointTargetsIs, OnStandbyIs, PreemptArrivesIs, GoalEndsIs, TouchIs, StutterIs
  <2>2. settling
    BY <2>1 DEF settling
  <2> QED BY <2>1, <2>2 DEF Approaches
<1> QED
  BY <1>3, <1>4, <1>5, <1>6, <1>7, <1>8 DEF Next, Loops, Call

\* The invariant under the theorem.
ApproachesAlways == Types /\ Settles /\ Approaches

\* An arrival that is seen by a reading younger than the last waypoint is real: every joint is
\* within the tolerance of the goal, on any legal path, with any joint held and any missed.  Only
\* one that is seen by a reading from before can be of an arm that still passes the goal.
THEOREM LateArrivalIsReal ==
  ASSUME PathsAreLegal
  PROVE  Spec => [][run = "following" /\ run' = "idle" /\ follower.path # <<>>
                    /\ latest.stamp.age < follower.settlingFor =>
                      \A j \in Moved : Distance(arm'[j], goal'[j]) <= Tolerance]_vars
<1>1. ASSUME ApproachesAlways, [Next]_vars, run = "following", run' = "idle", follower.path # <<>>,
             latest.stamp.age < follower.settlingFor, NEW j \in Moved
      PROVE  Distance(arm'[j], goal'[j]) <= Tolerance
  <2>1. Types /\ Settles /\ Approaches
    BY <1>1 DEF ApproachesAlways
  <2>2. /\ goal' = goal /\ arm' = arm /\ settling /\ goal \in Pose
        /\ Fresh /\ latest \in Message
        /\ Measured.now = IF latest.stamp # stamp THEN latest.at ELSE follower.now
        /\ latest.stamp = stamp => follower.haveNow
        /\ Distance(Measured.now[j], goal[j]) <= Tolerance
    BY <1>1, <2>1, ReachedIs
  <2>3. Within(latest.stamp.age, follower.settlingFor)
    BY <1>1, <2>2 DEF Fresh, Within
  <2>4. Measured.now \in Looked /\ NoFurther(Measured.now, arm, goal)
    <3>1. CASE latest.stamp # stamp
      BY <2>1, <2>2, <2>3, <3>1, MessageIs DEF Approaches
    <3>2. CASE latest.stamp = stamp
      <4>1. follower.now \in Looked
        BY <1>1, <2>1, FollowerIs DEF Followers
      <4> QED BY <2>1, <2>2, <2>3, <3>2, <4>1 DEF Approaches
    <3> QED BY <3>1, <3>2
  <2>5. /\ arm[j] \in Int /\ Measured.now[j] \in Int /\ goal[j] \in Int /\ Tolerance \in Int
        /\ Distance(arm[j], goal[j]) <= Distance(Measured.now[j], goal[j])
    BY <2>1, <2>2, <2>4, ArmIs, LookedIs, FollowAssumption DEF Pose, NoFurther
  <2>6. Distance(arm[j], goal[j]) \in Int /\ Distance(Measured.now[j], goal[j]) \in Int
    BY <2>5 DEF Distance
  <2> QED BY <2>2, <2>5, <2>6
<1>2. Init => ApproachesAlways
  BY TypesAtFirst, SettlesAtFirst, ApproachesAtFirst DEF ApproachesAlways
<1>3. ApproachesAlways /\ [Next]_vars => ApproachesAlways'
  BY TypesKept, SettlesKept, ApproachesKept DEF ApproachesAlways
<1>4. ApproachesAlways /\ [Next]_vars =>
        [run = "following" /\ run' = "idle" /\ follower.path # <<>>
         /\ latest.stamp.age < follower.settlingFor =>
           \A j \in Moved : Distance(arm'[j], goal'[j]) <= Tolerance]_vars
  BY <1>1
<1> QED BY <1>2, <1>3, <1>4, PTL DEF Spec
================================================================================
