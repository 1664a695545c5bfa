--------------------------- MODULE Pipeline_proofs ---------------------------
(***************************************************************************)
(* For any grid, radius, width of the counters, windows and settings: the  *)
(* vote over frames, with its marks, is a count of frames; what is carved  *)
(* leaves no obstacle where the arm grips; and the spots of the consensus  *)
(* are those that enough frames support.                                   *)
(***************************************************************************)
EXTENDS Pipeline, FiniteSetTheorems, TLAPS

W == 2 ^ Width

\* What is kept of a frame.
Made == {[poses |-> s.poses, candidates |-> Cropped(s.poses), occupied |-> o] :
           s \in Shots, o \in SUBSET Cells}

ResultsInv ==
  /\ window \in Seq(Shots) /\ results \in Seq(Made)
  /\ switches \in Switches /\ stage \in {"idle", "frames", "agreeing", "voting"}

\* Before the vote nothing has been counted.
CleanInv ==
  stage \in {"frames", "agreeing"} =>
    /\ votes = [c \in Cells |-> 0] /\ counted = [c \in Cells |-> 0]
    /\ measured = {} /\ voted = 0 /\ cast = {}

\* The frames up to the n-th that have an occupied cell near c.
SeersUpTo(c, n) == {k \in 1..n : Near(c) \cap results[k].occupied # {}}

\* Whether the frame that is voting has reached c already.
Reached(c) == Near(c) \cap cast # {}

\* How far the vote has come: the frames that are done, and what is done of the next.
ProgressInv ==
  /\ voted \in 0..Len(results)
  /\ voted = Len(results) => cast = {}
  /\ voted < Len(results) => cast \subseteq results[voted + 1].occupied
  /\ measured = (UNION {results[k].occupied : k \in 1..voted}) \cup cast

\* A count is the number of frames that have reached the cell, and a mark tells whether the
\* frame that is voting has: no earlier frame has its mark.
CountInv ==
  /\ votes \in [Cells -> Nat] /\ counted \in [Cells -> Nat]
  /\ \A c \in Cells :
       /\ Reached(c) => counted[c] = voted + 1
       /\ ~Reached(c) => counted[c] <= voted
       /\ votes[c] = Cardinality(SeersUpTo(c, voted)) + (IF Reached(c) THEN 1 ELSE 0)

Voting == stage = "voting" /\ switches.obstacle_averaging /\ Len(results) < W

VoteInv == ResultsInv /\ CleanInv /\ (Voting => ProgressInv /\ CountInv) /\ VoteIsCount

-----------------------------------------------------------------------------
\* The cells near a cell are those it is near to.
LEMMA NearIsMutual ==
  ASSUME NEW c \in Cells, NEW n \in Cells
  PROVE  c \in Near(n) <=> n \in Near(c)
<1>1. VoteRadius \in Nat BY GridAssumption
<1>2. /\ c[1] \in Int /\ c[2] \in Int /\ n[1] \in Int /\ n[2] \in Int
  BY GridAssumption DEF Cells
<1> QED BY <1>1, <1>2 DEF Near

\* A number below the modulus is its own remainder.
LEMMA SmallMod ==
  ASSUME NEW a \in Nat, NEW w \in Nat \ {0}, a < w
  PROVE  a % w = a
OBVIOUS

\* The width leaves room for a count.
LEMMA WidthLeavesRoom == W \in Nat /\ W > 1
BY VoteAssumption DEF W

\* A frame's occupied cells are cells.
LEMMA MadeOfCells ==
  ASSUME NEW r \in Made
  PROVE  r.occupied \subseteq Cells
<1> PICK s \in Shots, o \in SUBSET Cells :
      r = [poses |-> s.poses, candidates |-> Cropped(s.poses), occupied |-> o]
  BY DEF Made
<1> QED OBVIOUS

\* What is made of a shot is one of those that can be.
LEMMA MadeFromShot ==
  ASSUME NEW s \in Shots, NEW o \in SUBSET Cells
  PROVE  [poses |-> s.poses, candidates |-> Cropped(s.poses), occupied |-> o] \in Made
<1> DEFINE made(t, u) == [poses |-> t.poses, candidates |-> Cropped(t.poses), occupied |-> u]
<1> HIDE DEF made
<1>1. Made = {made(t, u) : t \in Shots, u \in SUBSET Cells}
  BY DEF Made, made
<1>2. made(s, o) \in Made
  BY <1>1
<1> QED BY <1>2 DEF made

\* One frame more sees the cell, or it does not.
LEMMA OneFrameMore ==
  ASSUME NEW c, NEW n \in Nat
  PROVE  /\ IsFiniteSet(SeersUpTo(c, n)) /\ Cardinality(SeersUpTo(c, n)) \in 0..n
         /\ Cardinality(SeersUpTo(c, n + 1)) =
              Cardinality(SeersUpTo(c, n)) + (IF Near(c) \cap results[n + 1].occupied # {} THEN 1 ELSE 0)
<1>1. IsFiniteSet(1..n) /\ Cardinality(1..n) = n
  BY FS_Interval
<1>2. SeersUpTo(c, n) \subseteq 1..n
  BY DEF SeersUpTo
<1>3. IsFiniteSet(SeersUpTo(c, n)) /\ Cardinality(SeersUpTo(c, n)) \in Nat /\ Cardinality(SeersUpTo(c, n)) <= n
  BY <1>1, <1>2, FS_Subset, FS_CardinalityType
<1>4. SeersUpTo(c, n + 1) = IF Near(c) \cap results[n + 1].occupied # {}
                            THEN SeersUpTo(c, n) \cup {n + 1} ELSE SeersUpTo(c, n)
  BY DEF SeersUpTo
<1>5. n + 1 \notin SeersUpTo(c, n)
  BY DEF SeersUpTo
<1>6. Cardinality(SeersUpTo(c, n) \cup {n + 1}) = Cardinality(SeersUpTo(c, n)) + 1
  BY <1>3, <1>5, FS_AddElement
<1> QED BY <1>3, <1>4, <1>6

-----------------------------------------------------------------------------
\* The frame that votes next: its number is below the width, its cells are cells of the grid.
LEMMA FrameThatVotes ==
  ASSUME ResultsInv, Voting, ProgressInv, voted < Len(results)
  PROVE  /\ voted \in Nat /\ Len(results) \in Nat /\ voted + 1 \in DOMAIN results
         /\ Mark = voted + 1 /\ results[voted + 1].occupied \subseteq Cells
<1>1. voted \in Nat /\ Len(results) \in Nat /\ voted + 1 \in 1..Len(results)
  BY DEF ResultsInv, ProgressInv
<1>2. voted + 1 < W
  BY <1>1, WidthLeavesRoom DEF Voting
<1>3. Mark = voted + 1
  BY <1>1, <1>2, WidthLeavesRoom, SmallMod DEF Mark, W
<1>4. results[voted + 1] \in Made /\ voted + 1 \in DOMAIN results
  BY <1>1 DEF ResultsInv
<1>5. results[voted + 1].occupied \subseteq Cells
  BY <1>4, MadeOfCells
<1> QED BY <1>1, <1>3, <1>4, <1>5

\* A cell that votes leaves the count a count.
LEMMA CastKeepsCount ==
  ASSUME ResultsInv, Voting, ProgressInv, CountInv, voted < Len(results),
         CastVote(results[voted + 1].occupied), UNCHANGED <<results, stage, switches>>
  PROVE  ProgressInv' /\ CountInv'
<1> DEFINE occupied == results[voted + 1].occupied
<1> PICK cell \in occupied \ cast :
      /\ votes' = [c \in Cells |-> IF c \in {n \in Near(cell) : counted[n] # Mark}
                                   THEN (votes[c] + 1) % 2 ^ Width ELSE votes[c]]
      /\ counted' = [c \in Cells |-> IF c \in {n \in Near(cell) : counted[n] # Mark} THEN Mark ELSE counted[c]]
      /\ measured' = measured \cup {cell}
      /\ cast' = cast \cup {cell}
      /\ voted' = voted
  BY DEF CastVote
<1>1. /\ voted \in Nat /\ Len(results) \in Nat /\ Mark = voted + 1 /\ cell \in Cells
      /\ occupied \subseteq Cells
  BY FrameThatVotes
<1>2. ProgressInv'
  BY <1>1 DEF ProgressInv
<1>3. ASSUME NEW c \in Cells
      PROVE  /\ Reached(c)' <=> Reached(c) \/ c \in Near(cell)
             /\ Cardinality(SeersUpTo(c, voted)) \in 0..voted
             /\ SeersUpTo(c, voted)' = SeersUpTo(c, voted)
  <2>1. Reached(c)' <=> Reached(c) \/ cell \in Near(c)
    BY DEF Reached, Near
  <2>2. c \in Near(cell) <=> cell \in Near(c)
    BY <1>1, NearIsMutual
  <2>3. Cardinality(SeersUpTo(c, voted)) \in 0..voted
    BY <1>1, OneFrameMore
  <2> QED BY <2>1, <2>2, <2>3 DEF SeersUpTo
<1>4. CountInv'
  <2>1. votes' \in [Cells -> Nat] /\ counted' \in [Cells -> Nat]
    BY <1>1, WidthLeavesRoom DEF CountInv, W
  <2>2. ASSUME NEW c \in Cells
        PROVE  /\ Reached(c)' => counted'[c] = voted' + 1
               /\ ~Reached(c)' => counted'[c] <= voted'
               /\ votes'[c] = Cardinality(SeersUpTo(c, voted)') + (IF Reached(c)' THEN 1 ELSE 0)
    <3> votes[c] \in Nat /\ counted[c] \in Nat
      BY DEF CountInv
    <3>4. /\ Reached(c) => counted[c] = voted + 1
          /\ ~Reached(c) => counted[c] <= voted
          /\ votes[c] = Cardinality(SeersUpTo(c, voted)) + (IF Reached(c) THEN 1 ELSE 0)
      BY DEF CountInv
    <3>5. Cardinality(SeersUpTo(c, voted)) \in Nat
      BY <1>1, OneFrameMore
    <3>1. CASE c \in Near(cell) /\ ~Reached(c)
      <4>1. counted[c] <= voted /\ votes[c] = Cardinality(SeersUpTo(c, voted))
        BY <3>1, <3>4, <3>5
      <4>2. votes[c] + 1 \in Nat /\ votes[c] + 1 < W
        BY <4>1, <1>1, <1>3, WidthLeavesRoom DEF Voting
      <4>3. (votes[c] + 1) % 2 ^ Width = votes[c] + 1
        BY <4>2, WidthLeavesRoom, SmallMod DEF W
      <4>4. counted[c] # Mark
        BY <4>1, <1>1
      <4>5. votes'[c] = votes[c] + 1 /\ counted'[c] = voted + 1
        BY <3>1, <4>3, <4>4, <1>1
      <4> QED BY <3>1, <4>1, <4>5, <1>3
    <3>2. CASE Reached(c)
      <4>1. counted[c] = voted + 1 /\ votes[c] = Cardinality(SeersUpTo(c, voted)) + 1
        BY <3>2, <3>4
      <4>2. votes'[c] = votes[c] /\ counted'[c] = counted[c]
        BY <4>1, <1>1
      <4> QED BY <3>2, <4>1, <4>2, <1>3
    <3>3. CASE c \notin Near(cell) /\ ~Reached(c)
      <4>1. counted[c] <= voted /\ votes[c] = Cardinality(SeersUpTo(c, voted))
        BY <3>3, <3>4, <3>5
      <4>2. votes'[c] = votes[c] /\ counted'[c] = counted[c]
        BY <3>3
      <4> QED BY <3>3, <4>1, <4>2, <1>3
    <3> QED BY <3>1, <3>2, <3>3
  <2>3. \A c \in Cells : SeersUpTo(c, voted)' = SeersUpTo(c, voted)
    BY <1>3
  <2> QED BY <2>1, <2>2, <2>3 DEF CountInv
<1> QED BY <1>2, <1>4

\* A frame whose cells have all voted is one of those that are done.
LEMMA EndKeepsCount ==
  ASSUME ResultsInv, Voting, ProgressInv, CountInv, voted < Len(results),
         EndFrame(results[voted + 1].occupied), UNCHANGED <<results, stage, switches>>
  PROVE  ProgressInv' /\ CountInv'
<1>1. /\ voted \in Nat /\ Len(results) \in Nat
  BY FrameThatVotes
<1>2. /\ cast = results[voted + 1].occupied
      /\ voted' = voted + 1 /\ cast' = {} /\ votes' = votes /\ counted' = counted /\ measured' = measured
  BY DEF EndFrame, ProgressInv
<1>3. ProgressInv'
  <2>1. 1..(voted + 1) = 1..voted \cup {voted + 1}
    BY <1>1
  <2>2. UNION {results[k].occupied : k \in 1..(voted + 1)} =
          (UNION {results[k].occupied : k \in 1..voted}) \cup results[voted + 1].occupied
    BY <2>1
  <2> QED BY <1>1, <1>2, <2>2 DEF ProgressInv
<1>4. CountInv'
  <2>1. ASSUME NEW c \in Cells
        PROVE  /\ ~Reached(c)'
               /\ counted[c] <= voted + 1
               /\ votes[c] = Cardinality(SeersUpTo(c, voted + 1))
    <3>1. ~Reached(c)'
      BY <1>2 DEF Reached
    <3>2. counted[c] <= voted + 1
      BY <1>1 DEF CountInv
    <3>3. Reached(c) <=> Near(c) \cap results[voted + 1].occupied # {}
      BY <1>2 DEF Reached
    <3>4. votes[c] = Cardinality(SeersUpTo(c, voted + 1))
      BY <1>1, <3>3, OneFrameMore DEF CountInv
    <3> QED BY <3>1, <3>2, <3>4
  <2>2. ASSUME NEW c \in Cells
        PROVE  SeersUpTo(c, voted)' = SeersUpTo(c, voted + 1)
    BY <1>2 DEF SeersUpTo
  <2> QED BY <1>2, <2>1, <2>2 DEF CountInv
<1> QED BY <1>3, <1>4

\* When every frame has voted, what is elected is what the count says.
LEMMA ElectedIsCount ==
  ASSUME ResultsInv, Voting, ProgressInv, CountInv, voted = Len(results)
  PROVE  Elected = {c \in UNION {results[k].occupied : k \in DOMAIN results} :
                      Cardinality(Seers(c)) >= MinFrames}
<1>1. DOMAIN results = 1..Len(results) /\ cast = {}
  BY DEF ResultsInv, ProgressInv
<1>2. measured = UNION {results[k].occupied : k \in DOMAIN results}
  BY <1>1 DEF ProgressInv
<1>3. ASSUME NEW k \in DOMAIN results PROVE results[k].occupied \subseteq Cells
  BY MadeOfCells DEF ResultsInv
<1>4. measured \subseteq Cells
  BY <1>2, <1>3
<1>5. ASSUME NEW c \in Cells PROVE votes[c] = Cardinality(Seers(c))
  <2>1. Seers(c) = SeersUpTo(c, voted) /\ ~Reached(c)
    BY <1>1 DEF Seers, SeersUpTo, Reached
  <2>2. Cardinality(SeersUpTo(c, voted)) \in Nat
    BY OneFrameMore DEF ProgressInv, ResultsInv
  <2> QED BY <2>1, <2>2 DEF CountInv
<1> QED BY <1>2, <1>4, <1>5 DEF Elected

-----------------------------------------------------------------------------
\* Nothing is counted at first.
LEMMA InitCounts == Init => VoteInv
<1> SUFFICES ASSUME Init PROVE VoteInv
  OBVIOUS
<1>1. ResultsInv
  <2>1. window \in Seq(Shots) /\ results \in Seq(Made)
    BY DEF Init
  <2> QED BY <2>1 DEF Init, ResultsInv
<1>2. CleanInv /\ ~Voting /\ VoteIsCount
  BY DEF Init, CleanInv, Voting, VoteIsCount, Done
<1> QED BY <1>1, <1>2 DEF VoteInv

\* A frame that is done is one of those the window allows, made of cells.
LEMMA FrameIsMade ==
  ASSUME ResultsInv, ProcessFrame
  PROVE  ResultsInv'
<1> DEFINE i == Len(results) + 1
           shot == window[i]
           cells == IF Wanted(i) THEN OccupiedCells(shot, switches.outlier_filter, HandleRegion(shot.poses)) ELSE {}
           made == [poses |-> shot.poses, candidates |-> Cropped(shot.poses), occupied |-> cells]
<1>1. results' = Append(results, made) /\ UNCHANGED <<switches, stage, window>>
  BY DEF ProcessFrame
<1>2. i \in 1..Len(window) /\ shot \in Shots
  BY DEF ProcessFrame, ResultsInv
<1>3. cells \in SUBSET Cells
  BY DEF OccupiedCells
<1> HIDE DEF cells
<1>4. made \in Made
  BY <1>2, <1>3, MadeFromShot
<1> HIDE DEF made
<1> QED BY <1>1, <1>4 DEF ResultsInv

\* The pipeline keeps the count.
THEOREM CountHolds == Spec => []VoteInv
<1>1. Init => VoteInv
  BY InitCounts
<1>2. VoteInv /\ [Next]_vars => VoteInv'
  <2> SUFFICES ASSUME VoteInv, [Next]_vars PROVE VoteInv'
    OBVIOUS
  <2> USE DEF VoteInv
  <2>1. CASE Process
    <3>1. ResultsInv'
      <4>1. PICK w \in Windows : window' = w
        BY <2>1 DEF Process
      <4>2. window' \in Seq(Shots)
        BY <4>1, WindowsAssumption
      <4>3. results' \in Seq(Made) /\ stage' = "frames" /\ switches' = switches
        BY <2>1 DEF Process
      <4> QED BY <4>2, <4>3 DEF ResultsInv
    <3>2. CleanInv' /\ ~Voting' /\ VoteIsCount'
      BY <2>1 DEF Process, NoVotes, CleanInv, Voting, VoteIsCount, Done
    <3> QED BY <3>1, <3>2
  <2>2. CASE ProcessFrame
    <3>1. ResultsInv'
      BY <2>2, FrameIsMade
    <3>2. CleanInv' /\ ~Voting' /\ VoteIsCount'
      BY <2>2 DEF ProcessFrame, voteVars, CleanInv, Voting, VoteIsCount, Done
    <3> QED BY <3>1, <3>2
  <2>3. ASSUME Average \/ Agree PROVE VoteInv'
    <3>1. /\ stage \in {"frames", "agreeing"} /\ stage' \in {"agreeing", "voting"}
          /\ UNCHANGED <<switches, window, results, votes, counted, measured, voted, cast>>
      BY <2>3 DEF Average, Agree, voteVars
    <3>2. ResultsInv' /\ CleanInv' /\ VoteIsCount'
      BY <3>1 DEF ResultsInv, CleanInv, VoteIsCount, Done
    <3>3. ProgressInv'
      BY <3>1 DEF CleanInv, ResultsInv, ProgressInv
    <3>4. CountInv'
      <4>1. /\ votes' = [c \in Cells |-> 0] /\ counted' = [c \in Cells |-> 0] /\ voted' = 0 /\ cast' = {}
        BY <3>1 DEF CleanInv
      <4>2. ASSUME NEW c \in Cells PROVE ~Reached(c)' /\ Cardinality(SeersUpTo(c, voted)') = 0
        BY <4>1, FS_EmptySet DEF Reached, SeersUpTo
      <4> QED BY <4>1, <4>2 DEF CountInv
    <3> QED BY <3>2, <3>3, <3>4
  <2>4. CASE Count
    <3>1. /\ stage = "voting" /\ voted < Len(results) /\ switches.obstacle_averaging
          /\ UNCHANGED <<switches, stage, window, results, obstacle_cells, handle_cells>>
          /\ CastVote(results[voted + 1].occupied) \/ EndFrame(results[voted + 1].occupied)
      BY <2>4 DEF Count, outputVars
    <3>2. ResultsInv' /\ CleanInv' /\ VoteIsCount'
      BY <3>1 DEF ResultsInv, CleanInv, VoteIsCount, Done
    <3>3. Voting' => Voting
      BY <3>1 DEF Voting
    <3> QED BY <3>1, <3>2, <3>3, CastKeepsCount, EndKeepsCount
  <2>5. CASE Carve
    <3>1. /\ stage = "voting" /\ stage' = "idle" /\ (~switches.obstacle_averaging \/ voted = Len(results))
          /\ UNCHANGED <<switches, window, results>>
          /\ obstacle_cells' \cup handle_cells' = Occupied
      BY <2>5 DEF Carve
    <3>2. ResultsInv' /\ CleanInv' /\ ~Voting'
      BY <3>1 DEF ResultsInv, CleanInv, Voting
    <3>3. VoteIsCount'
      <4> SUFFICES ASSUME switches.obstacle_averaging, Len(results) < W
                   PROVE  obstacle_cells' \cup handle_cells' =
                            {c \in UNION {results[k].occupied : k \in DOMAIN results} : Cardinality(Seers(c)) >= MinFrames}
        BY <3>1 DEF VoteIsCount, W, Seers
      <4>1. Voting /\ voted = Len(results)
        BY <3>1 DEF Voting
      <4> QED BY <3>1, <4>1, ElectedIsCount DEF Occupied
    <3> QED BY <3>2, <3>3
  <2>6. CASE UNCHANGED vars
    <3>1. UNCHANGED <<switches, stage, window, results, obstacle_cells, handle_cells, votes, counted,
                      measured, voted, cast>>
      BY <2>6 DEF vars, voteVars, outputVars
    <3>2. ResultsInv' /\ CleanInv' /\ VoteIsCount'
      BY <3>1 DEF ResultsInv, CleanInv, VoteIsCount, Done, Seers
    <3>3. (Voting' <=> Voting) /\ (ProgressInv' <=> ProgressInv)
      BY <3>1 DEF Voting, ProgressInv
    <3>4. CountInv' <=> CountInv
      BY <3>1 DEF CountInv, Reached, SeersUpTo
    <3> QED BY <3>2, <3>3, <3>4
  <2> QED BY <2>1, <2>2, <2>3, <2>4, <2>5, <2>6 DEF Next
<1> QED BY <1>1, <1>2, PTL DEF Spec

\* What is elected is what was measured and enough frames saw, for any grid, radius, width of
\* the counters and windows below 2^Width frames.
THEOREM VotesAreCounted == Spec => []VoteIsCount
<1>1. VoteInv => VoteIsCount
  BY DEF VoteInv
<1> QED BY <1>1, CountHolds, PTL

-----------------------------------------------------------------------------
(* Counting and recursion, for the functions the model defines step by step.               *)

\* Counting up to n: a set that holds 0, and with a number below n the next, holds 0..n.
Counts(D, n) == 0 \in D /\ \A k \in 0..(n - 1) : k \in D => k + 1 \in D

LEMMA CountingUp ==
  ASSUME NEW n \in Nat, NEW D \in SUBSET (0..n), Counts(D, n)
  PROVE  n \in D
<1> DEFINE G == {m \in 0..n : \A k \in 0..m : k \in D}
           f == [m \in G |-> m + 1]
<1> USE DEF Counts
<1> SUFFICES ASSUME n \notin G PROVE FALSE
  OBVIOUS
<1>1. 0 \in G
  OBVIOUS
<1>2. \A m \in G : m + 1 \in G \ {0}
  <2> SUFFICES ASSUME NEW m \in G PROVE m + 1 \in G \ {0}
    OBVIOUS
  <2>1. m \in Nat /\ m <= n /\ m # n /\ m \in 0..m
    OBVIOUS
  <2>2. m \in 0..(n - 1) /\ m \in D
    BY <2>1
  <2>3. m + 1 \in D
    BY <2>2
  <2>4. \A k \in 0..(m + 1) : k \in 0..m \/ k = m + 1
    BY <2>1
  <2>5. m + 1 \in 0..n
    BY <2>1
  <2> QED BY <2>3, <2>4, <2>5
<1>3. IsFiniteSet(0..n)
  BY FS_Interval
<1>4. G \in SUBSET (0..n)
  OBVIOUS
<1>5. IsFiniteSet(G)
  BY <1>3, <1>4, FS_Subset
<1>6. IsFiniteSet(G \ {0}) /\ Cardinality(G \ {0}) = Cardinality(G) - 1 /\ Cardinality(G) \in Nat
  BY <1>1, <1>5, FS_RemoveElement, FS_CardinalityType
<1>7. f \in [G -> G \ {0}]
  BY <1>2
<1> HIDE DEF f, G
<1>8. \E x, y \in G : x # y /\ f[x] = f[y]
  BY <1>5, <1>6, <1>7, FS_PigeonHole
<1>9. \A x \in G : x \in Nat /\ f[x] = x + 1
  BY <1>4 DEF f
<1> QED BY <1>8, <1>9


\* What each step makes of the value before it, from a first value on.
Runs(f, step, first, n) == f[0] = first /\ \A i \in 1..n : f[i] = step[i][f[i - 1]]

LEMMA Recursion ==
  ASSUME NEW T, NEW n \in Nat, NEW first \in T, NEW step \in [1..n -> [T -> T]]
  PROVE  \E f \in [0..n -> T] : Runs(f, step, first, n)
<1> DEFINE D == {m \in 0..n : \E f \in [0..m -> T] : Runs(f, step, first, m)}
<1>1. 0 \in D
  <2> DEFINE f == [i \in 0..0 |-> first]
  <2>1. f \in [0..0 -> T] /\ Runs(f, step, first, 0)
    BY DEF Runs
  <2> HIDE DEF f
  <2> QED BY <2>1
<1>2. \A m \in 0..(n - 1) : m \in D => m + 1 \in D
  <2> SUFFICES ASSUME NEW m \in 0..(n - 1), m \in D PROVE m + 1 \in D
    OBVIOUS
  <2>1. PICK f \in [0..m -> T] : Runs(f, step, first, m)
    OBVIOUS
  <2> HIDE DEF D
  <2>2. m \in Nat /\ m + 1 \in 1..n /\ m + 1 \in 0..n
    OBVIOUS
  <2>3. step[m + 1][f[m]] \in T
    BY <2>2
  <2> DEFINE g == [i \in 0..(m + 1) |-> IF i = m + 1 THEN step[m + 1][f[m]] ELSE f[i]]
  <2>4. g \in [0..(m + 1) -> T]
    BY <2>2, <2>3
  <2>5. g[m + 1] = step[m + 1][f[m]] /\ \A i \in 0..m : g[i] = f[i]
    BY <2>2
  <2> HIDE DEF g
  <2>6. ASSUME NEW i \in 1..(m + 1) PROVE g[i] = step[i][g[i - 1]]
    <3>1. i - 1 \in 0..m /\ (i # m + 1 => i \in 1..m /\ i \in 0..m) /\ (m + 1) - 1 = m
      BY <2>2
    <3>2. g[i - 1] = f[i - 1]
      BY <2>5, <3>1
    <3>3. CASE i = m + 1
      BY <2>5, <3>1, <3>2, <3>3
    <3>4. CASE i # m + 1
      BY <2>1, <2>5, <3>1, <3>2, <3>4 DEF Runs
    <3> QED BY <3>3, <3>4
  <2>7. Runs(g, step, first, m + 1)
    <3>1. g[0] = first
      BY <2>1, <2>2, <2>5 DEF Runs
    <3> QED BY <2>6, <3>1 DEF Runs
  <2> QED BY <2>2, <2>4, <2>7 DEF D
<1>3. D \in SUBSET (0..n)
  OBVIOUS
<1>4. n \in D
  <2> HIDE DEF D
  <2> QED BY <1>1, <1>2, <1>3, CountingUp DEF Counts
<1> QED BY <1>4

\* Functions that agree at first, and at a step when they do before it, agree in the end.
Follows(f, g, n) == f[0] = g[0] /\ \A i \in 1..n : f[i - 1] = g[i - 1] => f[i] = g[i]

LEMMA SameInTheEnd ==
  ASSUME NEW n \in Nat, NEW f, NEW g, Follows(f, g, n)
  PROVE  f[n] = g[n]
<1> DEFINE D == {m \in 0..n : f[m] = g[m]}
<1>1. 0 \in D
  BY DEF Follows
<1>2. \A m \in 0..(n - 1) : m \in D => m + 1 \in D
  <2> SUFFICES ASSUME NEW m \in 0..(n - 1), f[m] = g[m] PROVE m + 1 \in D
    OBVIOUS
  <2>1. m + 1 \in 1..n /\ m + 1 \in 0..n /\ (m + 1) - 1 = m
    OBVIOUS
  <2> QED BY <2>1 DEF Follows
<1>3. D \in SUBSET (0..n)
  OBVIOUS
<1>4. n \in D
  <2> HIDE DEF D
  <2> QED BY <1>1, <1>2, <1>3, CountingUp DEF Counts
<1> QED BY <1>4

\* The poses within the crop.
LEMMA CroppedType ==
  ASSUME NEW S, NEW poses \in Seq(S)
  PROVE  Cropped(poses) \in Seq(S)
<1> DEFINE n == Len(poses)
           keep(i, s) == IF InReach(poses[i]) THEN Append(s, poses[i]) ELSE s
           step == [i \in 1..n |-> [s \in Seq(S) |-> keep(i, s)]]
           all(k) == [i \in 0..n |-> IF i = 0 THEN <<>> ELSE keep(i, k[i - 1])]
           kept == CHOOSE k : k = all(k)
<1>1. n \in Nat /\ \A i \in 1..n : poses[i] \in S
  OBVIOUS
<1>2. \A i \in 1..n, s \in Seq(S) : keep(i, s) \in Seq(S)
  BY <1>1
<1>3. Cropped(poses) = kept[n]
  BY DEF Cropped
<1> HIDE DEF keep, n
<1>4. step \in [1..n -> [Seq(S) -> Seq(S)]] /\ <<>> \in Seq(S)
  BY <1>2
<1>5. PICK f \in [0..n -> Seq(S)] : Runs(f, step, <<>>, n)
  <2> HIDE DEF step
  <2> QED BY <1>1, <1>4, Recursion
<1>6. f[0] = <<>> /\ \A i \in 1..n : i - 1 \in 0..n /\ f[i] = keep(i, f[i - 1])
  <2>1. \A i \in 1..n : i - 1 \in 0..n /\ f[i] = step[i][f[i - 1]]
    <3>1. \A i \in 1..n : i - 1 \in 0..n
      BY <1>1
    <3> HIDE DEF step
    <3> QED BY <1>5, <3>1 DEF Runs
  <2>2. \A i \in 1..n : f[i - 1] \in Seq(S)
    BY <2>1
  <2> QED BY <1>5, <2>1, <2>2 DEF Runs
<1>7. f = all(f)
  <2>1. \A i \in 0..n : f[i] = IF i = 0 THEN <<>> ELSE keep(i, f[i - 1])
    BY <1>1, <1>6
  <2> QED BY <2>1
<1>8. kept = all(kept)
  <2> HIDE DEF all
  <2> QED BY <1>7, Zenon
<1> HIDE DEF kept
<1>9. kept[0] = <<>> /\ \A i \in 1..n : kept[i] = keep(i, kept[i - 1])
  BY <1>1, <1>8
<1>10. Follows(kept, f, n)
  BY <1>6, <1>9 DEF Follows
<1>11. kept[n] = f[n]
  BY <1>1, <1>10, SameInTheEnd
<1> QED BY <1>1, <1>3, <1>11

\* A sequence of sequences, one after the other.
LEMMA FlatType ==
  ASSUME NEW S, NEW ss \in Seq(Seq(S))
  PROVE  FlattenSeq(ss) \in Seq(S)
<1> DEFINE n == Len(ss)
           step == [i \in 1..n |-> [s \in Seq(S) |-> s \o ss[i]]]
           all(k) == [i \in 1..n |-> IF i = 1 THEN ss[i] ELSE k[i - 1] \o ss[i]]
           flat == CHOOSE k : k = all(k)
<1>1. n \in Nat /\ \A i \in 1..n : ss[i] \in Seq(S)
  OBVIOUS
<1>2. FlattenSeq(ss) = IF n = 0 THEN ss ELSE flat[n]
  BY DEF FlattenSeq
<1>3. n = 0 => ss \in Seq(S)
  OBVIOUS
<1> HIDE DEF n
<1>4. step \in [1..n -> [Seq(S) -> Seq(S)]] /\ <<>> \in Seq(S)
  BY <1>1
<1>5. PICK f \in [0..n -> Seq(S)] : Runs(f, step, <<>>, n)
  <2> HIDE DEF step
  <2> QED BY <1>1, <1>4, Recursion
<1>6. f[0] = <<>> /\ \A i \in 1..n : i - 1 \in 0..n /\ f[i] = f[i - 1] \o ss[i]
  <2>1. \A i \in 1..n : i - 1 \in 0..n /\ f[i] = step[i][f[i - 1]]
    <3>1. \A i \in 1..n : i - 1 \in 0..n
      BY <1>1
    <3> HIDE DEF step
    <3> QED BY <1>5, <3>1 DEF Runs
  <2>2. \A i \in 1..n : f[i - 1] \in Seq(S)
    BY <2>1
  <2> QED BY <1>5, <2>1, <2>2 DEF Runs
<1> DEFINE g == [i \in 1..n |-> f[i]]
<1>7. \A i \in 1..n : f[i] = IF i = 1 THEN ss[i] ELSE f[i - 1] \o ss[i]
  <2>1. ASSUME NEW s \in Seq(S) PROVE <<>> \o s = s
    OBVIOUS
  <2>2. ASSUME 1 \in 1..n PROVE f[1] = ss[1]
    <3>1. ASSUME NEW i \in 1..n, i = 1 PROVE f[i] = ss[i]
      <4>1. i - 1 = 0
        BY <3>1
      <4>2. f[i] = f[i - 1] \o ss[i]
        BY <1>6, Zenon
      <4>3. ss[i] \in Seq(S)
        BY <1>1
      <4>4. f[i - 1] = <<>>
        BY <1>6, <4>1
      <4>5. <<>> \o ss[i] = ss[i]
        BY <2>1, <4>3
      <4> QED BY <4>2, <4>4, <4>5
    <3> QED BY <2>2, <3>1
  <2> QED BY <1>6, <2>2
<1>7a. g = all(g)
  <2>1. \A i \in 1..n : g[i] = f[i] /\ (i # 1 => i - 1 \in 1..n /\ g[i - 1] = f[i - 1])
    BY <1>1
  <2> HIDE DEF g
  <2>2. \A i \in 1..n : g[i] = IF i = 1 THEN ss[i] ELSE g[i - 1] \o ss[i]
    BY <1>7, <2>1
  <2>3. g = [i \in 1..n |-> g[i]]
    BY DEF g
  <2> QED BY <2>2, <2>3
<1>8. flat = all(flat)
  <2> HIDE DEF all, g
  <2> QED BY <1>7a, Zenon
<1> HIDE DEF flat
<1>9. \A i \in 1..n : flat[i] = IF i = 1 THEN ss[i] ELSE flat[i - 1] \o ss[i]
  BY <1>1, <1>8
<1> DEFINE h == [i \in 0..n |-> IF i = 0 THEN <<>> ELSE flat[i]]
<1>10. h[0] = <<>> /\ \A i \in 1..n : h[i] = flat[i]
  BY <1>1
<1> HIDE DEF h
<1>11. Follows(h, f, n)
  <2> SUFFICES ASSUME NEW i \in 1..n, h[i - 1] = f[i - 1] PROVE h[i] = f[i]
    BY <1>6, <1>10 DEF Follows
  <2>1. i # 1 => i - 1 \in 1..n
    BY <1>1
  <2>2. CASE i = 1
    BY <1>7, <1>9, <1>10, <2>2
  <2>3. CASE i # 1
    BY <1>7, <1>9, <1>10, <2>1, <2>3
  <2> QED BY <2>2, <2>3
<1>12. n # 0 => flat[n] = f[n]
  <2>1. h[n] = f[n]
    BY <1>1, <1>11, SameInTheEnd
  <2> QED BY <1>1, <1>10, <2>1
<1> QED BY <1>1, <1>2, <1>3, <1>12

-----------------------------------------------------------------------------
(* Where the arm grips is carved.                                                          *)

\* The poses of a frame are points, and so are the candidates among them.
LEMMA PosesOfMade ==
  ASSUME NEW r \in Made
  PROVE  r.poses \in Seq(Points) /\ r.candidates \in Seq(Points)
<1> PICK s \in Shots, o \in SUBSET Cells :
      r = [poses |-> s.poses, candidates |-> Cropped(s.poses), occupied |-> o]
  BY DEF Made
<1>1. s.poses \in Seq(Points)
  BY DEF Shots
<1> QED BY <1>1, CroppedType

\* A sequence of whatever it holds.
IsList(s) == s \in Seq({s[i] : i \in DOMAIN s})

\* A sequence is a list.
LEMMA SeqIsList ==
  ASSUME NEW S, NEW s \in Seq(S)
  PROVE  IsList(s)
<1>1. s = [i \in 1..Len(s) |-> s[i]] /\ Len(s) \in Nat /\ DOMAIN s = 1..Len(s)
  OBVIOUS
<1>2. \A i \in 1..Len(s) : s[i] \in {s[j] : j \in DOMAIN s}
  BY <1>1
<1> QED BY <1>1, <1>2 DEF IsList

\* So is a list with one more.
LEMMA AppendKeepsList ==
  ASSUME NEW s, IsList(s), NEW e
  PROVE  IsList(Append(s, e))
<1> DEFINE A == {s[i] : i \in DOMAIN s} \cup {e}
<1>1. s \in Seq(A) /\ e \in A
  BY DEF IsList
<1> HIDE DEF A
<1>2. Append(s, e) \in Seq(A)
  BY <1>1
<1> QED BY <1>2, SeqIsList

\* What of the regions is carved around a pose, is carved with any poses it comes among.
LEMMA CarvedAroundAll ==
  ASSUME NEW S, NEW poses \in Seq(S), NEW last, IsList(last), NEW i \in DOMAIN last
  PROVE  /\ Around(last[i]) \subseteq HandleRegion(poses \o last)
         /\ Corridor(last[i]) \subseteq CorridorRegion(poses \o last)
<1> DEFINE A == {last[j] : j \in DOMAIN last} \cup S
           all == poses \o last
<1>1. poses \in Seq(A) /\ last \in Seq(A)
  BY DEF IsList
<1> HIDE DEF A
<1>2. i \in 1..Len(last) /\ Len(last) \in Nat /\ Len(poses) \in Nat
  BY <1>1
<1>3. Len(poses) + i \in DOMAIN all /\ all[Len(poses) + i] = last[i]
  BY <1>1, <1>2
<1> HIDE DEF all
<1>4. PICK k \in DOMAIN all : all[k] = last[i]
  BY <1>3
<1>5. /\ Around(all[k]) \subseteq HandleRegion(all)
      /\ Corridor(all[k]) \subseteq CorridorRegion(all)
  BY DEF HandleRegion, CorridorRegion
<1> QED BY <1>4, <1>5 DEF all

-----------------------------------------------------------------------------
\* The spots and candidates are lists; every frame of the window has been made before any of
\* it is averaged or carved.
ListsInv ==
  /\ ResultsInv
  /\ IsList(accepted) /\ IsList(candidates)
  /\ stage # "idle" => window # <<>>
  /\ stage \in {"agreeing", "voting"} => Len(results) = Len(window)

GraspInv == ListsInv /\ GraspIsFree

\* And one of none.
LEMMA EmptyIsList == IsList(<<>>)
<1>1. <<>> \in Seq({})
  OBVIOUS
<1> QED BY <1>1, SeqIsList

\* What is carved with the candidates is made of points and of them.
LEMMA CandidatesAreCarved ==
  ASSUME ListsInv, stage = "voting", NEW i \in DOMAIN candidates
  PROVE  /\ Around(candidates[i]) \subseteq HandleRegion(CarveFrom)
         /\ Corridor(candidates[i]) \subseteq CorridorRegion(CarveFrom)
<1> DEFINE seen == IF switches.obstacle_averaging
                   THEN FlattenSeq([k \in DOMAIN results |-> results[k].poses])
                   ELSE Last(results).poses
<1>1. /\ results \in Seq(Made) /\ window \in Seq(Shots) /\ window # <<>>
      /\ Len(results) = Len(window) /\ IsList(candidates)
  BY DEF ListsInv, ResultsInv
<1>2. Len(results) \in Nat /\ Len(results) \in DOMAIN results /\ DOMAIN results = 1..Len(results)
  BY <1>1
<1>3. \A k \in DOMAIN results : results[k] \in Made
  BY <1>1
<1>4. \A k \in DOMAIN results : results[k].poses \in Seq(Points)
  BY <1>3, PosesOfMade
<1>5. [k \in DOMAIN results |-> results[k].poses] \in Seq(Seq(Points))
  BY <1>2, <1>4
<1>6. FlattenSeq([k \in DOMAIN results |-> results[k].poses]) \in Seq(Points)
  BY <1>5, FlatType
<1>7. Last(results).poses \in Seq(Points)
  BY <1>2, <1>4 DEF Last
<1>8. seen \in Seq(Points)
  BY <1>6, <1>7
<1>9. CarveFrom = seen \o candidates
  BY DEF CarveFrom
<1> HIDE DEF seen
<1> QED BY <1>1, <1>8, <1>9, CarvedAroundAll

\* Verdict: the spots are a list as the accepted are.
LEMMA AgreedIsList ==
  ASSUME IsList(accepted), UNCHANGED accepted
  PROVE  IsList(Agreed')
<1>1. CASE drifting'
  BY <1>1, EmptyIsList DEF Agreed
<1>2. CASE ~drifting'
  <2> DEFINE spots == [i \in DOMAIN accepted |-> accepted[i].point]
             A == {accepted[i].point : i \in DOMAIN accepted}
  <2>1. Agreed' = spots
    BY <1>2 DEF Agreed
  <2>2. DOMAIN accepted = 1..Len(accepted) /\ Len(accepted) \in Nat
    BY DEF IsList
  <2>3. spots \in Seq(A)
    BY <2>2
  <2> HIDE DEF spots, A
  <2> QED BY <2>1, <2>3, SeqIsList
<1> QED BY <1>1, <1>2

\* Whatever is averaged, the lists stay lists and the carved regions hold every candidate.
THEOREM GraspHolds == Spec => []GraspInv
<1>1. Init => GraspInv
  <2> SUFFICES ASSUME Init PROVE GraspInv
    OBVIOUS
  <2>1. ResultsInv
    BY InitCounts DEF VoteInv
  <2>2. accepted = <<>> /\ candidates = <<>> /\ stage = "idle" /\ window = <<>>
    BY DEF Init
  <2> QED BY <2>1, <2>2, EmptyIsList DEF GraspInv, ListsInv, GraspIsFree, Done
<1>2. GraspInv /\ ResultsInv' /\ [Next]_vars => GraspInv'
  <2> SUFFICES ASSUME GraspInv, ResultsInv', [Next]_vars PROVE GraspInv'
    OBVIOUS
  <2> USE DEF GraspInv, ListsInv
  <2>1. CASE Process
    <3>1. PICK w \in Windows : window' = w
      BY <2>1 DEF Process
    <3>2. window' # <<>>
      BY <3>1, WindowsAssumption
    <3>3. stage' = "frames" /\ candidates' = <<>> /\ accepted' = <<>>
      BY <2>1 DEF Process, NothingTried
    <3> QED BY <3>2, <3>3, EmptyIsList DEF GraspIsFree, Done
  <2>2. CASE ProcessFrame
    <3>1. stage = "frames" /\ UNCHANGED <<stage, window, candidates, accepted>>
      BY <2>2 DEF ProcessFrame, outputVars, consensusVars
    <3> QED BY <3>1 DEF GraspIsFree, Done
  <2>3. CASE Average
    <3>1. /\ stage = "frames" /\ stage' \in {"agreeing", "voting"} /\ Len(results) = Len(window)
          /\ UNCHANGED <<window, results, accepted>>
          /\ candidates' \in {candidates, Last(results).candidates}
      BY <2>3 DEF Average, consensusVars
    <3>2. IsList(candidates')
      <4>1. results \in Seq(Made) /\ window \in Seq(Shots) /\ window # <<>>
        BY <3>1 DEF ResultsInv
      <4>2. Last(results) \in Made
        BY <3>1, <4>1 DEF Last
      <4>3. Last(results).candidates \in Seq(Points)
        BY <4>2, PosesOfMade
      <4> QED BY <3>1, <4>3, SeqIsList
    <3> QED BY <3>1, <3>2 DEF GraspIsFree, Done
  <2>4. CASE Agree
    <3>1. stage = "agreeing" /\ stage' \in {"agreeing", "voting"} /\ UNCHANGED <<window, results>>
      BY <2>4 DEF Agree
    <3>2. IsList(accepted') /\ IsList(candidates')
      <4>1. CASE TryAnchor(PerFrame) /\ UNCHANGED <<stage, candidates>>
        <5>1. accepted' = accepted \/ \E spot : accepted' = Append(accepted, spot)
          BY <4>1 DEF TryAnchor
        <5> QED BY <4>1, <5>1, AppendKeepsList
      <4>2. CASE Verdict(PerFrame) /\ candidates' = Agreed'
        <5>1. UNCHANGED accepted
          BY <4>2 DEF Verdict
        <5> QED BY <4>2, <5>1, AgreedIsList
      <4> QED BY <2>4, <4>1, <4>2 DEF Agree
    <3> QED BY <3>1, <3>2 DEF GraspIsFree, Done
  <2>5. CASE Count
    <3>1. stage = "voting" /\ UNCHANGED <<stage, window, results, candidates, accepted>>
      BY <2>5 DEF Count, outputVars, consensusVars
    <3> QED BY <3>1 DEF GraspIsFree, Done
  <2>6. CASE Carve
    <3>1. /\ stage = "voting" /\ stage' = "idle"
          /\ UNCHANGED <<switches, window, results, candidates, accepted>>
          /\ obstacle_cells' \cap Handle = {}
      BY <2>6 DEF Carve, consensusVars
    <3>2. ASSUME NEW i \in DOMAIN candidates
          PROVE  /\ switches.handle_carving => obstacle_cells' \cap Around(candidates[i]) = {}
                 /\ switches.corridor_carving => obstacle_cells' \cap Corridor(candidates[i]) = {}
      BY <3>1, CandidatesAreCarved DEF Handle
    <3> QED BY <3>1, <3>2 DEF GraspIsFree
  <2>7. CASE UNCHANGED vars
    BY <2>7 DEF vars, outputVars, consensusVars, GraspIsFree, Done
  <2> QED BY <2>1, <2>2, <2>3, <2>4, <2>5, <2>6, <2>7 DEF Next
<1>3. VoteInv => ResultsInv
  BY DEF VoteInv
<1> QED BY <1>1, <1>2, <1>3, CountHolds, PTL DEF Spec

\* For any grid, regions and windows, with or without either average, no obstacle cell is left
\* around a candidate, nor in front of it, when that is carved (process, carve_from).
THEOREM GraspStaysFree == Spec => []GraspIsFree
<1>1. GraspInv => GraspIsFree
  BY DEF GraspInv
<1> QED BY <1>1, GraspHolds, PTL

\* The lists are part of it.
LEMMA ListsHold == Spec => []ListsInv
<1>1. GraspInv => ListsInv
  BY DEF GraspInv
<1> QED BY <1>1, GraspHolds, PTL

-----------------------------------------------------------------------------
(* Distances on the plane.                                                                 *)

\* A number whose square is no more is no more.
LEMMA Squares ==
  ASSUME NEW a \in Nat, NEW b \in Nat, a * a <= b * b
  PROVE  a <= b
<1> SUFFICES ASSUME b + 1 <= a PROVE FALSE
  OBVIOUS
<1>1. PICK d \in Nat : a = b + 1 + d
  <2>1. a - b - 1 \in Nat /\ a = b + 1 + (a - b - 1)
    OBVIOUS
  <2> QED BY <2>1
<1>2. a * a = b * b + 2 * b + 1 + d * (2 * b + 2 + d)
  BY <1>1
<1>3. d * (2 * b + 2 + d) \in Nat
  OBVIOUS
<1> QED BY <1>2, <1>3

\* A square is not below zero.
LEMMA SquareIsNat ==
  ASSUME NEW x \in Int
  PROVE  x * x \in Nat
OBVIOUS

\* If a square is at most that of a distance, the number is at most the distance.
LEMMA SquareBounds ==
  ASSUME NEW x \in Int, NEW b \in Nat, x * x <= b * b
  PROVE  x \in -b..b
<1>1. CASE x >= 0
  <2>1. x \in Nat /\ x <= b
    BY <1>1, Squares
  <2> QED BY <2>1
<1>2. CASE x < 0
  <2>1. -x \in Nat /\ (-x) * (-x) = x * x
    BY <1>2
  <2>2. -x <= b
    BY <2>1, Squares
  <2> QED BY <1>2, <2>2
<1> QED BY <1>1, <1>2

\* The product of two directions is no more than that of their lengths.
LEMMA CauchySchwarz ==
  ASSUME NEW x \in Int, NEW y \in Int, NEW u \in Int, NEW v \in Int,
         NEW a \in Nat, NEW b \in Nat, x * x + y * y <= a * a, u * u + v * v <= b * b
  PROVE  x * u + y * v <= a * b
<1> DEFINE s == x * u + y * v
           t == x * v - y * u
           l == x * x + y * y
           r == u * u + v * v
<1>1. s \in Int /\ t \in Int /\ l \in Nat /\ r \in Nat
  OBVIOUS
<1>2. s * s + t * t = l * r
  OBVIOUS
<1>3. l * r <= (a * a) * (b * b)
  <2>1. PICK c \in Nat : a * a = l + c
    <3>1. a * a - l \in Nat /\ a * a = l + (a * a - l)
      BY <1>1
    <3> QED BY <3>1
  <2>2. PICK d \in Nat : b * b = r + d
    <3>1. b * b - r \in Nat /\ b * b = r + (b * b - r)
      BY <1>1
    <3> QED BY <3>1
  <2> HIDE DEF l, r
  <2>3. (l + c) * (r + d) = l * r + (l * d + c * r + c * d)
    BY <1>1
  <2>4. l * d + c * r + c * d \in Nat
    BY <1>1
  <2> QED BY <1>1, <2>1, <2>2, <2>3, <2>4
<1>4. t * t \in Nat
  BY <1>1, SquareIsNat
<1>5. (a * a) * (b * b) = (a * b) * (a * b) /\ a * b \in Nat
  OBVIOUS
<1> HIDE DEF s, t, l, r
<1>6. s * s <= (a * b) * (a * b)
  BY <1>1, <1>2, <1>3, <1>4, <1>5
<1>7. s \in -(a * b)..(a * b)
  BY <1>1, <1>5, <1>6, SquareBounds
<1> QED BY <1>1, <1>5, <1>7 DEF s

\* From one point to the next and on to a third is as far as both.
LEMMA Triangle ==
  ASSUME NEW p \in Points, NEW q \in Points, NEW r \in Points, NEW a \in Nat, NEW b \in Nat,
         Within(p, q, a), Within(q, r, b)
  PROVE  Within(p, r, a + b)
<1> DEFINE x == p[1] - q[1]
           y == p[2] - q[2]
           u == q[1] - r[1]
           v == q[2] - r[2]
<1>1. p[1] \in Int /\ p[2] \in Int /\ q[1] \in Int /\ q[2] \in Int /\ r[1] \in Int /\ r[2] \in Int
  BY DEF Points
<1>2. x \in Int /\ y \in Int /\ u \in Int /\ v \in Int
  BY <1>1
<1>3. x * x + y * y <= a * a /\ u * u + v * v <= b * b
  BY DEF Within, Apart
<1>4. p[1] - r[1] = x + u /\ p[2] - r[2] = y + v
  BY <1>1
<1> HIDE DEF x, y, u, v
<1>5. x * u + y * v <= a * b
  BY <1>2, <1>3, CauchySchwarz
<1>6. (x + u) * (x + u) + (y + v) * (y + v) =
        (x * x + y * y) + (u * u + v * v) + 2 * (x * u + y * v)
  BY <1>2
<1>7. (a + b) * (a + b) = a * a + b * b + 2 * (a * b)
  OBVIOUS
<1>8. (x + u) * (x + u) + (y + v) * (y + v) <= (a + b) * (a + b)
  <2> DEFINE k == x * x + y * y
             l == u * u + v * v
             m == x * u + y * v
             n == a * b
             c == a * a
             d == b * b
  <2>1. k \in Int /\ l \in Int /\ m \in Int /\ n \in Int /\ c \in Int /\ d \in Int
    BY <1>2
  <2>2. k <= c /\ l <= d /\ m <= n
    BY <1>3, <1>5
  <2> HIDE DEF k, l, m, n, c, d
  <2>3. k + l + 2 * m <= c + d + 2 * n
    BY <2>1, <2>2
  <2> QED BY <1>6, <1>7, <2>3 DEF k, l, m, n, c, d
<1> QED BY <1>4, <1>8 DEF Within, Apart

\* Squares grow with the number.
LEMMA SquareGrows ==
  ASSUME NEW a \in Nat, NEW b \in Nat, a <= b
  PROVE  a * a <= b * b
<1>1. PICK d \in Nat : b = a + d
  <2>1. b - a \in Nat /\ b = a + (b - a)
    OBVIOUS
  <2> QED BY <2>1
<1>2. b * b = a * a + d * (2 * a + d) /\ d * (2 * a + d) \in Nat
  BY <1>1
<1> QED BY <1>2

\* What is within a distance is within more.
LEMMA WithinMore ==
  ASSUME NEW p \in Points, NEW q \in Points, NEW a \in Nat, NEW b \in Nat, a <= b, Within(p, q, a)
  PROVE  Within(p, q, b)
<1>1. Apart(p, q) \in Int
  BY DEF Points, Apart
<1>2. a * a <= b * b /\ a * a \in Int /\ b * b \in Int
  BY SquareGrows
<1> QED BY <1>1, <1>2 DEF Within

-----------------------------------------------------------------------------
(* Sums, means and medians over a finite set.                                              *)

\* Total: the sum over a set is the sum over what is left of it and one of its members.
TotalOf(t, f, S) ==
  t = [s \in SUBSET S |-> IF s = {} THEN 0
                          ELSE f[CHOOSE x \in s : TRUE] + t[s \ {CHOOSE x \in s : TRUE}]]

\* What Total stands for.
LEMMA TotalIs ==
  ASSUME NEW S, NEW f
  PROVE  Total(f, S) = (CHOOSE t : TotalOf(t, f, S))[S]
BY DEF Total, FoldFunctionOnSet, MapThenFoldSet, TotalOf

\* There is such a sum: over sets of m + 1 from those of m.
LEMMA TotalExists ==
  ASSUME NEW S, IsFiniteSet(S), NEW f, \A k \in S : f[k] \in Int
  PROVE  \E t \in [SUBSET S -> Int] : TotalOf(t, f, S)
<1> DEFINE n == Cardinality(S)
           Upto(m) == {s \in SUBSET S : Cardinality(s) <= m}
           one(s) == CHOOSE x \in s : TRUE
           sum(t, s) == IF s = {} THEN 0 ELSE f[one(s)] + t[s \ {one(s)}]
           Sums(m) == {t \in [Upto(m) -> Int] : \A s \in Upto(m) : t[s] = sum(t, s)}
           D == {m \in 0..n : Sums(m) # {}}
<1>1. n \in Nat
  BY FS_CardinalityType
<1>2. \A s \in SUBSET S : IsFiniteSet(s) /\ Cardinality(s) \in 0..n /\ (Cardinality(s) = 0 <=> s = {})
  BY FS_Subset, FS_CardinalityType, FS_EmptySet, <1>1
<1>3. ASSUME NEW s \in SUBSET S, s # {}
      PROVE  /\ one(s) \in S /\ s \ {one(s)} \in SUBSET S
             /\ Cardinality(s \ {one(s)}) = Cardinality(s) - 1
  <2>1. one(s) \in s
    BY <1>3
  <2> HIDE DEF one
  <2> QED BY <1>2, <2>1, FS_RemoveElement
<1> HIDE DEF one, n
<1>4. 0 \in D
  <2> DEFINE t == [s \in Upto(0) |-> 0]
  <2>1. \A s \in Upto(0) : s = {}
    BY <1>2
  <2>2. t \in Sums(0)
    BY <2>1
  <2> HIDE DEF Sums
  <2> QED BY <1>1, <2>2
<1>5. \A m \in 0..(n - 1) : m \in D => m + 1 \in D
  <2> SUFFICES ASSUME NEW m \in 0..(n - 1), m \in D PROVE m + 1 \in D
    OBVIOUS
  <2>1. PICK t \in Sums(m) : TRUE
    OBVIOUS
  <2>2. t \in [Upto(m) -> Int] /\ \A s \in Upto(m) : t[s] = sum(t, s)
    OBVIOUS
  <2> DEFINE u == [s \in Upto(m + 1) |-> sum(t, s)]
  <2>3. m \in Nat /\ m + 1 \in 0..n
    BY <1>1
  <2> HIDE DEF D, Sums
  <2>4. ASSUME NEW s \in Upto(m + 1), s # {}
        PROVE  s \ {one(s)} \in Upto(m) /\ one(s) \in S
    <3>1. s \in SUBSET S /\ Cardinality(s) <= m + 1 /\ Cardinality(s) \in Int
      BY <1>2
    <3> QED BY <1>3, <2>3, <2>4, <3>1
  <2>5. u \in [Upto(m + 1) -> Int]
    <3> SUFFICES ASSUME NEW s \in Upto(m + 1) PROVE sum(t, s) \in Int
      OBVIOUS
    <3>1. CASE s = {}
      BY <3>1
    <3>2. CASE s # {}
      <4>1. f[one(s)] \in Int /\ t[s \ {one(s)}] \in Int
        BY <2>2, <2>4, <3>2
      <4> QED BY <3>2, <4>1
    <3> QED BY <3>1, <3>2
  <2>6. \A s \in Upto(m) : s \in Upto(m + 1) /\ u[s] = t[s]
    <3> SUFFICES ASSUME NEW s \in Upto(m) PROVE s \in Upto(m + 1) /\ u[s] = t[s]
      OBVIOUS
    <3>1. s \in Upto(m + 1)
      BY <1>2, <2>3
    <3>2. t[s] = sum(t, s)
      BY <2>2
    <3> HIDE DEF sum, Upto
    <3> QED BY <3>1, <3>2
  <2>7. \A s \in Upto(m + 1) : u[s] = sum(u, s)
    <3> SUFFICES ASSUME NEW s \in Upto(m + 1) PROVE u[s] = sum(u, s)
      OBVIOUS
    <3>1. u[s] = sum(t, s)
      OBVIOUS
    <3>2. s # {} => u[s \ {one(s)}] = t[s \ {one(s)}]
      BY <2>4, <2>6
    <3> HIDE DEF u, Upto
    <3> QED BY <3>1, <3>2
  <2>8. u \in Sums(m + 1)
    BY <2>5, <2>7 DEF Sums
  <2> QED BY <2>3, <2>8 DEF D
<1>6. n \in D
  <2>1. D \in SUBSET (0..n)
    OBVIOUS
  <2> HIDE DEF D
  <2> QED BY <1>1, <1>4, <1>5, <2>1, CountingUp DEF Counts
<1>7. PICK t \in Sums(n) : TRUE
  BY <1>6
<1>8. Upto(n) = SUBSET S
  BY <1>1, <1>2
<1>9. t \in [SUBSET S -> Int] /\ \A s \in SUBSET S : t[s] = sum(t, s)
  BY <1>7, <1>8
<1>10. t = [s \in SUBSET S |-> sum(t, s)]
  BY <1>9
<1> QED BY <1>9, <1>10 DEF TotalOf, one

\* A sum of whole numbers between two bounds is between as many times the bounds.
LEMMA TotalBounds ==
  ASSUME NEW S, IsFiniteSet(S), NEW f, NEW lo \in Int, NEW hi \in Int,
         \A k \in S : f[k] \in lo..hi
  PROVE  /\ Total(f, S) \in Int
         /\ lo * Cardinality(S) <= Total(f, S) /\ Total(f, S) <= hi * Cardinality(S)
<1> DEFINE n == Cardinality(S)
           one(s) == CHOOSE x \in s : TRUE
           total == CHOOSE t : TotalOf(t, f, S)
           Between(s) == /\ total[s] \in Int /\ lo * Cardinality(s) <= total[s]
                         /\ total[s] <= hi * Cardinality(s)
           D == {m \in 0..n : \A s \in SUBSET S : Cardinality(s) = m => Between(s)}
<1>1. n \in Nat
  BY FS_CardinalityType
<1>2. \A s \in SUBSET S : IsFiniteSet(s) /\ Cardinality(s) \in 0..n /\ (Cardinality(s) = 0 <=> s = {})
  BY FS_Subset, FS_CardinalityType, FS_EmptySet, <1>1
<1>3. ASSUME NEW s \in SUBSET S, s # {}
      PROVE  /\ one(s) \in S /\ s \ {one(s)} \in SUBSET S
             /\ Cardinality(s \ {one(s)}) = Cardinality(s) - 1
  <2>1. one(s) \in s
    BY <1>3
  <2> HIDE DEF one
  <2> QED BY <1>2, <2>1, FS_RemoveElement
<1>4. TotalOf(total, f, S)
  <2>1. \A k \in S : f[k] \in Int
    OBVIOUS
  <2>2. \E t \in [SUBSET S -> Int] : TotalOf(t, f, S)
    BY <2>1, TotalExists
  <2> HIDE DEF TotalOf
  <2> QED BY <2>2, Zenon
<1> HIDE DEF total, n
<1>5. \A s \in SUBSET S : total[s] = IF s = {} THEN 0 ELSE f[one(s)] + total[s \ {one(s)}]
  BY <1>4 DEF TotalOf
<1> HIDE DEF one
<1>6. 0 \in D
  <2>1. ASSUME NEW s \in SUBSET S, Cardinality(s) = 0 PROVE Between(s)
    <3>1. total[s] = 0
      BY <1>2, <1>5, <2>1
    <3>2. lo * 0 = 0 /\ hi * 0 = 0
      OBVIOUS
    <3> QED BY <2>1, <3>1, <3>2
  <2> HIDE DEF Between
  <2> QED BY <1>1, <2>1
<1>7. \A m \in 0..(n - 1) : m \in D => m + 1 \in D
  <2> SUFFICES ASSUME NEW m \in 0..(n - 1), m \in D PROVE m + 1 \in D
    OBVIOUS
  <2>1. m \in Nat /\ m + 1 \in 0..n
    BY <1>1
  <2>2. \A s \in SUBSET S : Cardinality(s) = m => Between(s)
    OBVIOUS
  <2>3. ASSUME NEW s \in SUBSET S, Cardinality(s) = m + 1 PROVE Between(s)
    <3> DEFINE x == one(s)
               r == s \ {x}
    <3>1. s # {}
      BY <1>2, <2>1, <2>3
    <3>2. x \in S /\ r \in SUBSET S /\ Cardinality(r) = m
      BY <1>3, <2>1, <2>3, <3>1
    <3>3. total[r] \in Int /\ lo * m <= total[r] /\ total[r] <= hi * m
      BY <2>2, <3>2
    <3>4. total[s] = f[x] + total[r]
      BY <1>5, <3>1
    <3>5. f[x] \in Int /\ lo <= f[x] /\ f[x] <= hi
      BY <3>2
    <3>6. lo * (m + 1) = lo * m + lo /\ hi * (m + 1) = hi * m + hi
      BY <2>1
    <3>7. lo * m \in Int /\ hi * m \in Int
      BY <2>1
    <3> HIDE DEF x, r
    <3> QED BY <2>3, <3>3, <3>4, <3>5, <3>6, <3>7
  <2> HIDE DEF Between
  <2> QED BY <2>1, <2>3
<1>8. n \in D
  <2>1. D \in SUBSET (0..n)
    OBVIOUS
  <2> HIDE DEF D
  <2> QED BY <1>1, <1>6, <1>7, <2>1, CountingUp DEF Counts
<1>9. Between(S)
  BY <1>8 DEF n
<1>10. Total(f, S) = total[S]
  BY TotalIs DEF total
<1> QED BY <1>9, <1>10

\* The mean of whole numbers, rounded down, is between their bounds.
LEMMA MeanBounds ==
  ASSUME NEW S, IsFiniteSet(S), S # {}, NEW f, NEW lo \in Int, NEW hi \in Int,
         \A k \in S : f[k] \in lo..hi
  PROVE  Total(f, S) \div Cardinality(S) \in lo..hi
<1> DEFINE n == Cardinality(S)
           t == Total(f, S)
           m == t \div n
<1>1. n \in Nat /\ n > 0
  BY FS_CardinalityType, FS_EmptySet
<1>2. t \in Int /\ lo * n <= t /\ t <= hi * n
  BY TotalBounds
<1> HIDE DEF n, t
<1>3. m \in Int /\ m * n <= t /\ t < m * n + n
  BY <1>1, <1>2
<1> HIDE DEF m
<1>4. lo <= m
  <2> SUFFICES ASSUME m + 1 <= lo PROVE FALSE
    BY <1>3
  <2>1. PICK d \in Nat : lo = m + 1 + d
    <3>1. lo - m - 1 \in Nat /\ lo = m + 1 + (lo - m - 1)
      BY <1>3
    <3> QED BY <3>1
  <2>2. lo * n = m * n + n + d * n /\ d * n \in Nat /\ m * n \in Int
    BY <1>1, <1>3, <2>1
  <2> QED BY <1>1, <1>2, <1>3, <2>2
<1>5. m <= hi
  <2> SUFFICES ASSUME hi + 1 <= m PROVE FALSE
    BY <1>3
  <2>1. PICK d \in Nat : m = hi + 1 + d
    <3>1. m - hi - 1 \in Nat /\ m = hi + 1 + (m - hi - 1)
      BY <1>3
    <3> QED BY <3>1
  <2>2. m * n = hi * n + n + d * n /\ d * n \in Nat /\ hi * n \in Int
    BY <1>1, <1>3, <2>1
  <2> QED BY <1>1, <1>2, <1>3, <2>2
<1> QED BY <1>3, <1>4, <1>5 DEF m, n, t

\* Of finitely many, one is highest, and one is lowest.
LEMMA Highest ==
  ASSUME NEW S, IsFiniteSet(S), S # {}, NEW f \in [S -> Int]
  PROVE  \E x \in S : \A y \in S : f[y] <= f[x]
<1> DEFINE n == Cardinality(S) - 1
           Has(s) == \E x \in s : \A y \in s : f[y] <= f[x]
           D == {m \in 0..n : \A s \in SUBSET S : Cardinality(s) = m + 1 => Has(s)}
<1>1. n \in Nat
  BY FS_CardinalityType, FS_EmptySet
<1>2. \A s \in SUBSET S : IsFiniteSet(s) /\ Cardinality(s) \in Nat
  BY FS_Subset, FS_CardinalityType
<1> HIDE DEF n
<1>3. ASSUME NEW s \in SUBSET S, NEW x \in s, NEW k \in Nat, Cardinality(s) = k + 1
      PROVE  s \ {x} \in SUBSET S /\ Cardinality(s \ {x}) = k
  BY <1>2, <1>3, FS_RemoveElement
<1>4. 0 \in D
  <2>1. ASSUME NEW s \in SUBSET S, Cardinality(s) = 0 + 1 PROVE Has(s)
    <3>1. PICK x \in s : TRUE
      BY <2>1, FS_EmptySet
    <3>2. Cardinality(s \ {x}) = 0 /\ IsFiniteSet(s \ {x})
      BY <1>2, <1>3, <2>1
    <3>3. s \ {x} = {}
      BY <3>2, FS_EmptySet
    <3>4. x \in S /\ \A y \in s : y = x
      BY <3>3
    <3> QED BY <3>4
  <2> HIDE DEF Has
  <2> QED BY <1>1, <2>1
<1>5. \A m \in 0..(n - 1) : m \in D => m + 1 \in D
  <2> SUFFICES ASSUME NEW m \in 0..(n - 1), m \in D PROVE m + 1 \in D
    OBVIOUS
  <2>1. m \in Nat /\ m + 1 \in Nat /\ m + 1 \in 0..n
    BY <1>1
  <2>2. \A s \in SUBSET S : Cardinality(s) = m + 1 => Has(s)
    OBVIOUS
  <2> HIDE DEF D
  <2>3. ASSUME NEW s \in SUBSET S, Cardinality(s) = (m + 1) + 1 PROVE Has(s)
    <3>1. PICK z \in s : TRUE
      BY <2>1, <2>3, FS_EmptySet
    <3>2. s \ {z} \in SUBSET S /\ Cardinality(s \ {z}) = m + 1
      BY <1>3, <2>1, <2>3
    <3>3. PICK x \in s \ {z} : \A y \in s \ {z} : f[y] <= f[x]
      BY <2>2, <3>2
    <3>4. \A y \in s : f[y] \in Int
      OBVIOUS
    <3>5. CASE f[x] <= f[z]
      <4>1. \A y \in s : f[y] <= f[z]
        BY <3>3, <3>4, <3>5
      <4> QED BY <4>1
    <3>6. CASE ~(f[x] <= f[z])
      <4>1. \A y \in s : f[y] <= f[x]
        BY <3>3, <3>4, <3>6
      <4> QED BY <4>1
    <3> QED BY <3>5, <3>6
  <2> HIDE DEF Has
  <2> QED BY <2>1, <2>3 DEF D
<1>6. n \in D
  <2>1. D \in SUBSET (0..n)
    OBVIOUS
  <2> HIDE DEF D
  <2> QED BY <1>1, <1>4, <1>5, <2>1, CountingUp DEF Counts
<1>7. n + 1 = Cardinality(S)
  BY <1>1, FS_CardinalityType DEF n
<1> QED BY <1>6, <1>7

\* Lowest is highest of what is turned round.
LEMMA Lowest ==
  ASSUME NEW S, IsFiniteSet(S), S # {}, NEW f \in [S -> Int]
  PROVE  \E x \in S : \A y \in S : f[x] <= f[y]
<1> DEFINE g == [x \in S |-> -f[x]]
<1>1. g \in [S -> Int]
  OBVIOUS
<1>2. PICK x \in S : \A y \in S : g[y] <= g[x]
  <2> HIDE DEF g
  <2> QED BY <1>1, Highest
<1>3. \A y \in S : f[x] <= f[y]
  BY <1>2
<1> QED BY <1>3

\* Least: there is an n-th least of values.
LEMMA LeastType ==
  ASSUME NEW S, IsFiniteSet(S), NEW f \in [S -> Int], NEW n \in 1..Cardinality(S)
  PROVE  Least(f, S, n) \in Int
<1> DEFINE Upto(v) == {k \in S : f[k] <= v}
           Below(v) == {k \in S : f[k] < v}
           Enough == {k \in S : Cardinality(Upto(f[k])) >= n}
<1>1. Cardinality(S) \in Nat /\ S # {} /\ n \in Nat /\ n >= 1
  BY FS_CardinalityType, FS_EmptySet
<1>2. \A s \in SUBSET S : IsFiniteSet(s) /\ Cardinality(s) \in Nat
  BY FS_Subset, FS_CardinalityType
<1>3. Enough # {}
  <2>1. PICK k \in S : \A y \in S : f[y] <= f[k]
    BY <1>1, Highest
  <2>2. Upto(f[k]) = S
    BY <2>1
  <2> QED BY <2>2
<1>4. PICK k \in Enough : \A j \in Enough : f[k] <= f[j]
  <2> DEFINE h == [x \in Enough |-> f[x]]
  <2>1. Enough \in SUBSET S
    OBVIOUS
  <2>2. IsFiniteSet(Enough)
    BY <1>2, <2>1
  <2> HIDE DEF Enough
  <2>3. h \in [Enough -> Int]
    BY <2>1
  <2>4. PICK k \in Enough : \A j \in Enough : h[k] <= h[j]
    <3> HIDE DEF h
    <3> QED BY <1>3, <2>2, <2>3, Lowest
  <2>5. \A j \in Enough : f[k] <= f[j]
    BY <2>4
  <2> QED BY <2>5
<1>5. k \in S /\ Cardinality(Upto(f[k])) >= n /\ f[k] \in Int
  OBVIOUS
<1>6. Cardinality(Below(f[k])) < n
  <2> DEFINE L == Below(f[k])
             h == [x \in L |-> f[x]]
  <2> SUFFICES ASSUME ~(Cardinality(L) < n) PROVE FALSE
    OBVIOUS
  <2>1. L \in SUBSET S
    OBVIOUS
  <2>2. IsFiniteSet(L) /\ Cardinality(L) \in Nat /\ Cardinality(L) >= n /\ L # {}
    <3>1. IsFiniteSet(L) /\ Cardinality(L) \in Nat
      BY <1>2, <2>1
    <3> HIDE DEF L
    <3>2. Cardinality(L) >= n
      BY <1>1, <3>1
    <3> QED BY <1>1, <3>1, <3>2, FS_EmptySet
  <2>3. h \in [L -> Int]
    BY <2>1
  <2>4. PICK j \in L : \A i \in L : h[i] <= h[j]
    <3> HIDE DEF h, L
    <3> QED BY <2>2, <2>3, Highest
  <2>5. j \in S /\ f[j] < f[k] /\ f[j] \in Int
    OBVIOUS
  <2>6. L \subseteq Upto(f[j]) /\ Upto(f[j]) \in SUBSET S
    BY <2>4
  <2>7. Cardinality(L) <= Cardinality(Upto(f[j])) /\ Cardinality(Upto(f[j])) \in Nat
    <3> DEFINE U == Upto(f[j])
    <3>1. L \in SUBSET U /\ IsFiniteSet(U)
      BY <1>2, <2>6
    <3>2. U \in SUBSET S
      OBVIOUS
    <3>3. Cardinality(L) <= Cardinality(U) /\ Cardinality(U) \in Nat
      <4> HIDE DEF L, U
      <4> QED BY <1>2, <3>1, <3>2, FS_Subset
    <3> QED BY <3>3
  <2>8. Cardinality(Upto(f[j])) >= n
    <3> DEFINE u == Cardinality(Upto(f[j]))
               c == Cardinality(L)
    <3>1. c \in Nat /\ u \in Nat /\ c <= u /\ c >= n
      BY <2>2, <2>7
    <3> HIDE DEF u, c
    <3>2. u >= n
      BY <1>1, <3>1
    <3> QED BY <3>2 DEF u
  <2>9. j \in Enough
    BY <2>5, <2>8
  <2>10. f[k] <= f[j]
    <3> HIDE DEF Enough
    <3> QED BY <1>4, <2>9
  <2> QED BY <1>5, <2>5, <2>10
<1> DEFINE values == {f[x] : x \in S}
           Nth(v) == Cardinality(Below(v)) < n /\ Cardinality(Upto(v)) >= n
<1>7. \E v \in values : Nth(v)
  BY <1>5, <1>6
<1>8. Least(f, S, n) = CHOOSE v \in values : Nth(v)
  BY DEF Least
<1>9. values \subseteq Int
  OBVIOUS
<1> HIDE DEF values, Nth
<1> QED BY <1>7, <1>8, <1>9

\* Twice a median is a whole number.
LEMMA TwiceMedianType ==
  ASSUME NEW S, IsFiniteSet(S), S # {}, NEW f \in [S -> Int]
  PROVE  TwiceMedian(f, S) \in Int
<1> DEFINE n == Cardinality(S)
<1>1. n \in Nat /\ n >= 1
  BY FS_CardinalityType, FS_EmptySet
<1>2. TwiceMedian(f, S) = IF n % 2 = 1 THEN 2 * Least(f, S, n \div 2 + 1)
                          ELSE Least(f, S, n \div 2) + Least(f, S, n \div 2 + 1)
  BY DEF TwiceMedian
<1>3. \A k \in 1..n : Least(f, S, k) \in Int
  BY LeastType
<1> HIDE DEF n
<1>4. n \div 2 + 1 \in 1..n \/ n % 2 = 0
  BY <1>1
<1>5. n % 2 = 0 => n \div 2 \in 1..n /\ n \div 2 + 1 \in 1..n
  BY <1>1
<1>6. n % 2 = 0 \/ n % 2 = 1
  BY <1>1
<1>7. CASE n % 2 = 1
  <2>1. n \div 2 + 1 \in 1..n
    BY <1>4, <1>7
  <2>2. Least(f, S, n \div 2 + 1) \in Int
    BY <1>3, <2>1
  <2> QED BY <1>2, <1>7, <2>2
<1>8. CASE n % 2 = 0
  <2>1. Least(f, S, n \div 2) \in Int /\ Least(f, S, n \div 2 + 1) \in Int
    BY <1>3, <1>5, <1>8
  <2> QED BY <1>2, <1>8, <2>1
<1> QED BY <1>6, <1>7, <1>8

-----------------------------------------------------------------------------
(* What the frames make of an anchor.                                                      *)

\* A pose that is on the plane of an anchor, or begins a bar across it, is near to it.
LEMMA CrossingIsNear ==
  ASSUME NEW anchor \in Points, NEW poses \in Seq(Points), NEW i \in CrossingsOf(anchor, poses)
  PROVE  /\ i \in DOMAIN poses /\ poses[i][1] \in Int /\ poses[i][2] \in Int
         /\ poses[i][1] - anchor[1] \in -AlongBar..AlongBar
         /\ poses[i][2] \in (anchor[2] - MatchDistance)..(anchor[2] + MatchDistance)
<1>1. /\ MatchDistance \in Nat /\ MaxPoseGap \in Nat /\ EndTolerance \in Nat
      /\ anchor[1] \in Int /\ anchor[2] \in Int
  BY ConsensusAssumption DEF Points
<1>2. \A k \in DOMAIN poses : poses[k][1] \in Int /\ poses[k][2] \in Int
  BY DEF Points
<1>3. AlongBar \in Nat /\ MaxPoseGap <= AlongBar /\ EndTolerance <= AlongBar
  BY <1>1 DEF AlongBar
<1>4. i \in DOMAIN poses /\ Off(anchor, poses[i]) <= MatchDistance
  BY DEF CrossingsOf, Bars, Ends
<1>5. poses[i][2] \in (anchor[2] - MatchDistance)..(anchor[2] + MatchDistance)
  BY <1>1, <1>2, <1>4 DEF Off
<1>6. poses[i][1] - anchor[1] \in -AlongBar..AlongBar
  <2>1. CASE i \in Bars(anchor, poses)
    <3> DEFINE x == poses[i][1] - anchor[1]
               y == poses[i + 1][1] - anchor[1]
               z == poses[i][2] - poses[i + 1][2]
    <3>1. /\ i \in 1..(Len(poses) - 1) /\ Joined(poses[i], poses[i + 1])
          /\ x * y <= 0
      BY <2>1 DEF Bars
    <3>2. i + 1 \in DOMAIN poses
      BY <3>1
    <3>3. x \in Int /\ y \in Int /\ z \in Int
      BY <1>1, <1>2, <1>4, <3>2
    <3>4. poses[i][1] - poses[i + 1][1] = x - y
      BY <1>1, <1>2, <1>4, <3>2
    <3>5. (x - y) * (x - y) + z * z <= MaxPoseGap * MaxPoseGap
      BY <3>1, <3>4 DEF Joined, Within, Apart
    <3> HIDE DEF x, y, z
    <3>6. (x - y) * (x - y) = x * x + y * y - 2 * (x * y)
      BY <3>3
    <3>7. x * x \in Nat /\ y * y \in Nat /\ z * z \in Nat /\ x * y \in Int
      BY <3>3, SquareIsNat
    <3>8. x * x <= MaxPoseGap * MaxPoseGap
      BY <1>1, <3>1, <3>5, <3>6, <3>7
    <3>9. x \in -MaxPoseGap..MaxPoseGap
      BY <1>1, <3>3, <3>8, SquareBounds
    <3>10. x \in -AlongBar..AlongBar
      BY <1>1, <1>3, <3>3, <3>9
    <3> QED BY <3>10 DEF x
  <2>2. CASE i \in Ends(anchor, poses)
    <3>1. poses[i][1] - anchor[1] \in -EndTolerance..EndTolerance
      BY <2>2 DEF Ends
    <3> QED BY <1>1, <1>3, <3>1
  <2> QED BY <2>1, <2>2 DEF CrossingsOf
<1> QED BY <1>2, <1>4, <1>5, <1>6

\* Lateral: where the chain crosses is a pose of it that crosses.
LEMMA LateralOfCrossing ==
  ASSUME NEW anchor \in Points, NEW poses \in Seq(Points), CrossingsOf(anchor, poses) # {}
  PROVE  \E i \in CrossingsOf(anchor, poses) : Lateral(anchor, poses) = poses[i][2]
<1> DEFINE at == CrossingsOf(anchor, poses)
           off(i) == Off(anchor, poses[i])
           Nearest(i) == \A j \in at : off(i) < off(j) \/ (off(i) = off(j) /\ j <= i)
           f == [i \in at |-> off(i)]
           same(i) == {j \in at : off(j) = off(i)}
<1>1. \A i \in at : i \in Nat /\ i \in 1..Len(poses) /\ off(i) \in Int
  <2> SUFFICES ASSUME NEW i \in at PROVE i \in Nat /\ i \in 1..Len(poses) /\ off(i) \in Int
    OBVIOUS
  <2>1. i \in DOMAIN poses /\ poses[i][2] \in Int /\ anchor[2] \in Int
    BY CrossingIsNear DEF Points
  <2> QED BY <2>1 DEF Off
<1>2. IsFiniteSet(at)
  <2>1. at \in SUBSET (1..Len(poses)) /\ Len(poses) \in Nat
    BY <1>1
  <2>2. IsFiniteSet(1..Len(poses))
    BY <2>1, FS_Interval
  <2> HIDE DEF at
  <2> QED BY <2>1, <2>2, FS_Subset
<1>3. Lateral(anchor, poses) = poses[CHOOSE i \in at : Nearest(i)][2]
  BY DEF Lateral
<1> HIDE DEF at, off
<1>4. PICK k \in at : \A j \in at : off(k) <= off(j)
  <2>1. f \in [at -> Int] /\ at # {}
    BY <1>1 DEF at
  <2>2. PICK k \in at : \A j \in at : f[k] <= f[j]
    <3> HIDE DEF f
    <3> QED BY <1>2, <2>1, Lowest
  <2> QED BY <2>2
<1>5. PICK i \in same(k) : \A j \in same(k) : j <= i
  <2> DEFINE S == same(k)
             g == [j \in S |-> j]
  <2>1. S \in SUBSET at /\ k \in S
    OBVIOUS
  <2>2. IsFiniteSet(S) /\ S # {}
    <3> HIDE DEF S
    <3> QED BY <1>2, <2>1, FS_Subset
  <2>3. g \in [S -> Int]
    BY <1>1, <2>1
  <2>4. PICK i \in S : \A j \in S : g[j] <= g[i]
    <3> HIDE DEF g, S
    <3> QED BY <2>2, <2>3, Highest
  <2> QED BY <2>4
<1>6. Nearest(i)
  <2> SUFFICES ASSUME NEW j \in at PROVE off(i) < off(j) \/ (off(i) = off(j) /\ j <= i)
    OBVIOUS
  <2>1. off(i) = off(k) /\ off(k) <= off(j) /\ off(i) \in Int /\ off(j) \in Int
    BY <1>1, <1>4
  <2>2. off(j) = off(k) => j <= i
    BY <1>5
  <2> QED BY <2>1, <2>2
<1>7. (CHOOSE j \in at : Nearest(j)) \in at
  <2>1. i \in at
    OBVIOUS
  <2> HIDE DEF Nearest
  <2> QED BY <1>6, <2>1
<1> QED BY <1>3, <1>7 DEF at

\* AgreeOn: what the frames make of an anchor they agree on.
LEMMA AgreedSpot ==
  ASSUME NEW anchor \in Points, NEW frames \in Seq(Seq(Points)), NEW spot,
         spot = AgreeOn(anchor, frames), spot.refusal = "NONE"
  PROVE  /\ spot.point \in Points
         /\ Within(spot.point, anchor, MatchDistance)
         /\ Cardinality({k \in DOMAIN frames : Supports(frames[k], spot.point)}) >= MinAgreeing
<1> DEFINE found == {k \in DOMAIN frames : CrossingsOf(anchor, frames[k]) # {}}
           lateral == [k \in found |-> Lateral(anchor, frames[k])]
           median == TwiceMedian(lateral, found)
           inliers == {k \in found : Size(2 * lateral[k] - median) <= 2 * OutlierDistance}
           mean == Total(lateral, inliers) \div Cardinality(inliers)
           supporters == {k \in DOMAIN frames : Supports(frames[k], spot.point)}
<1>1. /\ ~(Cardinality(inliers) < MinAgreeing)
      /\ spot.point = <<anchor[1], mean>>
  <2> HIDE DEF mean, inliers
  <2>1. spot = IF Cardinality(found) < MinAgreeing THEN Refused("TOO_FEW_FRAMES")
               ELSE IF Cardinality(inliers) < MinAgreeing THEN Refused("OUTLIERS")
               ELSE IF Spread(lateral, inliers) THEN Refused("SPREAD")
               ELSE [refusal |-> "NONE", frames |-> found, point |-> <<anchor[1], mean>>]
    BY DEF AgreeOn, mean, inliers
  <2>2. /\ Refused("TOO_FEW_FRAMES").refusal = "TOO_FEW_FRAMES"
        /\ Refused("OUTLIERS").refusal = "OUTLIERS" /\ Refused("SPREAD").refusal = "SPREAD"
    BY DEF Refused
  <2>3. spot = [refusal |-> "NONE", frames |-> found, point |-> <<anchor[1], mean>>]
        /\ ~(Cardinality(inliers) < MinAgreeing)
    <3> HIDE DEF found, lateral
    <3> QED BY <2>1, <2>2
  <2> HIDE DEF found, lateral
  <2> QED BY <2>3
<1>2. /\ anchor[1] \in Int /\ anchor[2] \in Int
      /\ MatchDistance \in Nat /\ OutlierDistance \in Nat /\ MinAgreeing \in Nat \ {0}
  BY ConsensusAssumption DEF Points
<1>3. \A k \in DOMAIN frames : frames[k] \in Seq(Points)
  OBVIOUS
<1>4. IsFiniteSet(found) /\ IsFiniteSet(inliers)
  <2>1. found \in SUBSET (1..Len(frames)) /\ Len(frames) \in Nat
    OBVIOUS
  <2>2. inliers \in SUBSET found
    OBVIOUS
  <2>3. IsFiniteSet(1..Len(frames))
    BY <2>1, FS_Interval
  <2> HIDE DEF inliers, found
  <2> QED BY <2>1, <2>2, <2>3, FS_Subset
\* The frames that are found have a pose where they cross.
<1>5. ASSUME NEW k \in found
      PROVE  \E i \in DOMAIN frames[k] :
               /\ frames[k][i][1] - anchor[1] \in -AlongBar..AlongBar
               /\ frames[k][i][2] = lateral[k]
               /\ lateral[k] \in (anchor[2] - MatchDistance)..(anchor[2] + MatchDistance)
  <2>1. frames[k] \in Seq(Points) /\ CrossingsOf(anchor, frames[k]) # {}
    BY <1>3
  <2>2. PICK i \in CrossingsOf(anchor, frames[k]) : Lateral(anchor, frames[k]) = frames[k][i][2]
    BY <2>1, LateralOfCrossing
  <2>3. lateral[k] = frames[k][i][2]
    BY <2>2
  <2> HIDE DEF lateral
  <2> QED BY <2>1, <2>3, CrossingIsNear
<1>6. \A k \in found : lateral[k] \in Int /\ lateral[k] \in (anchor[2] - MatchDistance)..(anchor[2] + MatchDistance)
  <2> HIDE DEF lateral, found
  <2> QED BY <1>2, <1>5
<1>7. inliers # {} /\ inliers \in SUBSET found
  <2>1. Cardinality({}) = 0
    BY FS_EmptySet
  <2>2. inliers \in SUBSET found
    OBVIOUS
  <2> HIDE DEF inliers, mean
  <2>3. ASSUME inliers = {} PROVE FALSE
    <3>1. Cardinality(inliers) = 0
      BY <2>1, <2>3
    <3> QED BY <1>1, <1>2, <3>1
  <2> QED BY <2>2, <2>3
<1>8. median \in Int
  <2>1. lateral \in [found -> Int] /\ found # {}
    BY <1>6, <1>7
  <2> HIDE DEF lateral, found
  <2> QED BY <1>4, <2>1, TwiceMedianType
<1>9. \A k \in inliers : /\ k \in found
                         /\ 2 * lateral[k] - median <= 2 * OutlierDistance
                         /\ median - 2 * lateral[k] <= 2 * OutlierDistance
  <2> SUFFICES ASSUME NEW k \in inliers
               PROVE  /\ k \in found
                      /\ 2 * lateral[k] - median <= 2 * OutlierDistance
                      /\ median - 2 * lateral[k] <= 2 * OutlierDistance
    OBVIOUS
  <2>1. k \in found /\ Size(2 * lateral[k] - median) <= 2 * OutlierDistance
    OBVIOUS
  <2>2. lateral[k] \in Int
    BY <1>6, <2>1
  <2> HIDE DEF lateral, found, inliers, median
  <2> QED BY <1>2, <1>8, <2>1, <2>2 DEF Size
<1> HIDE DEF median, found, lateral, inliers
<1>10. mean \in (anchor[2] - MatchDistance)..(anchor[2] + MatchDistance)
  <2>1. anchor[2] - MatchDistance \in Int /\ anchor[2] + MatchDistance \in Int
    BY <1>2
  <2>2. \A k \in inliers : lateral[k] \in (anchor[2] - MatchDistance)..(anchor[2] + MatchDistance)
    BY <1>6, <1>7
  <2> QED BY <1>4, <1>7, <2>1, <2>2, MeanBounds
<1>11. ASSUME NEW k \in inliers
       PROVE  lateral[k] - mean \in -(2 * OutlierDistance)..(2 * OutlierDistance)
  <2> DEFINE lo == lateral[k] - 2 * OutlierDistance
             hi == lateral[k] + 2 * OutlierDistance
  <2>1. lateral[k] \in Int /\ lo \in Int /\ hi \in Int
    BY <1>2, <1>6, <1>7
  <2>2. \A j \in inliers : lateral[j] \in lo..hi
    <3> SUFFICES ASSUME NEW j \in inliers PROVE lateral[j] \in lo..hi
      OBVIOUS
    <3>1. lateral[j] \in Int
      BY <1>6, <1>7
    <3>2. /\ 2 * lateral[k] - median <= 2 * OutlierDistance
          /\ median - 2 * lateral[k] <= 2 * OutlierDistance
          /\ 2 * lateral[j] - median <= 2 * OutlierDistance
          /\ median - 2 * lateral[j] <= 2 * OutlierDistance
      BY <1>9
    <3> DEFINE a == lateral[k]
               b == lateral[j]
               d == OutlierDistance
    <3>3. /\ a \in Int /\ b \in Int /\ d \in Nat
          /\ 2 * a - median <= 2 * d /\ median - 2 * a <= 2 * d
          /\ 2 * b - median <= 2 * d /\ median - 2 * b <= 2 * d
      BY <1>2, <2>1, <3>1, <3>2
    <3> HIDE DEF a, b, d
    <3>4. b \in (a - 2 * d)..(a + 2 * d)
      BY <1>8, <3>3
    <3> QED BY <3>4 DEF a, b, d
  <2>3. mean \in lo..hi
    <3> HIDE DEF lo, hi
    <3> QED BY <1>4, <1>7, <2>1, <2>2, MeanBounds
  <2> HIDE DEF mean
  <2> QED BY <1>2, <2>1, <2>3
<1>12. mean \in Int
  BY <1>2, <1>10
<1> HIDE DEF mean
<1>13. spot.point \in Points /\ Within(spot.point, anchor, MatchDistance)
  <2>1. spot.point[1] = anchor[1] /\ spot.point[2] = mean
    BY <1>1
  <2> DEFINE d == mean - anchor[2]
  <2>2. d \in -MatchDistance..MatchDistance /\ d \in Int
    BY <1>2, <1>10, <1>12
  <2>3. d * d <= MatchDistance * MatchDistance
    <3>1. CASE d >= 0
      <4>1. d \in Nat /\ d <= MatchDistance
        BY <2>2, <3>1
      <4> HIDE DEF d
      <4> QED BY <1>2, <4>1, SquareGrows
    <3>2. CASE d < 0
      <4>1. -d \in Nat /\ -d <= MatchDistance /\ (-d) * (-d) = d * d
        BY <1>2, <2>2, <3>2
      <4> DEFINE e == -d
      <4> HIDE DEF d, e
      <4>2. e \in Nat /\ e <= MatchDistance /\ e * e = d * d
        BY <4>1 DEF e
      <4> QED BY <1>2, <4>2, SquareGrows
    <3> QED BY <2>2, <3>1, <3>2
  <2>4. anchor[1] - anchor[1] = 0 /\ 0 * 0 = 0 /\ d * d \in Int
    BY <1>2, <2>2
  <2>5. Apart(spot.point, anchor) = d * d
    BY <2>1, <2>4 DEF Apart
  <2>6. spot.point \in Points
    BY <1>1, <1>2, <1>12 DEF Points
  <2> QED BY <2>3, <2>5, <2>6 DEF Within
<1>14. inliers \in SUBSET supporters
  <2> SUFFICES ASSUME NEW k \in inliers PROVE k \in supporters
    OBVIOUS
  <2>1. k \in found /\ k \in DOMAIN frames
    BY <1>7 DEF found
  <2>2. PICK i \in DOMAIN frames[k] : /\ frames[k][i][1] - anchor[1] \in -AlongBar..AlongBar
                                      /\ frames[k][i][2] = lateral[k]
    BY <1>5, <2>1
  <2>3. spot.point[1] = anchor[1] /\ spot.point[2] = mean
    BY <1>1
  <2>4. Supports(frames[k], spot.point)
    BY <1>11, <2>2, <2>3 DEF Supports
  <2> QED BY <2>1, <2>4
<1>15. Cardinality(supporters) >= MinAgreeing
  <2>1. supporters \in SUBSET (1..Len(frames)) /\ Len(frames) \in Nat
    OBVIOUS
  <2> HIDE DEF supporters
  <2>2. IsFiniteSet(supporters)
    <3>1. IsFiniteSet(1..Len(frames))
      BY <2>1, FS_Interval
    <3> QED BY <2>1, <3>1, FS_Subset
  <2>3. /\ Cardinality(supporters) \in Nat /\ Cardinality(inliers) \in Nat
        /\ Cardinality(inliers) <= Cardinality(supporters)
    BY <1>4, <1>14, <2>2, FS_Subset, FS_CardinalityType
  <2> QED BY <1>1, <1>2, <2>3
<1> QED BY <1>13, <1>15

-----------------------------------------------------------------------------
\* The loop over anchors, with frames, spots, what was tried and how far it has come.
SpotOf(frames, spots, k) ==
  \E j \in DOMAIN Anchors(frames) :
    spots[k] = AgreeOn(Anchors(frames)[j], frames) /\ spots[k].refusal = "NONE"

\* A spot is beside a point, within a distance.
Beside(spots, p, distance) == \E k \in DOMAIN spots : Within(spots[k].point, p, distance)

\* What was tried is a spot, or an anchor that is not agreed on or has a spot beside it.
TriedOf(frames, spots, q) ==
  \/ \E k \in DOMAIN spots : q = spots[k].point
  \/ \E j \in DOMAIN Anchors(frames) :
       /\ q = Anchors(frames)[j]
       /\ \/ AgreeOn(q, frames).refusal # "NONE"
          \/ Beside(spots, q, DuplicateDistance + MatchDistance)

\* What SpotsAreAgreed says of an anchor.
Explained(frames, spots, i) ==
  \/ Beside(spots, Anchors(frames)[i], 2 * DuplicateDistance + MatchDistance)
  \/ \E j \in DOMAIN Anchors(frames) :
       /\ Within(Anchors(frames)[j], Anchors(frames)[i], DuplicateDistance)
       /\ AgreeOn(Anchors(frames)[j], frames).refusal # "NONE"

Loop(frames, spots, points, n) ==
  /\ n \in Nat \ {0}
  /\ \A k \in DOMAIN spots : SpotOf(frames, spots, k)
  /\ \A q \in points : TriedOf(frames, spots, q)
  /\ \A i \in DOMAIN Anchors(frames) : i < n => Explained(frames, spots, i)

\* Anchors: all of them are points.
LEMMA AnchorsType ==
  ASSUME NEW frames \in Seq(Seq(Points))
  PROVE  Anchors(frames) \in Seq(Points)
<1>1. CASE frames = <<>>
  BY <1>1 DEF Anchors
<1>2. CASE frames # <<>>
  <2>1. Len(frames) \in Nat /\ Len(frames) \in DOMAIN frames
    BY <1>2
  <2>2. Last(frames) \in Seq(Points)
    BY <2>1 DEF Last
  <2>3. Front(frames) \in Seq(Seq(Points))
    BY <1>2, <2>1 DEF Front
  <2>4. FlattenSeq(Front(frames)) \in Seq(Points)
    BY <2>3, FlatType
  <2> QED BY <1>2, <2>2, <2>4 DEF Anchors
<1> QED BY <1>1, <1>2

\* The distances of SpotsAreAgreed add up.
LEMMA DistancesAre ==
  /\ DuplicateDistance \in Nat /\ MatchDistance \in Nat
  /\ DuplicateDistance + MatchDistance \in Nat /\ 2 * DuplicateDistance + MatchDistance \in Nat
  /\ DuplicateDistance + (DuplicateDistance + MatchDistance) = 2 * DuplicateDistance + MatchDistance
  /\ (DuplicateDistance + MatchDistance) + DuplicateDistance = 2 * DuplicateDistance + MatchDistance
  /\ DuplicateDistance <= 2 * DuplicateDistance + MatchDistance
  /\ MatchDistance <= DuplicateDistance + MatchDistance
  /\ DuplicateDistance + MatchDistance <= 2 * DuplicateDistance + MatchDistance
BY ConsensusAssumption

\* A list with one more holds what it held, and that.
LEMMA AppendedList ==
  ASSUME NEW s, IsList(s), NEW e, NEW t, t = Append(s, e)
  PROVE  /\ \A k \in DOMAIN s : k \in DOMAIN t /\ t[k] = s[k]
         /\ \E k \in DOMAIN t : t[k] = e
         /\ \A k \in DOMAIN t : k \in DOMAIN s \/ t[k] = e
<1> DEFINE A == {s[i] : i \in DOMAIN s} \cup {e}
<1>1. s \in Seq(A) /\ e \in A
  BY DEF IsList
<1> HIDE DEF A
<1>2. /\ DOMAIN s = 1..Len(s) /\ DOMAIN t = 1..(Len(s) + 1) /\ Len(s) \in Nat
      /\ t[Len(s) + 1] = e /\ \A k \in 1..Len(s) : t[k] = s[k]
  BY <1>1
<1>3. Len(s) + 1 \in DOMAIN t
  BY <1>2
<1>4. \A k \in DOMAIN t : k \in DOMAIN s \/ k = Len(s) + 1
  BY <1>2
<1>5. \A k \in DOMAIN s : k \in DOMAIN t
  BY <1>2
<1> QED BY <1>2, <1>3, <1>4, <1>5

\* Points of what was tried, and of the spots.
LEMMA LoopPoints ==
  ASSUME NEW frames \in Seq(Seq(Points)), NEW spots, NEW points, NEW n, Loop(frames, spots, points, n)
  PROVE  /\ \A i \in DOMAIN Anchors(frames) : Anchors(frames)[i] \in Points
         /\ \A k \in DOMAIN spots : spots[k].point \in Points
         /\ \A q \in points : q \in Points
<1>1. \A i \in DOMAIN Anchors(frames) : Anchors(frames)[i] \in Points
  BY AnchorsType
<1>2. ASSUME NEW k \in DOMAIN spots PROVE spots[k].point \in Points
  <2>1. PICK j \in DOMAIN Anchors(frames) :
          spots[k] = AgreeOn(Anchors(frames)[j], frames) /\ spots[k].refusal = "NONE"
    BY DEF Loop, SpotOf
  <2>2. Anchors(frames)[j] \in Points
    BY <1>1
  <2> QED BY <2>1, <2>2, AgreedSpot
<1>3. ASSUME NEW q \in points PROVE q \in Points
  <2>1. TriedOf(frames, spots, q)
    BY DEF Loop
  <2> QED BY <1>1, <1>2, <2>1 DEF TriedOf
<1> QED BY <1>1, <1>2, <1>3

\* An anchor near what was tried has a spot beside it, or is near one that is not agreed on.
LEMMA NearTriedIsExplained ==
  ASSUME NEW frames \in Seq(Seq(Points)), NEW spots, NEW points, NEW n, Loop(frames, spots, points, n),
         NEW i \in DOMAIN Anchors(frames), NEW q \in points,
         Within(q, Anchors(frames)[i], DuplicateDistance)
  PROVE  Explained(frames, spots, i)
<1> DEFINE anchor == Anchors(frames)[i]
<1>1. /\ anchor \in Points /\ q \in Points /\ \A k \in DOMAIN spots : spots[k].point \in Points
  BY LoopPoints
<1>2. TriedOf(frames, spots, q)
  BY DEF Loop
<1>3. Within(q, anchor, DuplicateDistance)
  OBVIOUS
<1>4. ASSUME NEW k \in DOMAIN spots, q = spots[k].point PROVE Explained(frames, spots, i)
  <2>1. Within(spots[k].point, anchor, 2 * DuplicateDistance + MatchDistance)
    <3> HIDE DEF anchor
    <3> QED BY <1>1, <1>3, <1>4, DistancesAre, WithinMore
  <2> QED BY <2>1 DEF Explained, Beside
<1>5. ASSUME NEW j \in DOMAIN Anchors(frames), q = Anchors(frames)[j], AgreeOn(q, frames).refusal # "NONE"
      PROVE  Explained(frames, spots, i)
  BY <1>3, <1>5 DEF Explained
<1>6. ASSUME Beside(spots, q, DuplicateDistance + MatchDistance) PROVE Explained(frames, spots, i)
  <2>1. PICK k \in DOMAIN spots : Within(spots[k].point, q, DuplicateDistance + MatchDistance)
    BY <1>6 DEF Beside
  <2>2. Within(spots[k].point, anchor, (DuplicateDistance + MatchDistance) + DuplicateDistance)
    <3> HIDE DEF anchor
    <3>1. spots[k].point \in Points
      BY <1>1
    <3> QED BY <1>1, <1>3, <2>1, <3>1, DistancesAre, Triangle
  <2>3. Within(spots[k].point, anchor, 2 * DuplicateDistance + MatchDistance)
    BY <2>2, DistancesAre
  <2> QED BY <2>3 DEF Explained, Beside
<1> QED BY <1>2, <1>4, <1>5, <1>6 DEF TriedOf

\* A spot more, and what was said stays said.
LEMMA MoreSpots ==
  ASSUME NEW frames \in Seq(Seq(Points)), NEW spots, IsList(spots), NEW e, NEW more, more = Append(spots, e)
  PROVE  /\ \A p, d : Beside(spots, p, d) => Beside(more, p, d)
         /\ \A q : TriedOf(frames, spots, q) => TriedOf(frames, more, q)
         /\ \A i : Explained(frames, spots, i) => Explained(frames, more, i)
         /\ \A k \in DOMAIN spots : SpotOf(frames, spots, k) => k \in DOMAIN more /\ SpotOf(frames, more, k)
<1>1. \A k \in DOMAIN spots : k \in DOMAIN more /\ more[k] = spots[k]
  BY AppendedList
<1>2. \A p, d : Beside(spots, p, d) => Beside(more, p, d)
  BY <1>1 DEF Beside
<1>3. ASSUME NEW q, TriedOf(frames, spots, q) PROVE TriedOf(frames, more, q)
  <2>1. CASE \E k \in DOMAIN spots : q = spots[k].point
    BY <1>1, <2>1 DEF TriedOf
  <2>2. CASE \E j \in DOMAIN Anchors(frames) :
               /\ q = Anchors(frames)[j]
               /\ \/ AgreeOn(q, frames).refusal # "NONE"
                  \/ Beside(spots, q, DuplicateDistance + MatchDistance)
    BY <1>2, <2>2 DEF TriedOf
  <2> QED BY <1>3, <2>1, <2>2 DEF TriedOf
<1>4. ASSUME NEW i, Explained(frames, spots, i) PROVE Explained(frames, more, i)
  BY <1>2, <1>4 DEF Explained
<1>5. \A k \in DOMAIN spots : SpotOf(frames, spots, k) => k \in DOMAIN more /\ SpotOf(frames, more, k)
  BY <1>1 DEF SpotOf
<1> QED BY <1>2, <1>3, <1>4, <1>5

\* TryAnchor: the anchor that was tried is explained.
Tries(frames, spots, points, n, more, all) ==
  LET anchor == Anchors(frames)[n]
      spot == AgreeOn(anchor, frames)
      known == \E q \in points : Within(q, anchor, DuplicateDistance)
      new == \A k \in DOMAIN spots : ~Within(spots[k].point, spot.point, DuplicateDistance)
  IN \/ known /\ more = spots /\ all = points
     \/ ~known /\ spot.refusal = "NONE" /\ new
        /\ more = Append(spots, spot) /\ all = points \cup {anchor, spot.point}
     \/ ~known /\ ~(spot.refusal = "NONE" /\ new) /\ more = spots /\ all = points \cup {anchor}

\* A step of the loop keeps what is said of it.
LEMMA TryKeepsLoop ==
  ASSUME NEW frames \in Seq(Seq(Points)), NEW spots, NEW points, NEW n,
         Loop(frames, spots, points, n), IsList(spots), n <= Len(Anchors(frames)),
         NEW more, NEW all, Tries(frames, spots, points, n, more, all)
  PROVE  Loop(frames, more, all, n + 1)
<1> DEFINE anchor == Anchors(frames)[n]
           spot == AgreeOn(anchor, frames)
           known == \E q \in points : Within(q, anchor, DuplicateDistance)
           new == \A k \in DOMAIN spots : ~Within(spots[k].point, spot.point, DuplicateDistance)
<1>1. n \in DOMAIN Anchors(frames) /\ n \in Nat \ {0} /\ n + 1 \in Nat \ {0}
  <2>1. Anchors(frames) \in Seq(Points) /\ n \in Nat \ {0}
    BY AnchorsType DEF Loop
  <2> QED BY <2>1
<1>2. anchor \in Points /\ \A k \in DOMAIN spots : spots[k].point \in Points
  BY <1>1, LoopPoints
<1>3. /\ \A k \in DOMAIN spots : SpotOf(frames, spots, k)
      /\ \A q \in points : TriedOf(frames, spots, q)
      /\ \A i \in DOMAIN Anchors(frames) : i < n => Explained(frames, spots, i)
  BY DEF Loop
<1>4. \A i \in DOMAIN Anchors(frames) : i < n + 1 => i < n \/ i = n
  <2>1. \A i \in DOMAIN Anchors(frames) : i \in Nat
    BY AnchorsType
  <2> QED BY <1>1, <2>1
<1>5. Within(anchor, anchor, DuplicateDistance)
  <2>1. anchor[1] - anchor[1] = 0 /\ anchor[2] - anchor[2] = 0
    BY <1>2 DEF Points
  <2>2. 0 * 0 + 0 * 0 = 0 /\ 0 <= DuplicateDistance * DuplicateDistance
    BY DistancesAre, SquareIsNat
  <2>3. Apart(anchor, anchor) = 0
    BY <2>1, <2>2 DEF Apart
  <2> QED BY <2>2, <2>3 DEF Within
<1>6. \/ known /\ more = spots /\ all = points
      \/ spot.refusal = "NONE" /\ new /\ more = Append(spots, spot) /\ all = points \cup {anchor, spot.point}
      \/ ~(spot.refusal = "NONE" /\ new) /\ more = spots /\ all = points \cup {anchor}
  BY DEF Tries
<1>7. CASE known /\ more = spots /\ all = points
  <2>1. Explained(frames, spots, n)
    BY <1>1, <1>7, NearTriedIsExplained
  <2> QED BY <1>1, <1>3, <1>4, <1>7, <2>1 DEF Loop
<1>8. ASSUME spot.refusal = "NONE"
      PROVE  spot.point \in Points /\ Within(spot.point, anchor, MatchDistance)
  <2> HIDE DEF anchor
  <2> QED BY <1>2, <1>8, AgreedSpot
<1>9. CASE spot.refusal = "NONE" /\ new /\ more = Append(spots, spot) /\ all = points \cup {anchor, spot.point}
  <2>1. PICK k \in DOMAIN more : more[k] = spot
    <3>1. more = Append(spots, spot)
      BY <1>9
    <3> HIDE DEF spot
    <3>2. /\ \A k \in DOMAIN spots : k \in DOMAIN more /\ more[k] = spots[k]
          /\ \E k \in DOMAIN more : more[k] = spot
          /\ \A k \in DOMAIN more : k \in DOMAIN spots \/ more[k] = spot
      BY <3>1, AppendedList
    <3> QED BY <3>2
  <2>2. Beside(more, anchor, DuplicateDistance + MatchDistance)
    <3>1. Within(spot.point, anchor, DuplicateDistance + MatchDistance)
      <4> HIDE DEF anchor, spot
      <4> QED BY <1>2, <1>8, <1>9, DistancesAre, WithinMore
    <3> QED BY <2>1, <3>1 DEF Beside
  <2>3. Beside(more, anchor, 2 * DuplicateDistance + MatchDistance)
    <3>1. Within(spot.point, anchor, 2 * DuplicateDistance + MatchDistance)
      <4>1. MatchDistance <= 2 * DuplicateDistance + MatchDistance
        BY ConsensusAssumption
      <4> HIDE DEF anchor, spot
      <4> QED BY <1>2, <1>8, <1>9, <4>1, DistancesAre, WithinMore
    <3> QED BY <2>1, <3>1 DEF Beside
  <2>4. Explained(frames, more, n)
    BY <2>3 DEF Explained
  <2>5. TriedOf(frames, more, anchor) /\ TriedOf(frames, more, spot.point)
    BY <1>1, <2>1, <2>2 DEF TriedOf
  <2> HIDE DEF anchor, spot
  <2>6. \A j \in DOMAIN more : SpotOf(frames, more, j)
    <3> SUFFICES ASSUME NEW j \in DOMAIN more PROVE SpotOf(frames, more, j)
      OBVIOUS
    <3>1. CASE j \in DOMAIN spots
      BY <1>3, <1>9, <3>1, MoreSpots
    <3>2. CASE more[j] = spot
      BY <1>1, <1>9, <3>2 DEF SpotOf, spot, anchor
    <3> QED BY <1>9, <3>1, <3>2, AppendedList
  <2>7. \A q \in all : TriedOf(frames, more, q)
    <3>1. \A q \in points : TriedOf(frames, more, q)
      BY <1>3, <1>9, MoreSpots
    <3> QED BY <1>9, <2>5, <3>1
  <2>8. \A i \in DOMAIN Anchors(frames) : i < n + 1 => Explained(frames, more, i)
    <3>1. \A i \in DOMAIN Anchors(frames) : i < n => Explained(frames, more, i)
      BY <1>3, <1>9, MoreSpots
    <3> QED BY <1>4, <2>4, <3>1
  <2> QED BY <1>1, <2>6, <2>7, <2>8 DEF Loop
<1>10. CASE ~(spot.refusal = "NONE" /\ new) /\ more = spots /\ all = points \cup {anchor}
  <2>1. Explained(frames, spots, n) /\ TriedOf(frames, spots, anchor)
    <3>1. CASE spot.refusal # "NONE"
      BY <1>1, <1>5, <3>1 DEF Explained, TriedOf
    <3>2. CASE spot.refusal = "NONE"
      <4>1. PICK k \in DOMAIN spots : Within(spots[k].point, spot.point, DuplicateDistance)
        BY <1>10, <3>2
      <4>2. Within(spots[k].point, anchor, DuplicateDistance + MatchDistance)
        <5>1. spots[k].point \in Points
          BY <1>2
        <5> HIDE DEF anchor, spot
        <5> QED BY <1>2, <1>8, <3>2, <4>1, <5>1, DistancesAre, Triangle
      <4>3. Within(spots[k].point, anchor, 2 * DuplicateDistance + MatchDistance)
        <5>1. spots[k].point \in Points
          BY <1>2
        <5> HIDE DEF anchor
        <5> QED BY <1>2, <4>2, <5>1, DistancesAre, WithinMore
      <4> QED BY <1>1, <4>2, <4>3 DEF Explained, TriedOf, Beside
    <3> QED BY <3>1, <3>2
  <2> HIDE DEF anchor
  <2> QED BY <1>1, <1>3, <1>4, <1>10, <2>1 DEF Loop
<1> QED BY <1>6, <1>7, <1>9, <1>10

-----------------------------------------------------------------------------
\* What SpotsAreAgreed says of the candidates that come out.
Agreement ==
  /\ \A j \in DOMAIN candidates :
       Cardinality({k \in DOMAIN PerFrame : Supports(PerFrame[k], candidates[j])}) >= MinAgreeing
  /\ \A i \in DOMAIN Anchors(PerFrame) :
       \/ \E j \in DOMAIN candidates :
            Within(candidates[j], Anchors(PerFrame)[i], 2 * DuplicateDistance + MatchDistance)
       \/ \E j \in DOMAIN Anchors(PerFrame) :
            /\ Within(Anchors(PerFrame)[j], Anchors(PerFrame)[i], DuplicateDistance)
            /\ AgreeOn(Anchors(PerFrame)[j], PerFrame).refusal # "NONE"

\* Nothing was tried before the loop; while it runs, and when it is over.
SpotsInv ==
  /\ stage \in {"frames", "agreeing"} => ~drifting
  /\ stage = "frames" => next = 1 /\ tried = {} /\ accepted = <<>>
  /\ stage = "agreeing" => Loop(PerFrame, accepted, tried, next)
  /\ (stage = "voting" /\ switches.candidate_averaging /\ ~drifting) => Agreement
  /\ SpotsAreAgreed

\* The candidates of the frames are points.
LEMMA PerFrameType ==
  ASSUME ResultsInv
  PROVE  PerFrame \in Seq(Seq(Points))
<1>1. results \in Seq(Made) /\ DOMAIN results = 1..Len(results) /\ Len(results) \in Nat
  BY DEF ResultsInv
<1>2. \A i \in DOMAIN results : results[i].candidates \in Seq(Points)
  BY <1>1, PosesOfMade
<1> QED BY <1>1, <1>2 DEF PerFrame

\* Before any anchor is tried nothing needs an explanation.
LEMMA FirstLoop ==
  ASSUME NEW frames \in Seq(Seq(Points))
  PROVE  Loop(frames, <<>>, {}, 1)
<1>1. \A i \in DOMAIN Anchors(frames) : i \in Nat /\ i >= 1
  BY AnchorsType
<1> QED BY <1>1 DEF Loop

\* When all anchors were tried, the spots are agreed on.
LEMMA LastLoop ==
  ASSUME ResultsInv, Loop(PerFrame, accepted, tried, next), next > Len(Anchors(PerFrame)),
         NEW spots, spots = [i \in DOMAIN accepted |-> accepted[i].point]
  PROVE  /\ \A j \in DOMAIN spots :
              Cardinality({k \in DOMAIN PerFrame : Supports(PerFrame[k], spots[j])}) >= MinAgreeing
         /\ \A i \in DOMAIN Anchors(PerFrame) :
              \/ \E j \in DOMAIN spots :
                   Within(spots[j], Anchors(PerFrame)[i], 2 * DuplicateDistance + MatchDistance)
              \/ \E j \in DOMAIN Anchors(PerFrame) :
                   /\ Within(Anchors(PerFrame)[j], Anchors(PerFrame)[i], DuplicateDistance)
                   /\ AgreeOn(Anchors(PerFrame)[j], PerFrame).refusal # "NONE"
<1>1. PICK frames : frames = PerFrame
  OBVIOUS
<1>2. frames \in Seq(Seq(Points)) /\ Loop(frames, accepted, tried, next)
  BY <1>1, PerFrameType
<1>3. ASSUME NEW j \in DOMAIN spots
      PROVE  Cardinality({k \in DOMAIN frames : Supports(frames[k], spots[j])}) >= MinAgreeing
  <2>1. j \in DOMAIN accepted /\ spots[j] = accepted[j].point
    OBVIOUS
  <2>2. PICK i \in DOMAIN Anchors(frames) :
          accepted[j] = AgreeOn(Anchors(frames)[i], frames) /\ accepted[j].refusal = "NONE"
    BY <1>2, <2>1 DEF Loop, SpotOf
  <2>3. Anchors(frames)[i] \in Points
    BY <1>2, AnchorsType
  <2> QED BY <1>2, <2>1, <2>2, <2>3, AgreedSpot
<1>4. ASSUME NEW i \in DOMAIN Anchors(frames)
      PROVE  \/ \E j \in DOMAIN spots :
                  Within(spots[j], Anchors(frames)[i], 2 * DuplicateDistance + MatchDistance)
             \/ \E j \in DOMAIN Anchors(frames) :
                  /\ Within(Anchors(frames)[j], Anchors(frames)[i], DuplicateDistance)
                  /\ AgreeOn(Anchors(frames)[j], frames).refusal # "NONE"
  <2>1. i < next
    <3>1. Anchors(frames) \in Seq(Points) /\ next \in Nat /\ next > Len(Anchors(frames))
      BY <1>1, <1>2, AnchorsType DEF Loop
    <3> QED BY <3>1
  <2>2. Explained(frames, accepted, i)
    BY <1>2, <2>1 DEF Loop
  <2> QED BY <2>2 DEF Explained, Beside
<1> QED BY <1>1, <1>3, <1>4

\* The property in the words of Agreement.
LEMMA AgreementIs == SpotsAreAgreed <=> (Done /\ switches.candidate_averaging /\ ~drifting => Agreement)
BY DEF SpotsAreAgreed, Agreement

\* For any frames and settings, and in whatever order the anchors are tried, a spot that comes
\* out is one that enough frames support, and no anchor goes without a spot but beside one that
\* the frames do not agree on (ConsensusAveraging::average, agreeOn, crossPlane).
THEOREM SpotsStayAgreed == Spec => []SpotsAreAgreed
<1>1. Init => SpotsInv
  BY DEF Init, SpotsInv, SpotsAreAgreed, Done
<1>2. SpotsInv /\ ListsInv /\ [Next]_vars => SpotsInv'
  <2> SUFFICES ASSUME SpotsInv, ListsInv, [Next]_vars PROVE SpotsInv'
    OBVIOUS
  <2>a. ResultsInv /\ IsList(accepted) /\ stage \in {"idle", "frames", "agreeing", "voting"}
    BY DEF ListsInv, ResultsInv
  <2>1. CASE Process
    <3>1. stage' = "frames" /\ next' = 1 /\ tried' = {} /\ accepted' = <<>> /\ drifting' = FALSE
      BY <2>1 DEF Process, NothingTried
    <3> QED BY <3>1 DEF SpotsInv, SpotsAreAgreed, Done
  <2>2. CASE ProcessFrame
    <3>1. stage = "frames" /\ UNCHANGED <<stage, next, tried, accepted, drifting>>
      BY <2>2 DEF ProcessFrame, consensusVars
    <3> QED BY <3>1 DEF SpotsInv, SpotsAreAgreed, Done
  <2>3. CASE Average
    <3>1. /\ stage = "frames" /\ UNCHANGED <<switches, results, next, tried, accepted, drifting>>
          /\ IF switches.candidate_averaging THEN stage' = "agreeing" ELSE stage' = "voting"
      BY <2>3 DEF Average, consensusVars
    <3>2. Loop(PerFrame, <<>>, {}, 1) /\ PerFrame' = PerFrame
      BY <2>a, <3>1, PerFrameType, FirstLoop DEF PerFrame
    <3> QED BY <3>1, <3>2 DEF SpotsInv, SpotsAreAgreed, Done
  <2>4. CASE Agree
    <3>1. stage = "agreeing" /\ UNCHANGED results /\ PerFrame' = PerFrame
      BY <2>4 DEF Agree, PerFrame
    <3>2. Loop(PerFrame, accepted, tried, next) /\ ~drifting
      BY <3>1 DEF SpotsInv
    <3>3. CASE TryAnchor(PerFrame) /\ UNCHANGED <<stage, candidates>>
      <4>1. PICK frames : frames = PerFrame
        OBVIOUS
      <4>2. /\ next <= Len(Anchors(frames)) /\ next' = next + 1 /\ drifting' = drifting
            /\ Tries(frames, accepted, tried, next, accepted', tried')
        BY <3>3, <4>1 DEF TryAnchor, Tries, NearTried, IsNew
      <4>3. Loop(frames, accepted', tried', next + 1)
        <5>1. frames \in Seq(Seq(Points)) /\ Loop(frames, accepted, tried, next)
          BY <2>a, <3>2, <4>1, PerFrameType
        <5> QED BY <2>a, <4>2, <5>1, TryKeepsLoop
      <4>4. Loop(PerFrame', accepted', tried', next')
        BY <3>1, <4>1, <4>2, <4>3
      <4> QED BY <3>1, <3>2, <3>3, <4>2, <4>4 DEF SpotsInv, SpotsAreAgreed, Done
    <3>4. CASE Verdict(PerFrame) /\ stage' = "voting" /\ candidates' = Agreed'
      <4>1. next > Len(Anchors(PerFrame)) /\ UNCHANGED accepted
        BY <3>4 DEF Verdict
      <4>2. ~drifting' => candidates' = [i \in DOMAIN accepted |-> accepted[i].point]
        BY <3>4, <4>1 DEF Agreed
      <4>3. ~drifting' => Agreement'
        BY <2>a, <3>1, <3>2, <4>1, <4>2, LastLoop DEF Agreement
      <4> QED BY <3>4, <4>3 DEF SpotsInv, SpotsAreAgreed, Done
    <3> QED BY <2>4, <3>3, <3>4 DEF Agree
  <2>5. CASE Count
    <3>1. stage = "voting" /\ UNCHANGED <<switches, stage, results, candidates, drifting>>
      BY <2>5 DEF Count, outputVars, consensusVars
    <3>2. Agreement' <=> Agreement
      BY <3>1 DEF Agreement, PerFrame
    <3> QED BY <3>1, <3>2 DEF SpotsInv, SpotsAreAgreed, Done
  <2>6. CASE Carve
    <3>1. stage = "voting" /\ stage' = "idle" /\ UNCHANGED <<switches, results, candidates, drifting>>
      BY <2>6 DEF Carve, consensusVars
    <3>2. Agreement' <=> Agreement
      BY <3>1 DEF Agreement, PerFrame
    <3>3. (switches.candidate_averaging /\ ~drifting) => Agreement
      BY <3>1 DEF SpotsInv
    <3>4. SpotsAreAgreed'
      BY <3>1, <3>2, <3>3, AgreementIs DEF SpotsAreAgreed, Agreement
    <3> QED BY <3>1, <3>4 DEF SpotsInv
  <2>7. CASE UNCHANGED vars
    <3>1. UNCHANGED <<switches, stage, window, results, candidates, next, tried, accepted, drifting>>
      BY <2>7 DEF vars, outputVars, consensusVars
    <3>2. (Agreement' <=> Agreement) /\ PerFrame' = PerFrame
      BY <3>1 DEF Agreement, PerFrame
    <3>3. Done' <=> Done
      BY <3>1 DEF Done
    <3>4. SpotsAreAgreed'
      BY <3>1, <3>2, <3>3 DEF SpotsInv, SpotsAreAgreed, Agreement
    <3> QED BY <3>1, <3>2, <3>4 DEF SpotsInv
  <2> QED BY <2>1, <2>2, <2>3, <2>4, <2>5, <2>6, <2>7 DEF Next
<1>3. SpotsInv => SpotsAreAgreed
  BY DEF SpotsInv
<1> QED BY <1>1, <1>2, <1>3, ListsHold, PTL DEF Spec
=============================================================================
