-------------------------------- MODULE Vote --------------------------------
(***************************************************************************)
(* Occupied cells (Occupancy.cpp) on a plane of cells: what one frame says *)
(* of each cell, and the vote over frames, whose counts and marks are      *)
(* Width bits wide.                                                        *)
(***************************************************************************)
EXTENDS Integers, FiniteSets

CONSTANTS
  SizeX, SizeY,   \* the grid
  VoteRadius,     \* how far a frame's vote reaches
  MinFrames,      \* votes a cell needs
  MinPoints,      \* points in a cell that count whatever the camera saw
  Width           \* bits of a count and of a mark

ASSUME GridAssumption == SizeX \in Nat \ {0} /\ SizeY \in Nat \ {0} /\ VoteRadius \in Nat
ASSUME VoteAssumption ==
  MinFrames \in Nat \ {0} /\ MinPoints \in Nat /\ Width \in Nat \ {0} /\ 2 ^ Width \in Nat \ {0, 1}

Cells == (0..(SizeX - 1)) \X (0..(SizeY - 1))

\* A cell's number: the cells of a frame are sorted by it.
Number(c) == c[2] * SizeX + c[1]

\* The cells within the vote's radius, the cell itself among them.
Near(c) == {n \in Cells : /\ n[1] - c[1] \in -VoteRadius..VoteRadius
                          /\ n[2] - c[2] \in -VoteRadius..VoteRadius}

Most == 2 ^ Width - 1

\* Points that fall into each cell, those the outlier filter does not support left out
\* unless they are near a pose.  The count stays at its most.
Hits(shot, filtered, handle) ==
  [c \in Cells |->
     LET n == IF filtered /\ c \notin handle THEN shot.supported[c] ELSE shot.points[c]
     IN IF n < Most THEN n ELSE Most]

\* A cell that was hit is occupied if it was hit often, or is near a pose, or the camera did
\* not see through it.
OccupiedCells(shot, filtered, handle) ==
  LET hits == Hits(shot, filtered, handle)
  IN {c \in Cells : /\ hits[c] > 0
                    /\ hits[c] >= MinPoints \/ c \in handle \/ c \notin shot.through}

-----------------------------------------------------------------------------
VARIABLES
  votes,     \* frames that have voted for each cell
  counted,   \* mark of the last frame that did
  measured,  \* cells some frame has seen occupied
  voted,     \* frames that are done voting
  cast       \* cells of the next frame that are

voteVars == <<votes, counted, measured, voted, cast>>

NoVotes ==
  /\ votes' = [c \in Cells |-> 0] /\ counted' = [c \in Cells |-> 0]
  /\ measured' = {} /\ voted' = 0 /\ cast' = {}

\* Mutant of Mark: the first frame's mark is what the cells start with.
MarkFromZero == voted % 2 ^ Width

\* A mark tells the cells this frame has voted for already.
Mark == (voted + 1) % 2 ^ Width

\* A cell of the frame votes for the cells near it that have no mark of the frame yet.
CastVote(occupied) ==
  \E cell \in occupied \ cast :
    LET fresh == {c \in Near(cell) : counted[c] # Mark}
    IN /\ \A other \in occupied \ cast : Number(cell) <= Number(other)
       /\ votes' = [c \in Cells |-> IF c \in fresh THEN (votes[c] + 1) % 2 ^ Width ELSE votes[c]]
       /\ counted' = [c \in Cells |-> IF c \in fresh THEN Mark ELSE counted[c]]
       /\ measured' = measured \cup {cell}
       /\ cast' = cast \cup {cell}
       /\ UNCHANGED voted

EndFrame(occupied) ==
  /\ occupied \subseteq cast
  /\ voted' = voted + 1 /\ cast' = {}
  /\ UNCHANGED <<votes, counted, measured>>

Elected == {c \in measured : votes[c] >= MinFrames}
=============================================================================
