------------------------------ MODULE ReachCache ------------------------------
(***************************************************************************)
(* The reach table of the park node and the file it is kept in between     *)
(* starts: the node's constructor (park/src/ParkNode.cpp), buildReachTable *)
(* (kine/src/ReachBuild.cpp) and ReachTable::save and load                 *)
(* (kine/src/Reach.cpp).                                                   *)
(*                                                                         *)
(* A file is a sequence of blocks, a header and the cells; every block     *)
(* carries the geometry it was written for.  hashConfig is taken to tell   *)
(* any two geometries apart.  The node may be killed and the parameters    *)
(* edited at any time, a write may fail, and a power loss may cut a file   *)
(* that was not synced to a part of it.  There is one park node at a time. *)
(***************************************************************************)
EXTENDS Integers, Sequences

CONSTANTS
  Geometries,
  Cells,        \* how many blocks of cells the table of a geometry has
  MaxFaults,    \* bound: writes that fail and power losses
  None

ASSUME ReachAssumption ==
  /\ Cells \in [Geometries -> Nat \ {0}]
  /\ MaxFaults \in Nat
  /\ None \notin Geometries /\ None \notin Seq(Geometries)

Parameters == [geometry : Geometries, cached : BOOLEAN]

VARIABLES
  parameters,   \* what the parameter server holds; "cached" is whether cache_path is set
  at,           \* where the node is: "off", "load", "save", "write", "verify", "rename", "running"
  want,         \* the parameters it was started with
  table,        \* table_
  done,         \* blocks of temp that were written
  file,         \* what is at cache_path, or None
  temp,         \* what is at cache_path.tmp, or None
  saved,        \* geometry of the last table that save() put at cache_path
  faults,
  cut           \* whether a power loss cut the files

reachVars == <<parameters, at, want, table, done, file, temp, saved, faults, cut>>
-------------------------------------------------------------------------------
\* buildReachTable: reset() sizes the grid, and every cell follows from the geometry.
Built(g) == [i \in 1..(Cells[g] + 1) |-> g]

\* Mutant: whatever has the right length is taken.
AcceptsAny(blocks, g) == blocks # None /\ Len(blocks) > Cells[g]

\* load(): the header has the magic, the version, the hash of the geometry and its grid, and
\* the cells are all there.  What follows them is not looked at.
Accepts(blocks, g) ==
  /\ blocks # None
  /\ Len(blocks) > Cells[g] /\ blocks[1] = g
Taken(blocks, g) == SubSeq(blocks, 1, Cells[g] + 1)

\* Mutant: what was written is not read back.
WrittenWellUnread == TRUE

\* save() loads the file it wrote and compares it with the table.
WrittenWell ==
  /\ Accepts(temp, want.geometry)
  /\ Taken(temp, want.geometry) = table

Goes(to) == at' = to /\ UNCHANGED <<parameters, want>>
Untouched == UNCHANGED <<file, temp, saved, faults, cut>>

\* The constructor takes its parameters.
Start ==
  /\ at = "off"
  /\ at' = "load" /\ want' = parameters
  /\ table' = None /\ done' = 0
  /\ UNCHANGED parameters /\ Untouched

\* A table that can be loaded is, any other is built.
Load ==
  /\ at = "load"
  /\ IF want.cached /\ Accepts(file, want.geometry)
     THEN table' = Taken(file, want.geometry) /\ Goes("running")
     ELSE /\ table' = Built(want.geometry)
          /\ Goes(IF want.cached THEN "save" ELSE "running")
  /\ UNCHANGED done /\ Untouched

\* The temporary file is truncated; an earlier start may have left it.
Open ==
  /\ at = "save"
  /\ temp' = <<>> /\ done' = 0
  /\ Goes("write")
  /\ UNCHANGED <<table, file, saved, faults, cut>>

Write ==
  /\ at = "write" /\ done < Len(table)
  /\ temp' = Append(temp, table[done + 1]) /\ done' = done + 1
  /\ Goes("write")
  /\ UNCHANGED <<table, file, saved, faults, cut>>

\* What goes wrong when the file is closed is not looked at.
Close ==
  /\ at = "write" /\ done = Len(table)
  /\ \/ UNCHANGED <<temp, faults>>
     \/ /\ faults < MaxFaults /\ faults' = faults + 1
        /\ \E n \in 0..(Len(temp) - 1) : temp' = SubSeq(temp, 1, n)
  /\ Goes("verify")
  /\ UNCHANGED <<table, done, file, saved, cut>>

Verify ==
  /\ at = "verify"
  /\ Goes(IF WrittenWell THEN "rename" ELSE "running")
  /\ UNCHANGED <<table, done>> /\ Untouched

Rename ==
  /\ at = "rename"
  /\ file' = temp /\ temp' = None
  /\ saved' = want.geometry /\ cut' = FALSE
  /\ Goes("running")
  /\ UNCHANGED <<table, done, faults>>

\* A step of save() fails: the node warns and runs with the table it built.
NotSaved ==
  /\ at \in {"save", "write", "verify", "rename"}
  /\ faults < MaxFaults /\ faults' = faults + 1
  /\ Goes("running")
  /\ UNCHANGED <<table, done, file, temp, saved, cut>>

\* The node ends, wherever it is.
Stop ==
  /\ at # "off"
  /\ Goes("off")
  /\ UNCHANGED <<table, done>> /\ Untouched

Cut(blocks) == IF blocks = None THEN {None} ELSE {SubSeq(blocks, 1, n) : n \in 0..Len(blocks)}

PowerLoss ==
  /\ faults < MaxFaults /\ faults' = faults + 1
  /\ file' \in Cut(file) /\ temp' \in Cut(temp)
  /\ cut' = TRUE
  /\ Goes("off")
  /\ UNCHANGED <<table, done, saved>>

Edit ==
  /\ parameters' \in Parameters
  /\ UNCHANGED <<at, want, table, done>> /\ Untouched

ReachInit ==
  /\ parameters \in Parameters /\ want = parameters
  /\ at = "off" /\ table = None /\ done = 0
  /\ file = None /\ temp = None
  /\ saved = None /\ faults = 0 /\ cut = FALSE

ReachNext ==
  \/ Start \/ Load \/ Open \/ Write \/ Close \/ Verify \/ Rename \/ NotSaved
  \/ Stop \/ PowerLoss \/ Edit

ReachSpec == ReachInit /\ [][ReachNext]_reachVars
-------------------------------------------------------------------------------
Blocks == Seq(Geometries) \cup {None}

\* What the variables hold.
TypeOK ==
  /\ parameters \in Parameters /\ want \in Parameters
  /\ at \in {"off", "load", "save", "write", "verify", "rename", "running"}
  /\ table \in Blocks /\ file \in Blocks /\ temp \in Blocks
  /\ done \in Nat
  /\ saved \in Geometries \cup {None}
  /\ faults \in 0..MaxFaults /\ cut \in BOOLEAN

\* A node runs with the table of the parameters it was started with, the whole of it, whatever
\* an earlier start under other parameters, a kill in the middle of a save, a write that
\* failed or a power loss left at cache_path (ReachTable::load, save).
LoadedIsWanted == at = "running" => table = Built(want.geometry)

\* Unless a power loss cut it, what is at cache_path is all of the table that was last saved:
\* a save that fails or is killed leaves the file that was there (ReachTable::save).
CacheIsLastSaved == cut \/ file = IF saved = None THEN None ELSE Built(saved)
================================================================================
