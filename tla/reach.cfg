SPECIFICATION ReachSpec
CONSTANTS
 g1 = g1
 g2 = g2
 g3 = g3
 Geometries <- SomeGeometries
 Cells <- SomeCells
 MaxFaults = 2
 None = None
INVARIANTS LoadedIsWanted CacheIsLastSaved
