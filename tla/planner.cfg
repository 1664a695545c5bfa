CONSTANTS
  Joints <- Plane
  NoNode = NoNode
  Distance <- Farthest
  Interpolate <- PlaneInterpolate
  Samples <- PlaneSamples
  Step <- PlaneStep
  ExtendStep = 4
  MaxIterations = 3
  ShortcutAttempts = 2
  Travel <- PlaneTravel
  NumCandidates = 2
  Requests <- PlaneRequests
  Scenes <- PlaneScenes
  Floor <- PlaneFloor
  Readings <- PlaneReadings
  Snap <- PlaneSnap
  PathsToCompare = 2
SPECIFICATION Spec
INVARIANTS PathIsClear CheapestIsKept OutcomesAreTrue
PROPERTIES EveryPlanEnds
