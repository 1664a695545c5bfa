CONSTANTS
  SizeX = 4
  SizeY = 7
  VoteRadius = 1
  MinFrames = 2
  MinPoints = 2
  Width = 2
  MinAgreeing = 2
  MatchDistance = 18
  MaxPoseGap = 9
  EndTolerance = 3
  OutlierDistance = 6
  MaxSpread = 4
  DuplicateDistance = 5
  DriftChecked = TRUE
  Windows <- PlaneWindows
  Voxel = 3
  HandleRadius = 2
  HandleGap = 9
  Bar <- PlaneBar
  Corridor <- PlaneCorridor
  InReach <- PlaneInReach
SPECIFICATION Spec
INVARIANTS VoteIsCount GraspIsFree SpotsAreAgreed
