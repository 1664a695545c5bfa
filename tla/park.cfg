SPECIFICATION Spec
CONSTANTS
  Displacements <- MCDisplacements
  Verdicts <- MCVerdicts
  Obstacles <- MCObstacles
  TravelCost = 0
  MinRoutable = 1
  VerifyExact = 2
  TransitSamples = 2
  MaxGoals = 2
  MaxResets = 1
INVARIANTS
  TypeOK
  NeverWorseThanStaying
  FirstDriveIsClear
  SettlesWhereChosen
PROPERTIES
  ListenersCatchUp
CHECK_DEADLOCK FALSE
