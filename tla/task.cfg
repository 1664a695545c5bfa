SPECIFICATION FairSpec
CONSTANTS
 RetargetAttempts = 2
 ParkAttempts = 2
 StreamTimeout = 1
 SpotSearch = 2
 ReparkSearch = 2
 RetryDelay = 0
 JawTimeout = 2
 JawSettle = 1
 MaxAge = 2
 JawPositions = {0, 1}
 JawHeld = 1
 SpinnerThreads = 2
 MaxStops = 1
 MaxMissed = 1
 StandbyMayFail = TRUE
INVARIANTS TypeOK DrivesWithinAllowance CountsWithinAllowance ArmAndVehicleTakeTurns
PROPERTIES ImplementsPick EveryPickEnds
