SPECIFICATION Spec
CONSTANTS
 JointCount = 3
 Moved <- SomeMoved
 Lower = 0
 Upper = 12
 Home <- SomeHome
 Released = Released
 HomeStep = 1
 Speed = 4
 MaxStep = 4
 Tolerance = 3
 MinStep = 2
 FollowShare = 5
 Strikes = 5
 ArrivalTimeout = 28
 Paths <- SomePaths
 StartTolerance = 4
 FeedbackTimeout = 3
 SlowestPoll = 2
 MaxMisses = 1
 MayTouch = TRUE
 MaxGoals = 1
INVARIANT ReleasedWhenReported
