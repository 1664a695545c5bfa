SPECIFICATION FairSpec
CONSTANTS
 JointCount = 2
 Lower = 0
 Upper = 3
 Home <- SomeHome
 HomeStep = 1
 Speed = 1
 Oldest = 0
 Requests <- SomeRequests
 LineMayFail = FALSE
 Released = Released
INVARIANTS TypeOK OnlyEnergisedOnRequest
PROPERTY HomeArrives
