SPECIFICATION FairSpec
CONSTANTS
 JointCount = 2
 Wrist = 2
 ConnectAttempts = 2
 Chunk = 2
 MaxBuffered = 3
 MaxFaults = 1
 MaxLate = 1
 MaxOnLine = 0
 Zero = Zero
 Junk = Junk
 None = None
INVARIANTS TypeOK LagIsExplained CommandsAreObeyed
PROPERTIES ReadingsInOrder Woken EveryJointIsRead
CHECK_DEADLOCK FALSE
