SPECIFICATION FairSpec
CONSTANTS
 FramesToCollect = 2
 Needed = 2
 FrameTimeout = 1
 MaxShots = 3
INVARIANTS TypeOK WindowIsNewest FramesAreInOrder EndIsExplained
PROPERTY EveryCollectEnds
