SPECIFICATION Spec
CONSTANTS
 FramesToCollect = 2
 Needed = 1
 FrameTimeout = 1
 MaxShots = 3
INVARIANT WindowIsFresh
