SPECIFICATION Spec
INVARIANTS FramesIntact EndsTruthfully NothingHeldBack
CONSTANTS
  MaxFrameSize = 28
  Frames <- AllFrames
  Junk <- SomeJunk
  MaxSent = 2
CHECK_DEADLOCK FALSE
