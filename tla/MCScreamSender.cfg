SPECIFICATION FairSpec
CONSTANTS
  video = video
  Streams <- OneStream
  MaxFrames = 3
  MaxFeedback = 1
CHECK_DEADLOCK FALSE
INVARIANTS QueueInv ClosesQuietly
PROPERTIES ReturnsWhileOpen CloseReturns
