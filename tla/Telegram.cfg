SPECIFICATION FairSpec
CONSTANTS
  Frames <- BoardFrames
  MaxFrames = 5
  TtyCapacity = 5
  MaxBufferSize = 4
  Cut <- FrameEnds
INVARIANTS TypeOK FramesHandledOnce NothingInvented
PROPERTY Recovers
