\* Queues of three, every failure, closed at any moment.
CONSTANTS
  QueueMax = 3
  Depth = 1
  MaxFrames = 8
  FlushInputs = {"blank", "NULL"}
  EncoderFails = TRUE
  MallocFails = TRUE
SPECIFICATION FairSpec
INVARIANT TypeOK
INVARIANT PicturesConserved
INVARIANT NoMutualWait
PROPERTY FrameReturns
PROPERTY CloseReturns
PROPERTY WrapperIsEncoder
CHECK_DEADLOCK FALSE
