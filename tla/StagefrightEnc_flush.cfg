\* A flush that ends at the first empty queue.
CONSTANTS
  QueueMax = 3
  Depth = 1
  MaxFrames = 3
  FlushInputs = {"NULL"}
  EncoderFails = FALSE
  MallocFails = FALSE
SPECIFICATION Spec
INVARIANT FlushIsComplete
CHECK_DEADLOCK FALSE
