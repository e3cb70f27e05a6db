\* An encoder thread that runs out of memory while the encoder is closed.
CONSTANTS
  QueueMax = 3
  Depth = 1
  MaxFrames = 1
  FlushInputs = {"blank"}
  EncoderFails = FALSE
  MallocFails = TRUE
SPECIFICATION Spec
INVARIANT FreedOnce
CHECK_DEADLOCK FALSE
