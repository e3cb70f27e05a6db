\* Three streams, one with B-frames; memory and the output may fail.
CONSTANTS
  NbStreams = 3
  CodecType <- TypeOf
  Delay <- DelayOf
  Duration <- DurationOf
  NonStrict = FALSE
  Patience = 1
  NoPts <- Unset
  Offered <- Offers
  Failures = TRUE
  MaxCalls = 5
SPECIFICATION Spec
INVARIANT TypeOK
INVARIANT PointersLive
INVARIANT StreamsInOrder
INVARIANT WrittenInterleaved
INVARIANT RisingAboveZero
INVARIANT PtsBufferInOrder
INVARIANT NothingLeftBehind
CHECK_DEADLOCK FALSE
