CONSTANTS
  Jobs <- Batch
  NoTime = NoTime
  NoLimit = 1000
  SeekGap = 3
  DtsDelta = 5
  MaxAgain = 2
  MaxFailures = 1
SPECIFICATION FairSpec
INVARIANT TypeOK
INVARIANT CutIsComplete
INVARIANT PictureIsRight
INVARIANT AllServed
INVARIANT Balanced
INVARIANT ClockRunsOn
PROPERTY LoopEnds
CHECK_DEADLOCK FALSE
