\* One recording, video only: a camera that laps a list of two slots and repeats
\* its clock, while threads are fair.
CONSTANTS
  VIDEOFRAMEBUFSIZE = 2
  AUDIOFRAMEBUFSIZE = 2
  VideoTimes = {0}
  AudioTimes = {0, 40}
  AudioLens = {1, 3}
  AudioFrame = 2
  AudioFreq = 44
  TimeBase = 1000
  MaxSessions = 1
  MaxVideoCalls = 4
  MaxAudioCalls = 0
  MaxJunk = 1
SPECIFICATION FairSpec
INVARIANT VideoFifo
PROPERTY OverwriteOnlyWhenFull
PROPERTY StopReturns
PROPERTY StopCloses
PROPERTY AcceptedIsEncoded
CHECK_DEADLOCK FALSE
