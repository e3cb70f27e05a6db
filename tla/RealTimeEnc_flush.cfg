\* The flush that stops at the first call that returns nothing.
CONSTANTS
  VIDEOFRAMEBUFSIZE = 2
  AUDIOFRAMEBUFSIZE = 2
  VideoTimes = {0}
  AudioTimes = {0, 40}
  AudioLens = {1, 3}
  AudioFrame = 2
  AudioFreq = 44
  TimeBase = 1000
  MaxSessions = 1
  MaxVideoCalls = 2
  MaxAudioCalls = 0
  MaxJunk = 0
SPECIFICATION Spec
INVARIANT FlushedDelayedFrames
CHECK_DEADLOCK FALSE
