\* AAC frames of 1024 samples and decoded chunks of 1152.
CONSTANTS
  VIDEOFRAMEBUFSIZE = 2
  AUDIOFRAMEBUFSIZE = 50
  VideoTimes = {0, 30, 90}
  AudioTimes = {0}
  AudioLens = {1152}
  AudioFrame = 1024
  AudioFreq = 44
  TimeBase = 1000
  MaxSessions = 1
  MaxVideoCalls = 0
  MaxAudioCalls = 3
  MaxJunk = 0
SPECIFICATION Spec
INVARIANT KeptFitsTmpbuf
CHECK_DEADLOCK FALSE
