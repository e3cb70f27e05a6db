\* One recording, audio only: chunks shorter and longer than a codec frame.
CONSTANTS
  VIDEOFRAMEBUFSIZE = 2
  AUDIOFRAMEBUFSIZE = 2
  VideoTimes = {0, 30, 90}
  AudioTimes = {0, 40}
  AudioLens = {1, 3}
  AudioFrame = 2
  AudioFreq = 44
  TimeBase = 1000
  MaxSessions = 1
  MaxVideoCalls = 0
  MaxAudioCalls = 4
  MaxJunk = 0
SPECIFICATION Spec
INVARIANT SamplesConserved
INVARIANT NoAudioUseAfterFree
CHECK_DEADLOCK FALSE
