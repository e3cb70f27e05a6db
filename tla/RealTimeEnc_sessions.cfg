\* Two recordings in a row, every step of a start failing or not.
CONSTANTS
  VIDEOFRAMEBUFSIZE = 2
  AUDIOFRAMEBUFSIZE = 2
  VideoTimes = {0, 90}
  AudioTimes = {0, 40}
  AudioLens = {2}
  AudioFrame = 2
  AudioFreq = 44
  TimeBase = 1000
  MaxSessions = 2
  MaxVideoCalls = 2
  MaxAudioCalls = 1
  MaxJunk = 0
SPECIFICATION Spec
INVARIANT IInv
INVARIANT NoVideoUseAfterFree
INVARIANT MuxerExclusive
INVARIANT DrainedBeforeTrailer
INVARIANT PacketsIncreasing
PROPERTY RecorderIsRecording
CHECK_DEADLOCK FALSE
