\* The flush that passes an uninitialised AVFrame.
CONSTANTS
  VIDEOFRAMEBUFSIZE = 2
  AUDIOFRAMEBUFSIZE = 2
  VideoTimes = {0}
  AudioTimes = {0, 40}
  AudioLens = {1, 3}
  AudioFrame = 2
  AudioFreq = 44
  TimeBase = 1000
  MaxSessions = 1
  MaxVideoCalls = 2
  MaxAudioCalls = 0
  MaxJunk = 1
SPECIFICATION Spec
INVARIANT OnlyCameraPictures
CHECK_DEADLOCK FALSE
