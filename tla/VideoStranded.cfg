\* What the comment in video_pipeline.c says of a stalled detector.
SPECIFICATION FairSpec
CONSTANTS
  Supported <- MCSupported
  Unsupported = {"3840x2160"}
  NoTiming = "none"
  Timeout = 3
  ClockMod = 5
PROPERTY NeverStranded
CHECK_DEADLOCK FALSE
