\* The passthrough state machine against a free source.
SPECIFICATION FairSpec
CONSTANTS
  Supported <- MCSupported
  Unsupported = {"3840x2160"}
  NoTiming = "none"
  Timeout = 3
  ClockMod = 5
INVARIANTS
  OutputIsDisplayable
  TransportMatches
  WaitIsMeasured
PROPERTIES
  ImplementsSource
  SteadySourceIsShown
CHECK_DEADLOCK FALSE
