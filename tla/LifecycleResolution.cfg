\* What ARCH-02 says of a resolution change, against the code.
SPECIFICATION FairSpec
CONSTANTS
  QueueLen <- MCQueueLen
  Mode = {m720, m1080}
  NoMode = NoMode
  MaxAnnounced = 2
  Behind = {0}
  TickBacklog = 1
  MaxText = 1
  BusyTicks = FALSE
PROPERTY OverlayFollowsSource
CHECK_DEADLOCK FALSE
