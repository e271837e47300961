\* Safety of start-up and shutdown, with the queues of app.c.
SPECIFICATION Spec
CONSTANTS
  QueueLen <- MCQueueLen
  Mode = {m720}
  NoMode = NoMode
  MaxAnnounced = 2
  Behind = {0, 7, 8, 9}
  TickBacklog = 1
  MaxText = 1
  BusyTicks = TRUE
INVARIANTS
  PlatformRefs
  StoppedIsQuiet
  CleanExit
  FailFast
  SinkBound
  StopIsWatched
  NoQueueOverflow
PROPERTIES
  NoLateStart
  JoinNeverBlocks
  ImplementsCoordinator
CHECK_DEADLOCK FALSE
