\* Termination even with queues so short that reports are refused, under the fairness of the event loop, the ticker and the threads.
SPECIFICATION FairSpec
CONSTANTS
  QueueLen <- MCShortQueueLen
  Mode = {m720, m1080}
  NoMode = NoMode
  MaxAnnounced = 2
  Behind = {0}
  TickBacklog = 1
  MaxText = 1
  BusyTicks = FALSE
INVARIANTS
  TypeOK
PROPERTIES
  SignalEndsProgram
  ErrorEndsProgram
  ImplementsFairCoordinator
CHECK_DEADLOCK FALSE
