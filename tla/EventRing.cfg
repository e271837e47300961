\* A ring of three, polled two at a time: six transcripts in three sessions.
SPECIFICATION Spec
CONSTANTS
  Depth = 3
  MaxPerPoll = 2
  Seqs = {0, 1}
  MaxReceived = 6
  MaxSessions = 2
INVARIANTS
  AllAccounted
PROPERTIES
  AcceptedInOrder
  FinalsShedLast
  ImplementsQueue
CHECK_DEADLOCK FALSE
