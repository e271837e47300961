\* A caption that has just been posted is not cleared as stale.
SPECIFICATION FairSpec
CONSTANTS
  Finals = {f1, f2}
  Partials = {p1}
  None = None
  MaxTexts = 2
  ClearMs = {30}
  HoldMs = {20}
PROPERTY OnlyStaleCleared
CHECK_DEADLOCK FALSE
