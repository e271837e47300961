\* Captions with timeouts of 0, 2 and 3 ticks.
SPECIFICATION FairSpec
CONSTANTS
  Finals = {f1}
  Partials = {p1}
  None = None
  MaxTexts = 2
  ClearMs = {0,30}
  HoldMs = {0,20}
INVARIANTS
  CaptionDrawn
  OverlayMatches
  LinesAge
PROPERTIES
  ImplementsScreen
  SilenceBlanks
CHECK_DEADLOCK FALSE
