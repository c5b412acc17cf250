SPECIFICATION FairSpec
CONSTANTS
  None = None
  Presses = {p1, p2}
  Clients = {c1, c2, c3, c4}
INVARIANTS AnsweredPressesKeepOrder SharedClientIsCurrent
PROPERTIES NoWriteOverLaterLink PressesAreAnswered ReconnectsUnlessScanRaises
CHECK_DEADLOCK FALSE
