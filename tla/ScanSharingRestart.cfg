SPECIFICATION Spec
CONSTANTS
  MaxPoints = 2
  Readings <- MCReadings
  Scans = 2
  MaxSegments = 2
  Faults = TRUE
INVARIANTS ReadsRunningLidar
CHECK_DEADLOCK FALSE
