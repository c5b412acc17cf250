SPECIFICATION FairSpec
CONSTANTS
  MaxPoints = 2
  Readings <- MCReadings
  Scans = 1
  MaxSegments = 2
  Faults = TRUE
INVARIANTS TypeOK BrakesForMeasured
  
CHECK_DEADLOCK FALSE
