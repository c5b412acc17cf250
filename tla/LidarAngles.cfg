SPECIFICATION AnglesSpec
CONSTANTS
  Turn = 14
  Ahead = 3
  Tolerance = 1
  MaxScan = 4
INVARIANTS NearestIsFound
PROPERTIES AscendedIsSorted
