SPECIFICATION Spec
CONSTANTS
  Full = 48
  Grain = 2
  Formats = {"plain", "ultra", "dense", "ultra_dense"}
  Points <- MCPoints
  Diffs = {0, 10, 12, 16}
  MaxDiff = 12
  Offsets = {0, 3}
  MaxTravelled = 144
INVARIANTS NoSyncIsMissed ScanIsNotShort
