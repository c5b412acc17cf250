SPECIFICATION BrakeFairSpec
CONSTANTS
  Percentages = {0, 50, 100}
  Samples = {0, 1400, 65535}
  Millivolts <- MCMillivolts
  Differential = TRUE
INVARIANTS BrakeTypeOK
PROPERTIES SettledIsStable PulseFollowsDesired
