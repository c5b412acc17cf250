SPECIFICATION StreamFairSpec
CONSTANTS
  Streams = {s1, s2}
  MaxMessages = 4
INVARIANTS StreamsAgree
PROPERTIES StartedStreamsLeave
CHECK_DEADLOCK FALSE
