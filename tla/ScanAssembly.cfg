SPECIFICATION FairSpec
CONSTANTS
  Sectors = 2
  Revolutions = 2
  BufferSize = 3
  RawSize = 1
  RawCount = 1
  Spurious = FALSE
INVARIANTS TypeOK GrabbedScanStartsOnce GrabbedScanIsComplete ScanIsAvailable
PROPERTIES PublishedIsGrabbed
