SPECIFICATION FairSpec
CONSTANTS
  Keys = {"info", "rate", "mode"}
  ConfKeys = {"rate", "mode"}
  ScanAsks <- MCScanAsks
  MaxCalls = 4
  MaxRequests = 3
  MaxHeard = 1
  
PROPERTIES CallReturns
