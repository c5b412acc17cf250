SPECIFICATION FairSpec
CONSTANTS
  Percentages = {0, 100}
  RequestDepth = 1
  NoPercentage = NoPercentage
  Samples = {1700}
  Millivolts <- MCMillivolts
  Differential = FALSE
  BrakeStates = {0, 72, 100}
  Subscriptions = {TRUE, FALSE}
  NoState = NoState
  UartDepth = 1
  UartTexts <- MCJetsonTexts
  BleTexts <- MCCentralTexts
  NoText = NoText
INVARIANTS TypeOK NothingPendingMeansNewest FlagsTrackLink
PROPERTIES KeepsCommandPromise ConnectedDrains NewestReachesServo SubscriberLearnsState
CHECK_DEADLOCK FALSE
