SPECIFICATION FairSpec
CONSTANTS
  Channels = {c1, c2}
  NoChannel = NoChannel
  Callers = {a1, a2}
  NoCaller = NoCaller
  MaxSession = 2
  MaxArrived = 2
INVARIANTS OnlyThisConnection ChannelUsedWhileOpen
PROPERTIES KeepsStreamPromise ReceivedIsDecoded DisconnectReturns
