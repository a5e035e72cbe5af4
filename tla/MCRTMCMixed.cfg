SPECIFICATION FairSpec
CONSTANTS
  M = M
  W = W
  Models <- AllModels
  NoModel = NoModel
  RCModel = M
  Threads = {t1, t2}
  NoThread = NoThread
  Calls <- MixedCalls
  Values = {0, 2}
  Codes = {0, 1}
  Details = {0, 1, 3}
  MaxInbox = 2
INVARIANT ObjectAlive
INVARIANT LockReturned
PROPERTY ErrorEndsConnection
PROPERTY CallsReturn
PROPERTY OneAtATime
