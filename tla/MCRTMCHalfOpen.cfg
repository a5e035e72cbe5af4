SPECIFICATION Spec
CONSTANTS
  M = M
  W = W
  Models <- AllModels
  NoModel = NoModel
  RCModel = M
  Threads = {t1}
  NoThread = NoThread
  Calls <- ConnectionCalls
  Values = {0}
  Codes = {5}
  Details = {0}
  MaxInbox = 1
INVARIANT NoHalfOpen
