SPECIFICATION Spec
CONSTANTS
  M = M
  W = W
  Models <- AllModels
  NoModel = NoModel
  RCModel = M
  Threads = {t1}
  NoThread = NoThread
  Calls <- ModelCalls
  Values = {0}
  Codes = {2}
  Details = {0}
  MaxInbox = 1
PROPERTY RBChkErrMeansUnchecked
