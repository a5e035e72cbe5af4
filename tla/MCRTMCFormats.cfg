SPECIFICATION Spec
CONSTANTS
  M = M
  W = W
  Models <- AllModels
  NoModel = NoModel
  RCModel = M
  Threads = {t1, t2}
  NoThread = NoThread
  Calls <- FormatCalls
  Values = {0}
  Codes = {1, 8}
  Details = {0}
  MaxInbox = 3
INVARIANT TypeOK
INVARIANT PipelineInv
INVARIANT FormatInv
INVARIANT FormatAgreement
INVARIANT ExecLayout
SYMMETRY ThreadSymmetry
