SPECIFICATION Spec
CONSTANTS
  Cmds = {A, B}
  Notices = {rcStatus}
  MaxRequests = 4
  MaxSessions = 3
  MaxNotices = 0
  SpuriousWakeups = FALSE
  NoCmd = NoCmd
INVARIANT TypeOK
INVARIANT LockInv
INVARIANT NoLostWakeup
INVARIANT FreshInv
INVARIANT FreshUnlessLate
PROPERTY Contract
SYMMETRY CmdSymmetry
CHECK_DEADLOCK FALSE
