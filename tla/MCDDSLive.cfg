SPECIFICATION FairSpec
CONSTANTS
  Cmds = {A}
  Notices = {rcStatus, jaStatus}
  MaxRequests = 2
  MaxSessions = 2
  MaxNotices = 2
  SpuriousWakeups = TRUE
  NoCmd = NoCmd
INVARIANT LatestNoticeKept
PROPERTY NoCallAfterLoss
PROPERTY CallReturns
PROPERTY ListenerReleased
CHECK_DEADLOCK FALSE
