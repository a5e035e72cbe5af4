SPECIFICATION Spec
CONSTANTS
  Cmds = {A}
  Notices = {rcStatus}
  MaxRequests = 2
  MaxSessions = 1
  MaxNotices = 0
  SpuriousWakeups = TRUE
  NoCmd = NoCmd
INVARIANT ReplyAnswersRequest
CHECK_DEADLOCK FALSE
