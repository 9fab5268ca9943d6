SPECIFICATION FairSpec
CONSTANTS
  Callers = {"shell", "monitor"}
  Shell = "shell"
  Roles = {"tcp_server"}
  MaxSessions = 1
  ExecutorDepth = 1
  MaxCoreStarts = 2
  RecvResults = {0, 8}
PROPERTIES RecoveryStopsIperf
CHECK_DEADLOCK FALSE
