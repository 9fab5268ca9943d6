SPECIFICATION FairSpec
CONSTANTS
  Callers = {"shell"}
  Shell = "shell"
  Roles = {"udp_server"}
  MaxSessions = 1
  ExecutorDepth = 2
  MaxCoreStarts = 1
  RecvResults = {8}
PROPERTIES ReadyInitializes
CHECK_DEADLOCK FALSE
