SPECIFICATION FairSpec
CONSTANTS
  Callers = {"shell", "monitor"}
  Shell = "shell"
  Roles = {"tcp_server", "udp_server"}
  MaxSessions = 2
  ExecutorDepth = 1
  MaxCoreStarts = 2
  RecvResults = {0, 8}
INVARIANTS
  TypeOK
  RecoverExclusive
  ApstaFollowsSession
  SessionOwnsState
PROPERTIES
  ReadyGetsApsta
  RecoverEnds
  StopEndsSession
CHECK_DEADLOCK FALSE
