SPECIFICATION Spec
CONSTANTS
  Interfaces = {"STA"}
  Slots = {1, 2}
  GenMod = 5
  MaxRequests = 1
  MaxResets = 1
  RecvResults = {0, 8}
PROPERTIES
  RecoveryTakesLinksDown
CHECK_DEADLOCK FALSE
