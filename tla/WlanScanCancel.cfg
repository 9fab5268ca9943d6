SPECIFICATION Spec
CONSTANTS
  Interfaces = {"STA"}
  Slots = {1, 2}
  GenMod = 5
  MaxRequests = 2
  MaxResets = 0
  RecvResults = {0, 8}
PROPERTIES
  CancelledScanCannotCompleteNew
CHECK_DEADLOCK FALSE
