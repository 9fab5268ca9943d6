SPECIFICATION Spec
CONSTANTS
  Interfaces = {"STA", "AP"}
  Slots = {1, 2}
  GenMod = 4
  MaxRequests = 2
  MaxResets = 1
  RecvResults = {0, 8}
PROPERTIES
  OwnGenerationOnly
CHECK_DEADLOCK FALSE
