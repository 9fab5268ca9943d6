SPECIFICATION FairSpec
CONSTANTS
  Interfaces = {"STA"}
  Slots = {1, 2}
  GenMod = 5
  MaxRequests = 3
  MaxResets = 0
  RecvResults = {0, 8}
INVARIANTS
  TypeOK
  SlotOwnership
  GenerationsDistinct
  LinkUpImpliesActive
PROPERTIES
  OwnGenerationOnly
  SlotsComeBack
  EveryScanEnds
CHECK_DEADLOCK FALSE
