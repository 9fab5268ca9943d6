SPECIFICATION Spec
CONSTANTS
  FailLimit = 2
  CountMax = 2
  MaxResets = 4
  MaxKvErrors = 1
  Images = {"new"}
  Length <- MCLength
  Pages = 3
  BlocksMax = 4
  MaskBits = 5
  BlockMax = 6
  CacheBlocks = 2
  SectorBlocks = 2
  EraseBlocks = 4
  MaxSkip = 1
  MaxDisturbances = 0
INVARIANT FiveResetsForceUf2
CHECK_DEADLOCK FALSE
