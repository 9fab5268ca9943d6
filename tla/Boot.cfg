SPECIFICATION FairSpec
CONSTANTS
  FailLimit = 2
  CountMax = 2
  MaxResets = 3
  MaxKvErrors = 1
  Images = {"new", "big"}
  Length <- MCLength
  Pages = 3
  BlocksMax = 4
  MaskBits = 5
  BlockMax = 6
  CacheBlocks = 2
  SectorBlocks = 2
  EraseBlocks = 4
  MaxSkip = 1
  MaxDisturbances = 1
INVARIANTS
  TypeOK
  CrashLoopStops
  StoredOrCached
  AppIsWhole
  FlashPortMatchesReference
PROPERTIES
  NoFalseForce
  ForceIsOneShot
  ResetsOnlyWhenComplete
  UpgradeBoots
CHECK_DEADLOCK FALSE
