SPECIFICATION FairSpec
CONSTANTS
  PoolSize = 2
  MaxFrames = 5
  RecvResults = {0, 8}
INVARIANTS
  TypeOK
  BlockOwnership
  QueueNeverFull
  DeliveryOrder
PROPERTIES
  PoolIsolation
  EveryBlockReturns
