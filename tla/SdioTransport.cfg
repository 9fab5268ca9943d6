SPECIFICATION FairSpec
CONSTANTS
  BlockSize = 4
  MaxFrame = 14
  StagingSize = 16
  EndAddress = 32
  LengthModulus = 32
  WordMax = 63
  HeaderSize = 3
  Jobs = {1, 2, 3}
  FrameLength <- MCFrameLength
  QueueDepth = 2
  RxBurst = 1
  TxBurst = 1
  TokenAttempts = 1
  TokenModulus = 2
  InvalidLimit = 2
  Buffers = 1
  MaxWake = 2
  MaxPackets = 1
  MaxStarts = 2
  RecvResults = {0, 8}
INVARIANTS
  TypeOK
  WakeCoversQueue
  NoBufferOverrun
  WireMatchesReference
PROPERTIES
  NoStaleFrameOnBus
  EveryFrameCompleted
  RetainsUntilCompletion
CHECK_DEADLOCK FALSE
