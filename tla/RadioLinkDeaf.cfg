\* One unit of time is 100 ms: a heartbeat every 2 or 3, a timeout of 5.
CONSTANTS
  TimeMod = 8
  FifoDepth = 3
  TimeoutMs = 5
  LoopDelay = 1
  LoopMax = 1
  TxDelay = 2
  TxMax = 3
SPECIFICATION FairSpec
PROPERTY LinkComesBack
