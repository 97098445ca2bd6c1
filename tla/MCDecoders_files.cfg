SPECIFICATION Spec
CONSTANTS
  RingN = 16
  RingF = 4
  ChunkBlocks = 3
  BlockSize = 4096
  Jobs <- SomeJobs
CHECK_DEADLOCK FALSE
INVARIANT NothingWrong
INVARIANT NothingMissed
