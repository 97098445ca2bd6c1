SPECIFICATION Spec
CONSTANTS
  RingN = 16
  RingF = 4
  ChunkBlocks = 3
  BlockSize = 4096
  Jobs <- DocJobs
CHECK_DEADLOCK FALSE
INVARIANT EndEndsMap
INVARIANT PrefilledWithZeros
