CONSTANTS
  Exchanges <- Pipelined
  HeaderBuf = 2
  MaxHeader = 3
  BufferSize = 4
  BodyCap = 7
  ChunkSizeMax = 17
  Window = 2
SPECIFICATION Spec
INVARIANT DoneOnlyIfGone
CHECK_DEADLOCK FALSE
