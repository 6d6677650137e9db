CONSTANTS
  Exchanges <- AllExchanges
  HeaderBuf = 2
  MaxHeader = 3
  BufferSize = 4
  BodyCap = 7
  ChunkSizeMax = 17
  Window = 2
SPECIFICATION Spec
INVARIANTS ForwardedOnce NeverCutShort NoSpin NoneForgotten
CHECK_DEADLOCK FALSE
