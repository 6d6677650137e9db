CONSTANTS
  Streams <- AllStreams
  HeaderBuf = 3
  MaxHeader = 4
  MaxPost = 3
  PostBudget = 4
  PostYield = 2
  StreamBuf = 2
  RecordMax = 2
  Window = 3
  Attempts <- Registrations
  Requests <- Uploads
  Boundary <- Bound
  FileLine = {"file", "file2"}
  BadLine = {"bad"}
  AbortAt = {0, 1, 2, 3, 4}
  POST_STREAM_MAX_PARTS = 3
  POST_STREAM_MAX_FIELDS_TOTAL = 6
  POST_STREAM_MAX_FIELD_SIZE = 4
  POST_STREAM_MAX_PART_HEADER = 9
  MaxUrl = 3
  Sessions <- AtBufferEdge
  InBuffer = 5
  MaxInBuffer = 8
  MaxFragments = 4
  StreamChunk = 3
  ControlMax = 2
  TopLength = 100
  MaskLen = 2
  Asks <- AllAsks
SPECIFICATION Spec
INVARIANTS ValidFramesAccepted
CHECK_DEADLOCK FALSE
