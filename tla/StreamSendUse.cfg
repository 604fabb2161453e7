SPECIFICATION StreamSpec
CONSTANTS
  Total = 7
  Chunk = 2
  Watermark = 2
  Header = 1
  Base = 2
  Frames <- RawAndChunked
INVARIANTS
  SentInOrder
  OutputIsBounded
PROPERTIES
  StallIsReal
  StreamEnds
CHECK_DEADLOCK FALSE
