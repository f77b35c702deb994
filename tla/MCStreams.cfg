CONSTANTS
  MaxMessages = 5
  FrameLen = 2
  Capacity = 5
  HeaderLength = 2
  BufferSize = 2
  FrameLengths <- ShortAndLong
  FrameCount = 3
  Radix = 2
  LengthSize = 2
  StreamLen = 9
  ChunkSize = 5
SPECIFICATION MCSpec
CHECK_DEADLOCK FALSE
INVARIANTS
  BytesInOrder
  FramesAreMessages
  ChunkingIndependent
PROPERTIES
  MessagesArrive
  FinishTaken
  ViewerEnds
