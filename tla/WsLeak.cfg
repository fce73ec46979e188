SPECIFICATION ServerSpec
CONSTANTS
  MessageBufferSize = 1
  Kinds = {"text", "call"}
  MaxFrames = 3
  MaxOutput = 0
PROPERTIES
  WaitEnds
CHECK_DEADLOCK FALSE
