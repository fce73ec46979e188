SPECIFICATION ServerSpec
CONSTANTS
  MessageBufferSize = 1
  Kinds = {"text", "call", "close", "cancel"}
  MaxFrames = 4
  MaxOutput = 0
PROPERTIES
  CancelledWindsDown
  InputEndWindsDown
  TextsArrive
CHECK_DEADLOCK FALSE
