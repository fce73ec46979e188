SPECIFICATION Spec
CONSTANTS
  MessageBufferSize = 1
  Kinds = {"text", "empty", "call", "close", "cancel", "garbage", "other"}
  MaxFrames = 4
  MaxOutput = 1
INVARIANTS
  TypeOK
  InputFaithful
  EndOfInputHonest
  CauseHonest
  ResultReported
PROPERTIES
  ImplementsProcess
CHECK_DEADLOCK FALSE
