SPECIFICATION Spec
CONSTANTS
  Callers = {c1, c2, c3}
  Calls = {"connect", "wait", "sendText", "closeInput", "cancel"}
  MaxLines = 2
  MaxOutput = 3
INVARIANTS
  TypeOK
  OneProcess
  SentIsRead
  WaitTells
PROPERTIES
  WaitSettles
CHECK_DEADLOCK FALSE
