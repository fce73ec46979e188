SPECIFICATION OrderedSpec
CONSTANTS
  c1 = c1
  c2 = c2
  c3 = c3
  Callers = {c1, c2, c3}
  Calls = {"connect", "wait", "sendText", "closeInput", "cancel"}
  HookCalls = {"none", "sendText", "closeInput", "cancel"}
  Verdicts = {"fulfilled"}
  MaxLines = 1
INVARIANTS
  TypeOK
  WaitTells
  WireInOrder
PROPERTIES
  ConnectSettles
  WaitSettles
CHECK_DEADLOCK FALSE
