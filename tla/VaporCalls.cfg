SPECIFICATION Spec
CONSTANTS
  Callers = {c1, c2, c3, c4}
  Calls = {"New", "GetNew", "Get", "Evict", "EvictAfter", "Close"}
  Ids = {i1, i2}
  MaxElements = 2
  MaxNewIDCalls = 1
SYMMETRY Interchangeable
INVARIANTS
  TypeOK
  InitializedFirst
  EvictAfterLeavesNothing
CHECK_DEADLOCK FALSE
