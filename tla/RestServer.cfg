SPECIFICATION CancellableSpec
CONSTANTS
  Callers = {c1, c2, c3}
  Calls = {"GetNew", "EvictAfter"}
  Ids = {i1, i2}
  MaxElements = 2
  MaxNewIDCalls = 1
INVARIANTS
  DeletedHasEnded
  CloseAccountsForAll
PROPERTIES
  SessionsEnd
  CloseReturns
