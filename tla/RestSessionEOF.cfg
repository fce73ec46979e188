SPECIFICATION Spec
CONSTANTS
  Requests = {r1, r2}
  Kinds = {"input", "closeInput"}
  MaxWrites = 1
  Pieces = 1
  MaxOutput = 0
  MaxLines = 1
INVARIANTS
  ClosedInputIsEOF
