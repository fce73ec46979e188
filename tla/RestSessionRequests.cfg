SPECIFICATION Spec
CONSTANTS
  Requests = {r1, r2, r3}
  Kinds = {"status", "input", "closeInput", "cancel", "expire", "shutdown"}
  MaxWrites = 2
  Pieces = 2
  MaxOutput = 2
  MaxLines = 1
SYMMETRY Interchangeable
INVARIANTS
  TypeOK
  InputWhole
  EndHonest
  StatusHonest
PROPERTIES
  SettledStays
  ImplementsProcess
