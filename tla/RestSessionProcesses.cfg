SPECIFICATION OrderedSpec
CONSTANTS
  Requests = {1, 2, 3}
  Kinds = {"status", "input", "closeInput", "cancel", "expire", "shutdown"}
  MaxWrites = 1
  Pieces = 1
  MaxOutput = 0
  MaxLines = 1
PROPERTIES
  ClosersAnswered
  InputReleased
  ReaderFinishes
