SPECIFICATION MCSpec
CONSTANTS
  Tokens <- MCTokens
  Chars <- MCChars
  BasePaths <- MCBasePaths
  Paths <- MCPaths
  Docs <- MCDocs
INVARIANTS
  CleanEndsWithSlash
CHECK_DEADLOCK FALSE
