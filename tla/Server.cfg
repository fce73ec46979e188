SPECIFICATION MCSpec
CONSTANTS
  Tokens <- MCTokens
  Chars <- MCChars
  BasePaths <- MCBasePaths
  Paths <- MCPaths
  Docs <- MCDocs
INVARIANTS
  CleanIsClean
  ClientReachesServer
  ServesItsBase
  FallbackTransparent
  SpecKeepsOrder
CHECK_DEADLOCK FALSE
