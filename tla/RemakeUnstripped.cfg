\* the chunks are kept in the manifest
SPECIFICATION Spec
CONSTANTS
  a = a
  b = b
  f1 = f1
  f2 = f2
  f3 = f3
  NIL = NIL
  ZERO = ZERO
  Piece <- MCPiece
  Files <- MCFiles
  Strip = FALSE
  Appending = {FALSE}
  FlushAt = 2
  MaxKills = 0
  MaxFails = 0
  MaxRuns = 2
INVARIANTS RestoreFaithful
CHECK_DEADLOCK FALSE
