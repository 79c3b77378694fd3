\* runs with and without --append that end in order, with an exception, or killed;
\* the bounds on runs and kills end the behaviours
SPECIFICATION Spec
CONSTANTS
  a = a
  b = b
  f1 = f1
  f2 = f2
  f3 = f3
  NIL = NIL
  ZERO = ZERO
  Piece <- MCPiece
  Files <- MCFiles
  Strip = TRUE
  Appending = {TRUE, FALSE}
  FlushAt = 2
  MaxKills = 1
  MaxFails = 2
  MaxRuns = 3
INVARIANTS RestoreFaithful ManifestReadable NothingTwice
CHECK_DEADLOCK FALSE
