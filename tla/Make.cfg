\* cut by size and, strictly, by content
SPECIFICATION MakeSpec
CONSTANTS
  x = x
  y = y
  Options <- MCOptions
  Totals <- MCTotals
  Data <- MCData
  Align = 2
  Headers <- AnyArchive
  Strip = TRUE
INVARIANTS MadeRight MadeWhole
PROPERTY MakeEnds
CHECK_DEADLOCK FALSE
