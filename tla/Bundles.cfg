\* programs that end or are killed; the bounds on them end the behaviours
SPECIFICATION Spec
CONSTANTS
  x = x
  y = y
  c1 = c1
  c2 = c2
  c3 = c3
  none = none
  Chunk = {c1, c2, c3}
  Size <- MCSize
  Path = {x, y}
  Inputs <- MCInputs
  Commands <- MCCommands
  Junk = none
  MaxJunk = 4
  MaxThreads = 2
  MaxRuns = 2
  MaxKills = 1
  MaxFails = 1
INVARIANTS MergeRight MergeComplete ExtractedRight CheckRight
CHECK_DEADLOCK FALSE
