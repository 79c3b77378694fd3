\* the process ends, or hangs, and the writes and signals are bounded
SPECIFICATION FairSpec
CONSTANTS
  main = main
  w1 = w1
  w2 = w2
  Main = main
  Thread <- Workers
  Length = 3
  MaxWrites = 2
  MaxSignals = 3
  Programs <- MCPrograms
INVARIANTS NeverCut
PROPERTIES WritesFinish
CHECK_DEADLOCK FALSE
