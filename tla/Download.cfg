\* every combination of options, writes that fail and kills
SPECIFICATION FairSpec
CONSTANTS
  a = a
  b = b
  c = c
  Chunk <- MCChunk
  Size <- MCSize
  List <- MCList
  Total <- MCTotal
  OldFiles <- MCOldFiles
  NoFile = NoFile
  Zero = Zero
  Flags <- AllFlags
INVARIANTS OkMeansRight
PROPERTIES RightStays Converges
