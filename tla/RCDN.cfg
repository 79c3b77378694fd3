\* two workers, two rounds, one exception, the cache written to
SPECIFICATION FairSpec
CONSTANTS
  p = p
  q = q
  r = r
  s = s
  Chunk <- MCChunk
  Bundle <- MCBundle
  Offset <- MCOffset
  Size <- MCSize
  Dst <- SmallDst
  Cached <- SomeCached
  CanWrite = TRUE
  HasUrl = TRUE
  Retry = 2
  Worker = {w1, w2}
  NoWorker = NoWorker
  NoFrame = NoFrame
  MaxThrows = 1
CHECK_DEADLOCK FALSE
INVARIANTS DeliveredOnce WholeBodyDelivers
PROPERTIES Returned FetchSpec
