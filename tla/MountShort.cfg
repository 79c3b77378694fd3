\* with bodies that end early
SPECIFICATION Spec
CONSTANTS
  a = a
  b = b
  c = c
  t1 = t1
  f = f
  g = g
  h = h
  x = x
  X = X
  y = y
  Y = Y
  z = z
  Name <- MCName
  Slash = Slash
  Lower <- MCLower
  NoFile = NoFile
  File = {f, g, h}
  Manifests <- MCManifests
  Paths <- MCPaths
  Lists = {f}
  t2 = t2
  Thread <- MCThread
  Chunk <- MCChunk
  Size <- MCSize
  List <- MCList
  Total <- MCTotal
  Reads <- MCReads
  Cached <- MCCached
  CanWrite = TRUE
  Bodies <- AnyBody
  Garbage = Garbage
  None = None
SYMMETRY Symmetry
INVARIANTS ReadRight
