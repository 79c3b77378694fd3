\* programs that end, throw or are killed, and writes that fail; the bounds on them end the behaviours
SPECIFICATION Spec
CONSTANTS
  a = a
  b = b
  o = o
  p = p
  q = q
  Q = Q
  r = r
  u = u
  v = v
  en = en
  de = de
  no = no
  dots = dots
  odd = odd
  pdir = pdir
  sdir = sdir
  rdir = rdir
  fdir = fdir
  rlsman = rlsman
  slnman = slnman
  noname = noname
  Word = {p, q, Q, r, u, v, a, b, o, no, pdir, sdir, rdir, fdir, rlsman, slnman}
  Projects = pdir
  Solutions = sdir
  Releases = rdir
  FilesDir = fdir
  RlsName = rlsman
  SlnName = slnman
  NoName = noname
  Lower <- MCLower
  Contents <- MCContents
  NoWord = no
  DotWords = {dots}
  BadLangs = {odd, no}
  LastHash = 4
  MaxPath = 4
  Name = {a, b, o, r}
  NoFile = NoFile
  First <- MCFirst
  New <- MCNew
  Commands <- MCCommands
  JsonHash = {0, 1, 2, 3}
  MaxRuns = 2
  MaxFaults = 1
  MaxLines = 3
INVARIANTS WrittenIsRead NothingInvented MergeFaithful DiffOfChunks BundlesKnown UpdateComplete ReleaseRight
PROPERTY ParsedRight
CHECK_DEADLOCK FALSE
