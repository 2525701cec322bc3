SPECIFICATION FairSpec
CONSTANTS
  Procs = {p1, p2}
  Paths = {x}
  Blobs = {b1}
  Ids = {a1, a2}
  NoProc = NoProc
  NoBlob = NoBlob
  NoId = NoId
  p1 = p1
  p2 = p2
  x = x
  b1 = b1
  a1 = a1
  a2 = a2
  Kinds = {"apply", "batch", "commit", "read", "gc"}
  MaxBatch = 2
  MaxFaults = 2
  DelayedAlloc = FALSE
INVARIANTS
  SoundUntilCut
PROPERTIES
  OnlyCutsRewrite
  Released
