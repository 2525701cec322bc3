SPECIFICATION Spec
CONSTANTS
  Procs = {p1, p2}
  Paths = {x, y}
  Blobs = {b1, b2}
  Ids = {a1, a2, a3}
  NoProc = NoProc
  NoBlob = NoBlob
  NoId = NoId
  p1 = p1
  p2 = p2
  x = x
  y = y
  b1 = b1
  b2 = b2
  a1 = a1
  a2 = a2
  a3 = a3
  Kinds = {"apply", "batch"}
  MaxBatch = 2
  MaxFaults = 2
  DelayedAlloc = FALSE
SYMMETRY Symmetry
INVARIANTS
  ChainIntact
  AckedDurable
  WriteAhead
PROPERTIES
  KeepsPromise
