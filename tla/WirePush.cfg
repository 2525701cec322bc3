SPECIFICATION Spec
CONSTANTS
  main = main
  s1 = s1
  s2 = s2
  b1 = b1
  b2 = b2
  r1 = r1
  r2 = r2
  Names <- TwoNames
  Blobs = {b1, b2}
  Opaque = {}
  NoFork = NoFork
  NoBlob = NoBlob
  Interval = 1
  Trigger = 1
  Sizes = {"small"}
  Repos = {r1, r2}
  Pushers = {r1, r2}
  Home <- OwnHome
  Main = main
  Seeds = {NoBlob}
  MaxCommands = 3
  MaxManifests = 2
  MaxAttempts = 2
  MaxFaults = 0
  LiveEdits = FALSE
  TornForget = FALSE
SYMMETRY Symmetry
INVARIANTS
  ImageIsSet
  Restorable
  DepthBound
PROPERTIES
  OnlyExtends
CHECK_DEADLOCK FALSE
