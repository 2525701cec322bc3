SPECIFICATION Spec
CONSTANTS
  main = main
  s1 = s1
  s2 = s2
  b1 = b1
  b2 = b2
  r1 = r1
  r2 = r2
  Names <- TwoNames
  Blobs = {b1, b2}
  Opaque = {b2}
  NoFork = NoFork
  NoBlob = NoBlob
  Interval = 1
  Trigger = 2
  Sizes = {"small", "large"}
  Repos = {r1}
  Pushers = {r1}
  Home <- OwnHome
  Main = main
  Seeds = {NoBlob}
  MaxCommands = 4
  MaxManifests = 4
  MaxAttempts = 2
  MaxFaults = 0
  LiveEdits = FALSE
  TornForget = FALSE
INVARIANTS
  Restorable
CHECK_DEADLOCK FALSE
