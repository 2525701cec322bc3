SPECIFICATION MirrorSpec
CONSTANTS
  Forks = {main, s1}
  Main = main
  Paths = {f}
  Texts = {a}
  NoFork = NoFork
  NoFile = NoFile
  NoJob = NoJob
  Unbound = Unbound
  main = main
  s1 = s1
  f = f
  a = a
  Editors = {s1}
  Clients = {k1}
  Bases = {main}
  Targets = {main}
  Seeds <- FullFile
  Roots <- Filled
  Drafts <- Blank
  Observed = {"none"}
  MaxCommits = 4
  MaxLands = 2
  MaxLines = 4
  MaxOwn = 4
  MaxAsides = 4
CHECK_DEADLOCK FALSE
INVARIANTS
  AlwaysLoads
PROPERTIES
  ImportsMirror
  PrIsUnion
