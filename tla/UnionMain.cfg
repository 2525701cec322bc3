SPECIFICATION Spec
CONSTANTS
  Forks = {main, s1}
  Main = main
  Paths = {f}
  Texts = {a, b}
  NoFork = NoFork
  NoFile = NoFile
  main = main
  s1 = s1
  f = f
  a = a
  b = b
  Bases = {main}
  Targets = {main}
  Seeds <- FullFile
  Observed = {"edited", "beside", "search"}
  MaxLines = 7
  MaxOwn = 4
  MaxAsides = 1
SYMMETRY Symmetry
INVARIANTS
  AlwaysLoads
  FusesFollow
PROPERTIES
  ReadsHold
  ReasoningKept
  Idempotent
