SPECIFICATION LineageSpec
CONSTANTS
  Forks = {main, s1, s2}
  Main = main
  Paths = {f}
  Texts = {a}
  NoFork = NoFork
  NoFile = NoFile
  Unreadable = Unreadable
  main = main
  s1 = s1
  s2 = s2
  f = f
  a = a
  Bases = {main, s1}
  Targets = {main, s1}
  Seeds <- FullFile
  Names <- NameOrder
  Imported <- OneFile
  Observed = {"none"}
  MaxSnapshots = 1
  MaxLines = 4
  MaxOwn = 3
  MaxAsides = 1
CHECK_DEADLOCK FALSE
INVARIANTS
  SingleHistory
  PointsMaterialize
  RevisionsResolve
  RangesCarry
  WorkKept
