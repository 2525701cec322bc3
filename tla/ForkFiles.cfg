SPECIFICATION Spec
CONSTANTS
  Forks = {main, s1}
  Main = main
  Procs = {p1, p2}
  main = main
  s1 = s1
  p1 = p1
  p2 = p2
  Absent = Absent
  Torn = Torn
  NoJob = NoJob
  MaxLines = 2
  MaxBirths = 2
  MaxKills = 1
  Reuse = FALSE
SYMMETRY Symmetry
INVARIANTS
  AnchorExists
  Kept
  Usable
