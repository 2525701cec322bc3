SPECIFICATION Spec
CONSTANTS
  one = one
  two = two
  Paths = {one}
  NoFile = NoFile
  Bytes = {"a", "b", "n", "w", "x", "y", "z"}
  NL = "n"
  Sessions = {s1, s2}
  NoSession = NoSession
  Start <- OneFile
  Tools <- LedgerTools
  ShellEdits <- Formatter
  Modes = {"full", "dry", "keep"}
  Resuming = TRUE
  MaxCalls = 2
  MaxReads = 1
  MaxShells = 1
  MaxRuns = 2
SYMMETRY Symmetry
CHECK_DEADLOCK FALSE
INVARIANTS
  RecordedOnce
  ReadsNameMet
