SPECIFICATION Spec
CONSTANTS
  one = one
  two = two
  Paths = {one, two}
  NoFile = NoFile
  Bytes = {"a", "b", "n", "w", "x", "y", "z"}
  NL = "n"
  Sessions = {s1}
  NoSession = NoSession
  Start <- OneFile
  Tools <- PlanTools
  ShellEdits <- Formatter
  Modes = {"full"}
  Resuming = FALSE
  MaxCalls = 3
  MaxReads = 0
  MaxShells = 1
  MaxRuns = 1
CHECK_DEADLOCK FALSE
INVARIANTS
  PlanKeepsBytes
  TracksHonest
  CallsAccounted
  IntentTellsDelta
  BlameHolds
  DiffApplies
