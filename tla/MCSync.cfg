SPECIFICATION Spec
CONSTANTS
  Threads = {a, b}
  Providers = {openai, other}
  MaxTurns = 2
  MaxRuns = 2
  MaxCodex = 2
  MaxRemote = 2
SYMMETRY Symmetry
INVARIANTS
  ImportedOnce
  TurnsKept
  RepairAligns
  FailureRestores
CHECK_DEADLOCK FALSE
