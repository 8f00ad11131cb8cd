CONSTANTS
  Versions = {v1, v2}
  Shims = {s1}
  Codexes = {c1, c2}
  None = None
  Managed = Managed
SPECIFICATION Spec
SYMMETRY Symmetry
INVARIANTS
  ActiveUsable
  SuccessAgrees
  ReadyVerified
  RollbackUndone
  OriginalKept
