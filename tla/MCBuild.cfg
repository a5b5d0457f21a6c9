SPECIFICATION Spec
CONSTANTS
  s1 = s1
  s2 = s2
  s3 = s3
  f1 = f1
  f2 = f2
  None = None
  Sessions = {s1, s2, s3}
  Sources = {f1, f2}
  Backup = TRUE
  MaxEdits = 2
SYMMETRY Symmetric
INVARIANTS TypeOK EditsAreBuilt
PROPERTY SomeBuildKept
CHECK_DEADLOCK FALSE
