SPECIFICATION Spec
CONSTANTS
  s1 = s1
  s2 = s2
  s3 = s3
  Sessions = {s1, s2, s3}
  Commands = {"run", "clean"}
  Inodes = {1, 2, 3}
  NoFile = NoFile
  Free = Free
  RelayNames = 1
  Validators = 1
  Persistent = FALSE
CHECK_DEADLOCK FALSE
INVARIANT Exclusive
