SPECIFICATION TepSpec
CONSTANTS
  Files = {f1, f2, f3}
  Addressed = {f1, f2, f3}
  Sha256 = {}
  Md5 = {f1, f2, f3}
  MaxInvocations = 3
  None = None
INVARIANTS
  OnlyMatchingFilesInPlace
CHECK_DEADLOCK FALSE
