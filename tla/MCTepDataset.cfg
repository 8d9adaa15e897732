SPECIFICATION TepSpec
CONSTANTS
  Files = {f1, f2, f3}
  Addressed = {f1, f2}
  Sha256 = {f1}
  Md5 = {f2, f3}
  MaxInvocations = 3
  None = None
INVARIANTS
  TepTypeOK
  ExitZeroMeansWhole
PROPERTIES
  LostOnlyToADownload
CHECK_DEADLOCK FALSE
