SPECIFICATION ArtifactsSpec
CONSTANTS
  MaxRuns = 3
  Recorded = {"timeseries", "safety_log"}
  MaxRows = 1
  Torn = Torn
  Missing = Missing
INVARIANTS
  ArtifactsTypeOK
  VerifiedIsOneRun
  FinalizedIsVerified
CHECK_DEADLOCK FALSE
