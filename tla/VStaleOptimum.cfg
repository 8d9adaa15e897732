SPECIFICATION PipelineSpec
CONSTANTS
  Levels = {l1, l2}
  Seeds = {s0, s1}
  ConfirmationSeeds = {s5}
  Numbers = {0, 1}
  Accepted <- MCAccepted
  MaxAnalyses = 2
  MaxStops = 0
  None = None
INVARIANTS
  ResultIsOfTheOptimum
CHECK_DEADLOCK FALSE
