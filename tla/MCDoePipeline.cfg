SPECIFICATION PipelineSpec
CONSTANTS
  Levels = {l1, l2}
  Seeds = {s0, s1}
  ConfirmationSeeds = {s5, s6}
  Numbers = {0, 1}
  Accepted <- MCAccepted
  MaxAnalyses = 2
  MaxStops = 1
  None = None
INVARIANTS
  SpecStands
  ResultIsMeasured
PROPERTIES
  PublishedNumbersStand
CHECK_DEADLOCK FALSE
SYMMETRY MCSymmetry
