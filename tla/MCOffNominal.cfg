SPECIFICATION OffNominalSpec
CONSTANTS
  Ops = {1, 2}
  Scenarios = {1}
  Seeds = {0}
  Numbers = {0}
  Feasible = {1}
  Evaluations <- MCEvaluations
  Limits = {1, 4}
  MaxScripts = 2
  MaxLaunches = 2
  MaxAnalyses = 2
  MaxStops = 1
  None = None
  Torn = Torn
INVARIANTS
  VerdictStands
  OnlyFeasibleOpsCompared
  InfeasibleIsTrue
CHECK_DEADLOCK FALSE
