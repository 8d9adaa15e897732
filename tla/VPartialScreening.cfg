SPECIFICATION MCInOrderSpec
CONSTANTS
  Ops = {1}
  Scenarios = {1, 2}
  Seeds = {0, 1}
  Numbers = {0, 2, 3}
  Feasible = {1}
  Evaluations <- MCOneEvaluation
  Limits = {6}
  MaxScripts = 2
  MaxLaunches = 1
  MaxAnalyses = 1
  MaxStops = 0
  None = None
  Torn = Torn
INVARIANTS
  ClearIsConservative
CHECK_DEADLOCK FALSE
