SPECIFICATION Spec
CONSTANTS
  Proposals <- MCProposals
  Plants <- MCPlants
  Refluxes = {1, 2}
  MaxRounds = 2
  FirstRoundReasoning = FALSE
  Canonical = 9
  None = None
  NTicks = 3
  LT0 = 1
INVARIANTS
  TracksLastAccepted
  FeedbackOfThisCycle
  TraceIsOneRun
  RunnerMatchesTrace
  ExitTellsFile
PROPERTIES
  RunEnds
  ImplementsContract
CHECK_DEADLOCK FALSE
