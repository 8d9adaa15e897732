SPECIFICATION Spec
CONSTANTS
  NCells = 3
  Values = {1, 2}
  MaxCells = {1, 3}
  MaxSignals = 1
  MaxCrashes = 1
  None = None
INVARIANTS
  LosesAtMostOneCell
  DoneIsBackedBySmoke
  RunningNeedsCrash
  ExitZeroMeansDecided
PROPERTIES
  ImplementsLedger
  EveryCellDecided
