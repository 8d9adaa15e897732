SPECIFICATION SimSpec
CONSTANTS
  MaxStep = 1
  Compositions = {0, 2}
  Requests = {0, 2}
  TickDt = 2
  Duration = 7
  Period = 3
  ProfileEvery = 2
  MaxCalls = 2
  Inf = Inf
INVARIANTS
  LogIsTheResult
  CommandsAreFresh
  AgentTracksItsTarget
  KPIIsOfTheWholeWindow
PROPERTIES
  ImplementsWindow
CHECK_DEADLOCK FALSE
