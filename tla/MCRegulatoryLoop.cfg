SPECIFICATION LoopSpec
CONSTANTS
  Scale = 5
  Setpoints = {0, 2, 5}
  Measurements = {0, 3, 5}
  MaxStep = 2
  Kp = 2
  Ki = 1
  Kd = 1
  OutMin = 0
  OutMax = 6
INVARIANTS
  IntegralBounded
PROPERTIES
  LeavesSaturation
  SetpointReached
