SPECIFICATION Spec
CONSTANTS
  Spec_0_99 = Spec_0_99
  Interim_0_97 = Interim_0_97
  Admissible <- MCAdmissible
  Nominal = Spec_0_99
  Interim = Interim_0_97
  Unbounded = Unbounded
  Garbled = Garbled
  Prose = Prose
  None = None
  Traces <- MCTraces
  Budgets <- MCBudgets
  AnswerTokens = 189
  MaxRetries = 2
  MaxCalls = 2
INVARIANTS
  FailuresAreNamed
  AnswersWithTheAnswer
  ThinksWhenAsked
PROPERTIES
  EveryCallEnds
CHECK_DEADLOCK FALSE
