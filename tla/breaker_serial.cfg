\* Calls that do not overlap: the breaker is the state machine it looks like.
\* Threshold and attempts are those of Profile::Default.
CONSTANTS
  c1 = c1
  c2 = c2
  Callers <- OneCaller
  Threshold = 5
  OpenFor = 4
  MaxAttempts = 3
  NoInstant = NoInstant
SPECIFICATION Spec
INVARIANTS GaugeTracksState
PROPERTIES ImplementsStateMachine
