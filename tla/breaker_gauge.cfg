\* Two overlapping callers: GaugeTracksState does not hold of the code.
CONSTANTS
  c1 = c1
  c2 = c2
  Callers <- TwoCallers
  Threshold = 2
  OpenFor = 2
  MaxAttempts = 2
  NoInstant = NoInstant
SPECIFICATION Spec
INVARIANTS GaugeTracksState
