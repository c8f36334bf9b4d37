\* Two overlapping callers interleave every access to the breaker's cells.
CONSTANTS
  c1 = c1
  c2 = c2
  Callers <- TwoCallers
  Threshold = 2
  OpenFor = 2
  MaxAttempts = 2
  NoInstant = NoInstant
SPECIFICATION FairSpec
INVARIANTS OpenHasInstant
PROPERTIES NoRejectionAfterCoolDown EveryCallResolves NoPermanentRejection
