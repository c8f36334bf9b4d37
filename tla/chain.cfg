\* Two requests over chains with and without a provider that is not built.
CONSTANTS
  r1 = r1
  r2 = r2
  p1 = p1
  p2 = p2
  p3 = p3
  Requests <- TwoRequests
  Providers <- AllProviders
  Built <- BuiltTwo
  Routings <- SmallRoutings
  Threshold = 1
  OpenFor = 1
  MaxAttempts = 2
  NoInstant = NoInstant
SPECIFICATION FairSpec
INVARIANTS OpenAnswerMeansNoCall ReplyFromOneLeg
PROPERTIES NoCallAfterCommit EveryRequestAnswered FirstLegRecovers
