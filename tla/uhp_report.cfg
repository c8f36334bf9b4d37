\* One turn over the table as built: the walk may serve a leg a second tier lists.
SPECIFICATION Spec
CONSTANTS
  None = None
  BaseOrder <- Bases
  ClaudeModels = {"claude-opus"}
  TextOnlyModels = {"deepseek-chat"}
  MaxTurns = 1
  MaxSessions = 1
  Files <- GoodFiles
  Drops <- NoDrops
  HarnessOrder <- HarnessIds
  ModelRoutes <- ChatRoutes
  Asks <- PlainAsks
CHECK_DEADLOCK FALSE
INVARIANTS
  HeadersNameTheServingTier
