\* Turns of harness sessions over tables as built and as pruned.
SPECIFICATION Spec
CONSTANTS
  None = None
  BaseOrder <- Bases
  ClaudeModels = {"claude-opus"}
  TextOnlyModels = {"deepseek-chat"}
  MaxTurns = 3
  MaxSessions = 1
  Files <- SomeFiles
  Drops <- SomeDrops
  HarnessOrder <- HarnessIds
  ModelRoutes <- ChatRoutes
  Asks <- MCAsks
CHECK_DEADLOCK FALSE
INVARIANTS
  OneTurnPerSession
  SessionStaysPut
  PlanIsTheEligibleGrid
  PlanKeepsTheBase
  RoutesStayDecidable
