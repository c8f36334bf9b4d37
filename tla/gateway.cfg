\* A gateway from its files to the replies it gives.
SPECIFICATION FairSpec
CONSTANTS
  None = None
  NaN = NaN
  Forever = Forever
  NoAgent = NoAgent
  AliasOrder <- MCAliasOrder
  PolicyOrder <- MCPolicyOrder
  Answers <- MCAnswers
  Replies <- MCReplies
  Ids = {"a", "b"}
  Ttls <- MCTtls
  Writers = {"w1", "w2"}
  Loads <- MCLoads
  MaxCrashes = 1
  VertexEmbedBatch = 1
  OpenAiEmbedBatch = 2
INVARIANTS
  TableIsServable
  MaskedTextOnly
  BlockedReachesNobody
  PlanFollowsDecision
  RowsAccountForCalls
  VectorsFollowInputs
PROPERTIES
  FirstWriterKeepsTheId
  EveryRequestEnds
