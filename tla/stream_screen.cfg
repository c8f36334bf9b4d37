\* A secret needs three characters to be recognised, the window holds two.
SPECIFICATION Spec
CONSTANTS
  MinMatch = 3
  Holdback = 2
  MaxItems = 5
  Deltas <- HalfDeltas
  Lanes <- BothLanes
INVARIANTS
  ReplyIsScreenedWhole
  BlockedReplyStops
  OneScanWithTheWorst
  RowTellsTheReply
CHECK_DEADLOCK FALSE
