\* A provider stream that closes before its Done, on the standard lane, which
\* is the one the quoted guide describes.
SPECIFICATION Spec
CONSTANTS
  MinMatch = 2
  Holdback = 1
  MaxItems = 4
  Deltas <- WordyDeltas
  Lanes = {"standard"}
INVARIANTS
  TruncationIsReported
CHECK_DEADLOCK FALSE
