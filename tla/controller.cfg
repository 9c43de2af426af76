\* Refreshes, resets, exits and a dispose in any order; output comes in whole lines.
SPECIFICATION FairSpec
CONSTANTS
  Lists = {"list"}
  Usage = "usage"
  Parts = {FALSE}
  MaxMoves = 2
INVARIANTS
  NoOrphan
PROPERTIES
  UsageCatchesUp
  CallsEnd
CHECK_DEADLOCK FALSE
