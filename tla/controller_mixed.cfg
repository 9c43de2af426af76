\* The same, with output that may end within a line.
SPECIFICATION Spec
CONSTANTS
  Lists = {"list"}
  Usage = "usage"
  Parts = {TRUE, FALSE}
  MaxMoves = 2
INVARIANTS
  AnswersReachRequests
CHECK_DEADLOCK FALSE
