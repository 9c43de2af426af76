\* Five taps, changes and losses in any order, with two threads.
SPECIFICATION FairSpec
CONSTANTS
  Sessions = {s1, s2}
  Absent = Absent
  Keys = {k1, k2}
  k1 = k1
  NoKey = NoKey
  Hosts <- MCHosts
  Shown = {"waiting_approval", Absent}
  EventLimit = 2
  MaxMoves = 5
  Nothing = Nothing
INVARIANTS
  TypeOK
  NothingRejected
  ConnectedHasConnection
  ReviewedKeyIsPinned
  PreviewIsOfThread
PROPERTIES
  ListCatchesUp
CHECK_DEADLOCK FALSE
