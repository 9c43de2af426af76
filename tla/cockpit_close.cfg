\* Six taps, changes and losses in any order, with two threads.
SPECIFICATION Spec
CONSTANTS
  Sessions = {s1, s2}
  Absent = Absent
  Keys = {k1, k2}
  k1 = k1
  NoKey = NoKey
  Hosts <- MCHosts
  Shown = {"waiting_approval", Absent}
  EventLimit = 2
  MaxMoves = 6
  Nothing = Nothing
INVARIANTS
  OnlyOwnConnection
CHECK_DEADLOCK FALSE
