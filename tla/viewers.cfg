SPECIFICATION Spec
CONSTANTS
  web = web
  app = app
  Absent = Absent
  Nothing = Nothing
  None = None
  Sessions = {1, 2, 3}
  Projects = {web, app}
  Project <- MCProject
  Anonymous = {3}
  MaxChanges = 4
  Scope <- MCScope
  Changes <- MCChanges
  Filters <- MCFilters
  Heights = {1, 2, 3}
  Watched = {"done", "waiting_approval"}
  Recorded = {1, 2}
  FileLimit = 1
  MaxMoves = 2
  MaxRounds = 3
INVARIANTS TypeOK ResumedWasMarked ArchiveStateHeld
PROPERTIES AlertedOnce DashboardNeverOlder PreviewStays
CHECK_DEADLOCK FALSE
