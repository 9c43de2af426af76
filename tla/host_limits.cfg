\* One operation and the tool calls of its turns, with timeouts and exits.
SPECIFICATION Spec
CONSTANTS
  Threads = {t1, t2, t3}
  Turns = {u1, u2}
  Calls = {c1, c2}
  Ids = {i1, i2}
  Main = Main
  NoThread = NoThread
  NoTurn = NoTurn
  NoId = NoId
  NoActor = NoActor
  PoolSize = 2
  MaxChildren = 1
  MaxDepth = 1
  Tools = {"create_thread", "read_thread", "other"}
  Operations = {"create_thread"}
  OneShot = TRUE
  NamesUnrecorded = FALSE
INVARIANTS
  TypeOK
  AnswersMatch
  SlotsAccounted
  ChildrenBounded
  RecursionBounded
PROPERTIES
  ClosedFailsAll
  NoCompletionMissed
CHECK_DEADLOCK FALSE
SYMMETRY HostSymmetry
