\* A caller names a thread of the app-server that the host has not recorded.
SPECIFICATION Spec
CONSTANTS
  Threads = {t1, t2, t3}
  Turns = {u1, u2}
  Calls = {c1, c2}
  Ids = {i1, i2}
  Main = Main
  NoThread = NoThread
  NoTurn = NoTurn
  NoId = NoId
  NoActor = NoActor
  PoolSize = 2
  MaxChildren = 1
  MaxDepth = 1
  Tools = {"create_thread"}
  Operations = {"create_thread", "send_message_to_thread"}
  OneShot = FALSE
  NamesUnrecorded = TRUE
INVARIANTS
  RecursionBounded
CHECK_DEADLOCK FALSE
SYMMETRY HostSymmetry
