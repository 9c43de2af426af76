\* A pool of one worker: a turn's call waits for a turn whose call is queued.
SPECIFICATION FairSpec
CONSTANTS
  Threads = {t1}
  Turns = {u1, u2}
  Calls = {c1, c2}
  Ids = {i1}
  Main = Main
  NoThread = NoThread
  NoTurn = NoTurn
  NoId = NoId
  NoActor = NoActor
  PoolSize = 1
  MaxChildren = 1
  MaxDepth = 1
  Tools = {"send_message_to_thread", "list_threads"}
  Operations = {"create_thread"}
  OneShot = FALSE
  NamesUnrecorded = FALSE
PROPERTIES
  CallsEnd
CHECK_DEADLOCK FALSE
