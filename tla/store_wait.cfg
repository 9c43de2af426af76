\* Serial hooks of one thread, a watcher that never stops polling, and prune.
SPECIFICATION FairSpec
CONSTANTS
  Sessions = {s1}
  NoSession = NoSession
  Retentions = {1}
  Second = 2
  Hooks = {h1, h2}
  Reconcilers = {r1}
  Pruners = {p1}
  NoProc = NoProc
  HookStatuses = {"running", "done"}
  Transcribed = {s1}
  RolloutKinds = {"task_complete"}
  SerialHooks = TRUE
  NativeWindows = FALSE
  MaxTime = 2
INVARIANTS
  TimelineOrdered
PROPERTIES
  WaitingHookEnds
CHECK_DEADLOCK FALSE
