\* Two hooks, a watcher and no prune: every interleaving and crash.
SPECIFICATION Spec
CONSTANTS
  Sessions = {s1, s2}
  NoSession = NoSession
  Retentions = {0, 1}
  Second = 3
  Hooks = {h1, h2}
  Reconcilers = {r1}
  Pruners = {}
  NoProc = NoProc
  HookStatuses = {"running"}
  Transcribed = {s1}
  RolloutKinds = {"task_complete"}
  SerialHooks = FALSE
  NativeWindows = TRUE
  MaxTime = 3
INVARIANTS
  TypeOK
  IndexReadable
PROPERTIES
  SavesAreAtomic
  SessionsLeaveOnlyByRetention
  ReconcileKeepsNewer
CHECK_DEADLOCK FALSE
SYMMETRY HookSymmetry
