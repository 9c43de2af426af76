\* Hooks beside codex-radar prune.
SPECIFICATION Spec
CONSTANTS
  Sessions = {s1, s2}
  NoSession = NoSession
  Retentions = {1}
  Second = 2
  Hooks = {h1, h2}
  Reconcilers = {}
  Pruners = {p1}
  NoProc = NoProc
  HookStatuses = {"running"}
  Transcribed = {}
  RolloutKinds = {}
  SerialHooks = TRUE
  NativeWindows = FALSE
  MaxTime = 2
PROPERTIES
  SessionsLeaveOnlyByRetention
CHECK_DEADLOCK FALSE
