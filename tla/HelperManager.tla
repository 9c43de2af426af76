---------------------------- MODULE HelperManager ----------------------------
(***************************************************************************)
(* codex-radar-helper: processes that install, roll back and wire hooks,   *)
(* and the diagnosis that looks at the results of all three.               *)
(***************************************************************************)
EXTENDS HelperRuntime, HookConfig

vars == <<commandVars, runtimeVars, hookVars>>

Init == CommandsInit /\ RuntimeInit /\ HookInit

Next ==
  \/ RuntimeNext /\ UNCHANGED hookVars
  \/ HookNext /\ UNCHANGED runtimeVars

Spec == Init /\ [][Next]_vars

-----------------------------------------------------------------------------
(* diagnose_helper *)

\* _runtime_diagnostics: without the marker a version is not there.
RuntimeCode ==
  IF current = NoVersion THEN "current_missing"
  ELSE IF Installed(current) THEN "ready" ELSE "runtime_missing"

ShimCodes == {shims[n] : n \in Names}

Diagnosis ==
  IF RuntimeCode = "ready" /\ ShimCodes = {"ours"} /\ Wiring(hooks) = "ready"
  THEN "ready" ELSE "issues"
=============================================================================
