--------------------------- MODULE HelperCommands ---------------------------
(***************************************************************************)
(* codex-radar-helper processes.  Each process runs one command and ends;  *)
(* nothing stops the operator from running several at once, or from        *)
(* killing one at any point.  stage is the file operation a process is     *)
(* about to perform.                                                       *)
(***************************************************************************)
EXTENDS Integers

CONSTANTS
  Helpers,       \* processes that may run at once
  MaxCommands    \* bound: commands started in a behaviour

ASSUME CommandsAssumption == MaxCommands \in Nat

VARIABLES
  stage,
  commands       \* how many commands have been started

commandVars == <<stage, commands>>

InstallStage == {"load_state", "read_current", "preflight", "destination", "publish"}

RollbackStage == {"choose_target", "rollback_preflight"}

SwitchStage == InstallStage \cup RollbackStage \cup
  {"shims", "link", "record", "restore", "reselect", "cleanup",
   "switched", "switch_failed"}

ApplyStage == {"merge", "backup", "recheck", "replace", "readback", "undo",
               "applied", "apply_failed"}

CommandsInit ==
  /\ stage = [h \in Helpers |-> "idle"]
  /\ commands = 0

Switching == {h \in Helpers : stage[h] \in SwitchStage}
Applying == {h \in Helpers : stage[h] \in ApplyStage}

StartCommand(h, first) ==
  /\ stage[h] = "idle"
  /\ commands < MaxCommands
  /\ commands' = commands + 1
  /\ stage' = [stage EXCEPT ![h] = first]

Goto(h, next) ==
  /\ stage' = [stage EXCEPT ![h] = next]
  /\ UNCHANGED commands
=============================================================================
