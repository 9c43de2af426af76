----------------------------- MODULE HookConfig -----------------------------
(***************************************************************************)
(* codex-radar-helper hook-config --apply: Codex' hooks.json is read,      *)
(* every Radar entry in it is replaced by one canonical entry per managed  *)
(* event, a backup is written, and the file is replaced if it is still     *)
(* what was read.  The user edits the same file with his own editor.       *)
(*                                                                         *)
(* A configuration is, per event, a sequence of groups of entries.  Extra  *)
(* says that a group has fields besides its entries, such as a matcher.    *)
(***************************************************************************)
EXTENDS HelperCommands, Ordering

CONSTANTS
  Events,          \* HOOK_EVENTS
  UserEntries,     \* commands of the user, nothing to do with Radar
  Contents,        \* configurations that the user may write
  Samples,         \* configurations on which merging is checked
  Missing,         \* there is no hooks.json
  Invalid,         \* a symlink, no JSON, or JSON of another shape
  MaxEdits         \* bound: edits by the user in a behaviour

RadarEntries == {"stable", "legacy", "mismatched"}
Entries == RadarEntries \cup UserEntries

Group == [entries : Seq(Entries), extra : BOOLEAN]

ASSUME HookAssumption ==
  /\ Events # {}
  /\ UserEntries \cap RadarEntries = {}
  /\ Contents \cup Samples \subseteq [Events -> Seq(Group)]
  /\ Missing # Invalid /\ {Missing, Invalid} \cap [Events -> Seq(Group)] = {}
  /\ MaxEdits \in Nat

VARIABLES
  hooks,           \* hooks.json
  backups,         \* backup files, with the number of the command they are by
  plan,            \* the local variables of each command, and whether it is alone
  user,            \* what the user wrote last
  edits,
  raced            \* an edit fell between a command's last look and its end

hookVars == <<hooks, backups, plan, user, edits, raced>>

Config == [Events -> Seq(Group)]
Empty == [e \in Events |-> <<>>]
NoPlan == [original |-> Missing, number |-> 0, alone |-> FALSE]

HookInit ==
  /\ hooks \in Contents \cup {Missing, Invalid}
  /\ backups = {}
  /\ plan = [h \in Helpers |-> NoPlan]
  /\ user = hooks
  /\ edits = 0
  /\ raced = FALSE

-----------------------------------------------------------------------------
(* _merge_hook_config *)

Parsed(text) == IF text = Missing THEN Empty ELSE text

\* A group without Radar's entries.
Stripped(group) ==
  [group EXCEPT !.entries =
     Picked(@, {i \in DOMAIN @ : @[i] \notin RadarEntries})]

\* Mutant: a group without entries is dropped, whatever else it says.
RetainedFull(groups) ==
  Picked([i \in DOMAIN groups |-> Stripped(groups[i])],
         {i \in DOMAIN groups : Stripped(groups[i]).entries # <<>>})

\* A group keeps the entries that are not Radar's; one with neither entries
\* nor other fields is dropped.
Retained(groups) ==
  Picked([i \in DOMAIN groups |-> Stripped(groups[i])],
         {i \in DOMAIN groups : Stripped(groups[i]).entries # <<>> \/ groups[i].extra})

Canonical == [entries |-> <<"stable">>, extra |-> FALSE]

Merge(config) == [e \in Events |-> Append(Retained(config[e]), Canonical)]

-----------------------------------------------------------------------------
(* _hook_wiring_diagnostics *)

\* The positions of Radar's entries for an event.
RadarAt(groups) ==
  {p \in UNION {{i} \X DOMAIN groups[i].entries : i \in DOMAIN groups} :
     groups[p[1]].entries[p[2]] \in RadarEntries}

EventCheck(groups) ==
  LET at == RadarAt(groups)
      entry(p) == groups[p[1]].entries[p[2]]
  IN  CASE Cardinality(at) > 1 -> "duplicate"
        [] at = {} -> "missing"
        [] OTHER -> entry(CHOOSE p \in at : TRUE)

Verdict(checks) ==
  IF checks = {"stable"} THEN "ready"
  ELSE IF checks = {"legacy"} THEN "legacy"
  ELSE IF "duplicate" \in checks THEN "duplicate"
  ELSE IF "mismatched" \in checks THEN "mismatched"
  ELSE "incomplete"

Wiring(text) ==
  CASE text = Missing -> "hooks_missing"
    [] text = Invalid -> "hooks_invalid"
    [] OTHER -> Verdict({EventCheck(text[e]) : e \in Events})

-----------------------------------------------------------------------------
(* apply_hook_config; an invalid file is refused at once *)

Proposed(h) == Merge(Parsed(plan[h].original))

BeginApply(h) ==
  /\ hooks # Invalid
  /\ StartCommand(h, "merge")
  /\ plan' = [g \in Helpers |->
                IF g = h
                THEN [original |-> hooks, number |-> commands', alone |-> Applying = {}]
                ELSE [plan[g] EXCEPT !.alone = FALSE]]
  /\ UNCHANGED <<hooks, backups, user, edits, raced>>

\* Nothing to change; the file is read again to diagnose it.
Unchanged(h) ==
  /\ stage[h] = "merge"
  /\ Proposed(h) = plan[h].original
  /\ Goto(h, IF Wiring(hooks) = "ready" THEN "applied" ELSE "apply_failed")
  /\ UNCHANGED hookVars

PlanChange(h) ==
  /\ stage[h] = "merge"
  /\ Proposed(h) # plan[h].original
  /\ Goto(h, IF plan[h].original = Missing THEN "recheck" ELSE "backup")
  /\ UNCHANGED hookVars

OwnBackup(h) == [number |-> plan[h].number, content |-> plan[h].original]

WriteBackup(h) ==
  /\ stage[h] = "backup"
  /\ backups' = backups \cup {OwnBackup(h)}
  /\ Goto(h, "recheck")
  /\ UNCHANGED <<hooks, plan, user, edits, raced>>

\* Mutant: the file is not read again before it is replaced.
RecheckNothing(h) ==
  /\ stage[h] = "recheck"
  /\ Goto(h, "replace")
  /\ UNCHANGED hookVars

Recheck(h) ==
  /\ stage[h] = "recheck"
  /\ \/ /\ hooks = plan[h].original
        /\ Goto(h, "replace")
        /\ UNCHANGED backups
     \/ /\ hooks # plan[h].original
        \* a file that has become invalid raises before the backup is removed
        /\ backups' = IF hooks = Invalid THEN backups ELSE backups \ {OwnBackup(h)}
        /\ Goto(h, "apply_failed")
  /\ UNCHANGED <<hooks, plan, user, edits, raced>>

Replace(h) ==
  /\ stage[h] = "replace"
  /\ hooks' = Proposed(h)
  /\ Goto(h, "readback")
  /\ UNCHANGED <<backups, plan, user, edits, raced>>

ReplaceFails(h) ==
  /\ stage[h] = "replace"
  /\ Goto(h, "undo")
  /\ UNCHANGED hookVars

\* Another content, or a file that cannot be read, is undone.
Readback(h) ==
  /\ stage[h] = "readback"
  /\ \/ hooks = Proposed(h) /\ Wiring(hooks) = "ready" /\ Goto(h, "applied")
     \/ Goto(h, "undo")
  /\ UNCHANGED hookVars

\* Mutant: a failed update leaves what it wrote.
UndoNothing(h) ==
  /\ stage[h] = "undo"
  /\ Goto(h, "apply_failed")
  /\ UNCHANGED hookVars

\* Mutant: a failed update removes the file.
UndoRemoves(h) ==
  /\ stage[h] = "undo"
  /\ hooks' = Missing
  /\ Goto(h, "apply_failed")
  /\ UNCHANGED <<backups, plan, user, edits, raced>>

\* The original is written back, or a file that was not there removed.
Undo(h) ==
  /\ stage[h] = "undo"
  /\ hooks' = plan[h].original
  /\ Goto(h, "apply_failed")
  /\ UNCHANGED <<backups, plan, user, edits, raced>>

ExitApply(h) ==
  /\ stage[h] \in {"applied", "apply_failed"}
  /\ Goto(h, "idle")
  /\ plan' = [plan EXCEPT ![h] = NoPlan]
  /\ UNCHANGED <<hooks, backups, user, edits, raced>>

\* A kill, or a backup or an undo that fails: the command ends where it is.
KillApply(h) ==
  /\ stage[h] \in ApplyStage \ {"applied", "apply_failed"}
  /\ Goto(h, "idle")
  /\ plan' = [plan EXCEPT ![h] = NoPlan]
  /\ UNCHANGED <<hooks, backups, user, edits, raced>>

\* The user saves the file, removes it, or makes it unreadable for Radar.  An
\* edit before the first command is another initial state and no step.
Edit(text) ==
  /\ edits < MaxEdits
  /\ Applying # {} \/ backups # {} \/ hooks # user
  /\ text # hooks
  /\ hooks' = text
  /\ user' = text
  /\ edits' = edits + 1
  /\ raced' = (raced \/ \E h \in Helpers : stage[h] \in {"replace", "readback", "undo"})
  /\ UNCHANGED <<commandVars, backups, plan>>

HookNext ==
  \/ \E h \in Helpers :
       \/ BeginApply(h) \/ Unchanged(h) \/ PlanChange(h) \/ WriteBackup(h)
       \/ Recheck(h) \/ Replace(h) \/ ReplaceFails(h) \/ Readback(h) \/ Undo(h)
       \/ ExitApply(h) \/ KillApply(h)
  \/ \E text \in Contents \cup {Missing, Invalid} : Edit(text)
=============================================================================
