---------------------------- MODULE HelperRuntime ----------------------------
(***************************************************************************)
(* Installation and rollback of helper runtimes: immutable version         *)
(* directories, the selector `current`, install-state.json with the        *)
(* history of selected versions, and the command shims in the user's bin   *)
(* directory.  No lock protects them: each command is a sequence of file   *)
(* operations, and undoes what it did when one of them fails.              *)
(*                                                                         *)
(* A version directory is complete when it appears, because it is built    *)
(* under a temporary name and renamed; temporary names are unique, so what *)
(* a killed command leaves under one is never looked at and is left out.   *)
(***************************************************************************)
EXTENDS HelperCommands, Ordering

CONSTANTS
  Versions, NoVersion,
  Digests, NoDigest,
  Bundles,         \* [version, digest, verified, runnable]
  Hosts,           \* what earlier commands have left: [versions, state]
  Names,           \* the commands that get a shim
  ForeignNames     \* names the user may give to a file of his own

ASSUME RuntimeAssumption ==
  /\ NoVersion \notin Versions /\ NoDigest \notin Digests
  /\ Bundles \subseteq [version : Versions, digest : Digests,
                        verified : BOOLEAN, runnable : BOOLEAN]
  /\ Names # {} /\ ForeignNames \subseteq Names
  /\ \A host \in Hosts :
       /\ host.versions \in [Versions -> Digests \cup {NoDigest}]
       /\ host.state.current \in Versions \cup {NoVersion}
       /\ host.state.history \in Seq(Versions)
       /\ \A v \in Versions : host.versions[v] # NoDigest =>
            \E b \in Bundles : /\ b.verified /\ b.runnable
                               /\ b.version = v /\ b.digest = host.versions[v]
       /\ host.state.current # NoVersion => host.versions[host.state.current] # NoDigest

VARIABLES
  versions,        \* manifest digest in the marker of each version directory
  current,         \* the version the selector names
  installState,    \* install-state.json
  shims,           \* what is at each managed command path
  work,            \* the local variables of each command
  undisturbed,     \* no overlap, no kill or failed undo between two records
  overtaken        \* names whose file the user put there after a last look

runtimeFiles == <<versions, current, installState, shims>>
runtimeVars == <<runtimeFiles, work, undisturbed, overtaken>>

\* found is not in the code: it records what a command has to undo to.
NoWork == [version |-> NoVersion, digest |-> NoDigest, previous |-> NoVersion,
           history |-> <<>>, missing |-> {}, created |-> {}, checked |-> {}, found |-> <<>>]

Found == <<current, installState, shims>>

\* Shims are there once a version has been installed.
RuntimeInit ==
  /\ \E host \in Hosts :
       LET usual == IF host.state.current = NoVersion THEN "absent" ELSE "ours" IN
       /\ versions = host.versions
       /\ current = host.state.current
       /\ installState = [current |-> host.state.current, history |-> host.state.history]
       /\ shims = [n \in Names |-> usual]
  /\ work = [h \in Helpers |-> NoWork]
  /\ undisturbed = TRUE
  /\ overtaken = {}

Installed(v) == versions[v] # NoDigest

\* _load_manifest, _check_compatibility and _verified_artifacts
Verified(b) == b.verified

Update(h, field, value) == work' = [work EXCEPT ![h][field] = value]

StartSwitch(h, first, arguments) ==
  /\ StartCommand(h, first)
  /\ undisturbed' = (undisturbed /\ Switching = {})
  /\ work' = [work EXCEPT ![h] = [arguments EXCEPT !.found = Found]]
  /\ UNCHANGED <<runtimeFiles, overtaken>>

-----------------------------------------------------------------------------
(* install_bundle *)

BeginInstall(h, b) ==
  /\ Verified(b)
  /\ StartSwitch(h, "load_state", [NoWork EXCEPT !.version = b.version, !.digest = b.digest])

LoadState(h) ==
  /\ stage[h] = "load_state"
  /\ Update(h, "history", installState.history)
  /\ Goto(h, "read_current")
  /\ UNCHANGED <<runtimeFiles, undisturbed, overtaken>>

ReadCurrent(h) ==
  /\ stage[h] = "read_current"
  /\ Update(h, "previous", current)
  /\ Goto(h, "preflight")
  /\ UNCHANGED <<runtimeFiles, undisturbed, overtaken>>

\* _preflight_shims: anything but an own shim or a free name is refused.
ShimsFree == \A n \in Names : shims[n] # "foreign"

Preflight(h) ==
  /\ \/ stage[h] = "preflight" /\
        Goto(h, IF ShimsFree THEN "destination" ELSE "switch_failed")
     \/ stage[h] = "rollback_preflight" /\
        Goto(h, IF ShimsFree THEN "shims" ELSE "switch_failed")
  /\ UNCHANGED runtimeVars

CheckDestination(h) ==
  /\ stage[h] = "destination"
  /\ Goto(h, CASE ~Installed(work[h].version) -> "publish"
               [] versions[work[h].version] = work[h].digest -> "shims"
               [] OTHER -> "switch_failed")
  /\ UNCHANGED runtimeVars

\* Mutant: an existing directory is replaced.
PublishOver(h) ==
  /\ stage[h] = "publish"
  /\ \E b \in Bundles : /\ Verified(b) /\ b.runnable
                        /\ b.version = work[h].version /\ b.digest = work[h].digest
  /\ versions' = [versions EXCEPT ![work[h].version] = work[h].digest]
  /\ Goto(h, "shims")
  /\ UNCHANGED <<current, installState, shims, work, undisturbed, overtaken>>

\* The staging directory is renamed, unless the version has appeared by now or
\* what the wheel holds is no runtime.
Publish(h) ==
  LET v == work[h].version IN
  /\ stage[h] = "publish"
  /\ ~Installed(v)
  /\ \E b \in Bundles : /\ Verified(b) /\ b.runnable
                        /\ b.version = v /\ b.digest = work[h].digest
  /\ versions' = [versions EXCEPT ![v] = work[h].digest]
  /\ Goto(h, "shims")
  /\ UNCHANGED <<current, installState, shims, work, undisturbed, overtaken>>

\* shutil.rmtree(staging)
PublishFails(h) ==
  /\ stage[h] = "publish"
  /\ Goto(h, "switch_failed")
  /\ UNCHANGED runtimeVars

-----------------------------------------------------------------------------
(* rollback_runtime; without a current runtime it is refused at once *)

BeginRollback(h, asked) ==
  /\ current # NoVersion
  /\ StartSwitch(h, "choose_target", [NoWork EXCEPT !.version = asked, !.previous = current])

Without(history, v) == Picked(history, {i \in DOMAIN history : history[i] # v})

\* The version asked for, or the latest of the history that is not current.
Target(h) ==
  LET candidates == Without(installState.history, work[h].previous)
  IN  IF work[h].version # NoVersion THEN work[h].version
      ELSE IF candidates # <<>> THEN Head(candidates) ELSE NoVersion

\* Mutant: a rollback does not look for the version's directory.
ChooseAnyTarget(h) ==
  /\ stage[h] = "choose_target"
  /\ Target(h) \in Versions
  /\ work' = [work EXCEPT ![h].version = Target(h), ![h].history = installState.history]
  /\ Goto(h, "rollback_preflight")
  /\ UNCHANGED <<runtimeFiles, undisturbed, overtaken>>

ChooseTarget(h) ==
  /\ stage[h] = "choose_target"
  /\ \/ /\ Target(h) \in Versions
        /\ Installed(Target(h))
        /\ work' = [work EXCEPT ![h].version = Target(h),
                                ![h].history = installState.history]
        /\ Goto(h, "rollback_preflight")
     \/ /\ Target(h) \in Versions => ~Installed(Target(h))
        /\ Goto(h, "switch_failed")
        /\ UNCHANGED work
  /\ UNCHANGED <<runtimeFiles, undisturbed, overtaken>>

-----------------------------------------------------------------------------
(* _ensure_shims, _select_current, _record_switch: common to both *)

FindMissingShims(h) ==
  /\ stage[h] = "shims"
  /\ IF ShimsFree
     THEN /\ Update(h, "missing", {n \in Names : shims[n] = "absent"})
          /\ Goto(h, "link")
     ELSE /\ Goto(h, "switch_failed")
          /\ UNCHANGED work
  /\ UNCHANGED <<runtimeFiles, undisturbed, overtaken>>

LinkShim(h, n) ==
  /\ stage[h] = "link"
  /\ n \in work[h].missing
  /\ shims[n] = "absent"
  /\ shims' = [shims EXCEPT ![n] = "ours"]
  /\ work' = [work EXCEPT ![h].missing = @ \ {n}, ![h].created = @ \cup {n}]
  /\ UNCHANGED <<stage, commands, versions, current, installState, undisturbed, overtaken>>

\* A name that is taken by now, or any other OSError.
LinkFails(h) ==
  /\ stage[h] = "link"
  /\ work[h].missing # {}
  /\ Goto(h, "cleanup")
  /\ UNCHANGED runtimeVars

Select(h) ==
  /\ stage[h] = "link" /\ work[h].missing = {}
  /\ current' = work[h].version
  /\ Goto(h, "record")
  /\ UNCHANGED <<versions, installState, shims, work, undisturbed, overtaken>>

SelectFails(h) ==
  /\ stage[h] = "link" /\ work[h].missing = {}
  /\ Goto(h, "cleanup")
  /\ UNCHANGED runtimeVars

\* Mutant: the version that was replaced goes to the end of the history.
HistoryAtEnd(h) ==
  LET kept == Without(work[h].history, work[h].version)
  IN  IF work[h].previous \in {NoVersion, work[h].version} THEN kept
      ELSE Append(kept, work[h].previous)

\* Mutant: whatever was current before goes into the history.
HistoryAlways(h) ==
  <<work[h].previous>> \o Without(work[h].history, work[h].version)

\* The new history is computed from the state that was loaded at the start.
History(h) ==
  LET kept == Without(work[h].history, work[h].version)
  IN  IF work[h].previous \in {NoVersion, work[h].version} THEN kept
      ELSE <<work[h].previous>> \o kept

Record(h) ==
  /\ stage[h] = "record"
  /\ installState' = [current |-> work[h].version, history |-> History(h)]
  /\ Goto(h, "switched")
  /\ UNCHANGED <<versions, current, shims, work, undisturbed, overtaken>>

\* Mutant: the selector stays when its record cannot be written.
RecordFailsOnly(h) ==
  /\ stage[h] = "record"
  /\ Goto(h, "cleanup")
  /\ UNCHANGED runtimeVars

RecordFails(h) ==
  /\ stage[h] = "record"
  /\ Goto(h, "restore")
  /\ UNCHANGED runtimeVars

\* _restore_current refuses when somebody else has switched since.
Restore(h) ==
  /\ stage[h] = "restore"
  /\ Goto(h, IF current = work[h].version THEN "reselect" ELSE "cleanup")
  /\ UNCHANGED runtimeVars

Reselect(h) ==
  /\ stage[h] = "reselect"
  /\ current' = work[h].previous
  /\ Goto(h, "cleanup")
  /\ UNCHANGED <<versions, installState, shims, work, undisturbed, overtaken>>

ReselectFails(h) ==
  /\ stage[h] = "reselect"
  /\ undisturbed' = FALSE
  /\ Goto(h, "cleanup")
  /\ UNCHANGED <<runtimeFiles, work, overtaken>>

LookAt(h, n, own) ==
  /\ stage[h] = "cleanup"
  /\ n \in work[h].created
  /\ work[h].checked = {}
  /\ work' = IF own THEN [work EXCEPT ![h].checked = {n}]
             ELSE [work EXCEPT ![h].created = @ \ {n}]
  /\ UNCHANGED <<stage, commands, runtimeFiles, undisturbed, overtaken>>

\* Mutant: the cleanup does not compare what is at the path with its link.
CheckNothing(h, n) == LookAt(h, n, TRUE)

\* _cleanup_created_shims goes on only with what is still the command's own
\* link: is_symlink and readlink.
CheckShim(h, n) == LookAt(h, n, shims[n] = "ours")

\* unlink, which takes away whatever is at the path by now.
UnlinkShim(h, n) ==
  /\ stage[h] = "cleanup"
  /\ n \in work[h].checked
  /\ shims' = [shims EXCEPT ![n] = "absent"]
  /\ work' = [work EXCEPT ![h].created = @ \ {n}, ![h].checked = {}]
  /\ UNCHANGED <<stage, commands, versions, current, installState, undisturbed, overtaken>>

\* An OSError of either: the shim is left where it is.
UnlinkFails(h, n) ==
  /\ stage[h] = "cleanup"
  /\ n \in work[h].created
  /\ work[h].checked \subseteq {n}
  /\ work' = [work EXCEPT ![h].created = @ \ {n}, ![h].checked = {}]
  /\ undisturbed' = FALSE
  /\ UNCHANGED <<stage, commands, runtimeFiles, overtaken>>

FinishCleanup(h) ==
  /\ stage[h] = "cleanup" /\ work[h].created = {}
  /\ Goto(h, "switch_failed")
  /\ UNCHANGED runtimeVars

-----------------------------------------------------------------------------

ExitSwitch(h) ==
  /\ stage[h] \in {"switched", "switch_failed"}
  /\ Goto(h, "idle")
  /\ work' = [work EXCEPT ![h] = NoWork]
  /\ UNCHANGED <<runtimeFiles, undisturbed, overtaken>>

\* Only a kill between the selector and its record leaves the two apart.
KillSwitch(h) ==
  /\ stage[h] \in SwitchStage \ {"switched", "switch_failed"}
  /\ Goto(h, "idle")
  /\ work' = [work EXCEPT ![h] = NoWork]
  /\ undisturbed' = (undisturbed /\ stage[h] \notin {"record", "restore", "reselect"})
  /\ UNCHANGED <<runtimeFiles, overtaken>>

\* The user puts a file of his own where a shim is, or belongs; perhaps just
\* where a command has looked and is about to unlink.
PlaceForeign(n) ==
  /\ n \in ForeignNames
  /\ shims[n] # "foreign"
  /\ shims' = [shims EXCEPT ![n] = "foreign"]
  /\ undisturbed' = (undisturbed /\ Switching = {})
  /\ overtaken' = IF \E h \in Helpers : n \in work[h].checked
                  THEN overtaken \cup {n} ELSE overtaken \ {n}
  /\ UNCHANGED <<commandVars, versions, current, installState, work>>

RuntimeNext ==
  \/ \E h \in Helpers :
       \/ \E b \in Bundles : BeginInstall(h, b)
       \/ \E v \in Versions \cup {NoVersion} : BeginRollback(h, v)
       \/ LoadState(h) \/ ReadCurrent(h) \/ Preflight(h)
       \/ CheckDestination(h) \/ Publish(h) \/ PublishFails(h)
       \/ ChooseTarget(h) \/ FindMissingShims(h)
       \/ \E n \in Names :
            LinkShim(h, n) \/ CheckShim(h, n) \/ UnlinkShim(h, n) \/ UnlinkFails(h, n)
       \/ LinkFails(h) \/ Select(h) \/ SelectFails(h)
       \/ Record(h) \/ RecordFails(h) \/ Restore(h) \/ Reselect(h) \/ ReselectFails(h)
       \/ FinishCleanup(h) \/ ExitSwitch(h) \/ KillSwitch(h)
  \/ \E n \in Names : PlaceForeign(n)
=============================================================================
