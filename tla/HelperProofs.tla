---------------------------- MODULE HelperProofs ----------------------------
(***************************************************************************)
(* TLAPS proofs about the helper, for every set of helper processes,       *)
(* versions, bundles and command names, and every configuration: first the *)
(* runtimes, then what merging does to a configuration, then the updates   *)
(* of hooks.json.                                                          *)
(***************************************************************************)
EXTENDS HelperProperties, OrderingProofs, TLAPS

-----------------------------------------------------------------------------
(* The runtimes.  What the proofs about them need of the types *)

Stages == SwitchStage \cup ApplyStage \cup {"idle"}

WorkFields == {"version", "digest", "previous", "history", "missing", "created", "checked",
               "found"}

\* The part of TypeOK that the proofs need; what a history is made of does not
\* matter to them.
TypeInv ==
  /\ stage \in [Helpers -> Stages]
  /\ commands \in Nat
  /\ versions \in [Versions -> Digests \cup {NoDigest}]
  /\ current \in Versions \cup {NoVersion}
  /\ DOMAIN installState = {"current", "history"}
  /\ shims \in [Names -> {"absent", "ours", "foreign"}]
  /\ DOMAIN work = Helpers
  /\ \A h \in Helpers :
       /\ DOMAIN work[h] = WorkFields
       /\ work[h].version \in Versions \cup {NoVersion}
       /\ work[h].previous \in Versions \cup {NoVersion}
       /\ work[h].missing \subseteq Names
       /\ work[h].created \subseteq Names
       /\ work[h].checked \subseteq work[h].created
       /\ stage[h] \in InstallStage => work[h].version \in Versions /\ work[h].digest \in Digests
  /\ undisturbed \in BOOLEAN

LEMMA TypeInit == Init => TypeInv
  BY RuntimeAssumption
  DEF Init, CommandsInit, RuntimeInit, TypeInv, Stages, NoWork, WorkFields,
      SwitchStage, InstallStage, RollbackStage

\* The commands on hooks.json leave the runtime alone, and the stages of the
\* commands that switch.
LEMMA HookFrame ==
  ASSUME TypeInv, HookNext /\ UNCHANGED runtimeVars
  PROVE  /\ stage' \in [Helpers -> Stages]
         /\ commands' \in Nat
         /\ \A h \in Helpers : 
              \/ stage'[h] = stage[h]
              \/ stage[h] \notin SwitchStage /\ stage'[h] \notin SwitchStage
<1>1. CASE \E h \in Helpers : BeginApply(h)
  BY <1>1 DEF BeginApply, StartCommand, TypeInv, Stages, SwitchStage, InstallStage,
              RollbackStage, ApplyStage
<1>2. CASE \E h \in Helpers :
             Unchanged(h) \/ PlanChange(h) \/ WriteBackup(h) \/ Recheck(h) \/ Replace(h)
  BY <1>2 DEF Unchanged, PlanChange, WriteBackup, Recheck, Replace, Goto, TypeInv, Stages,
              SwitchStage, InstallStage, RollbackStage, ApplyStage
<1>3. CASE \E h \in Helpers :
             ReplaceFails(h) \/ Readback(h) \/ Undo(h) \/ ExitApply(h) \/ KillApply(h)
  BY <1>3 DEF ReplaceFails, Readback, Undo, ExitApply, KillApply, Goto, TypeInv, Stages,
              SwitchStage, InstallStage, RollbackStage, ApplyStage
<1>4. CASE \E text \in Contents \cup {Missing, Invalid} : Edit(text)
  BY <1>4 DEF Edit, commandVars, TypeInv
<1>5. QED
  BY <1>1, <1>2, <1>3, <1>4 DEF HookNext

LEMMA TypeStep == TypeInv /\ [Next]_vars => TypeInv'
<1> SUFFICES ASSUME TypeInv, [Next]_vars PROVE TypeInv'
  OBVIOUS
<1> USE RuntimeAssumption
<1> USE DEF TypeInv, Stages, SwitchStage, InstallStage, RollbackStage
<1>1. CASE UNCHANGED vars
  BY <1>1 DEF vars, commandVars, runtimeVars, runtimeFiles
<1>2. CASE HookNext /\ UNCHANGED runtimeVars
  BY <1>2, HookFrame DEF runtimeVars, runtimeFiles
<1>3. CASE \E h \in Helpers, b \in Bundles : BeginInstall(h, b)
  BY <1>3 DEF BeginInstall, StartSwitch, StartCommand, NoWork, WorkFields, runtimeFiles
<1>4. CASE \E h \in Helpers, v \in Versions \cup {NoVersion} : BeginRollback(h, v)
  BY <1>4 DEF BeginRollback, StartSwitch, StartCommand, NoWork, WorkFields, runtimeFiles
<1>5. CASE \E h \in Helpers : LoadState(h) \/ ReadCurrent(h)
  <2>1. CASE \E h \in Helpers : LoadState(h)
    BY <2>1 DEF LoadState, Update, Goto, runtimeFiles
  <2>2. CASE \E h \in Helpers : ReadCurrent(h)
    BY <2>2 DEF ReadCurrent, Update, Goto, runtimeFiles
  <2>3. QED
    BY <1>5, <2>1, <2>2
<1>6. CASE \E h \in Helpers : Preflight(h) \/ CheckDestination(h) \/ PublishFails(h)
  BY <1>6 DEF Preflight, CheckDestination, PublishFails, Goto, runtimeVars, runtimeFiles
<1>7. CASE \E h \in Helpers : Publish(h)
  BY <1>7 DEF Publish, Goto
<1>8. CASE \E h \in Helpers : ChooseTarget(h)
  <2>1. PICK h \in Helpers : ChooseTarget(h)
    BY <1>8
  <2>2. CASE UNCHANGED work
    BY <2>1, <2>2 DEF ChooseTarget, Goto, runtimeFiles
  <2>3. CASE /\ Target(h) \in Versions
             /\ work' = [work EXCEPT ![h].version = Target(h), ![h].history = installState.history]
             /\ Goto(h, "rollback_preflight")
    BY <2>1, <2>3 DEF ChooseTarget, Goto, runtimeFiles
  <2>4. QED
    BY <2>1, <2>2, <2>3 DEF ChooseTarget
<1>9. CASE \E h \in Helpers : FindMissingShims(h)
  <2>1. PICK h \in Helpers : FindMissingShims(h)
    BY <1>9
  <2>2. CASE ShimsFree
    <3>1. {n \in Names : shims[n] = "absent"} \subseteq Names
      OBVIOUS
    <3>2. \A g \in Helpers :
            /\ DOMAIN work'[g] = WorkFields
            /\ work'[g].version = work[g].version
            /\ work'[g].previous = work[g].previous
            /\ work'[g].digest = work[g].digest
            /\ work'[g].created = work[g].created
            /\ work'[g].checked = work[g].checked
            /\ work'[g].missing \subseteq Names
      BY <2>1, <2>2, <3>1 DEF FindMissingShims, Update, WorkFields
    <3>3. QED
      BY <2>1, <2>2, <3>2 DEF FindMissingShims, Update, Goto, runtimeFiles
  <2>3. CASE ~ShimsFree
    BY <2>1, <2>3 DEF FindMissingShims, Goto, runtimeFiles
  <2>4. QED
    BY <2>2, <2>3
<1>10. CASE \E h \in Helpers, n \in Names : LinkShim(h, n)
  BY <1>10 DEF LinkShim
<1>20. CASE \E h \in Helpers, n \in Names : CheckShim(h, n)
  BY <1>20 DEF CheckShim, LookAt, runtimeFiles, commandVars
<1>11. CASE \E h \in Helpers, n \in Names : UnlinkShim(h, n) \/ UnlinkFails(h, n)
  <2>1. CASE \E h \in Helpers, n \in Names : UnlinkShim(h, n)
    BY <2>1 DEF UnlinkShim
  <2>2. CASE \E h \in Helpers, n \in Names : UnlinkFails(h, n)
    <3>1. PICK h \in Helpers, n \in Names : UnlinkFails(h, n)
      BY <2>2
    <3>2. work[h].created \ {n} \subseteq Names
      OBVIOUS
    <3>3. \A g \in Helpers :
            /\ DOMAIN work'[g] = WorkFields
            /\ work'[g].version = work[g].version
            /\ work'[g].previous = work[g].previous
            /\ work'[g].digest = work[g].digest
            /\ work'[g].missing = work[g].missing
            /\ work'[g].created \subseteq Names
            /\ work'[g].checked \subseteq work'[g].created
      BY <3>1, <3>2 DEF UnlinkFails, WorkFields
    <3>4. QED
      BY <3>1, <3>3, ZenonT(40) DEF UnlinkFails, runtimeFiles
  <2>3. QED
    BY <1>11, <2>1, <2>2
<1>12. CASE \E h \in Helpers : LinkFails(h) \/ SelectFails(h) \/ RecordFails(h)
  BY <1>12 DEF LinkFails, SelectFails, RecordFails, Goto, runtimeVars, runtimeFiles
<1>17. CASE \E h \in Helpers : Restore(h)
  BY <1>17 DEF Restore, Goto, runtimeVars, runtimeFiles
<1>18. CASE \E h \in Helpers : ReselectFails(h) \/ FinishCleanup(h)
  <2>1. CASE \E h \in Helpers : ReselectFails(h)
    <3>1. PICK h \in Helpers : ReselectFails(h)
      BY <2>1
    <3>2. undisturbed' \in BOOLEAN
      BY <3>1 DEF ReselectFails
    <3>3. stage' \in [Helpers -> Stages] /\ stage'[h] \notin InstallStage
      BY <3>1 DEF ReselectFails, Goto
    <3>4. QED
      BY <3>1, <3>2, <3>3 DEF ReselectFails, Goto, runtimeFiles
  <2>2. CASE \E h \in Helpers : FinishCleanup(h)
    BY <2>2 DEF FinishCleanup, Goto, runtimeVars, runtimeFiles
  <2>3. QED
    BY <1>18, <2>1, <2>2
<1>13. CASE \E h \in Helpers : Select(h) \/ Record(h) \/ Reselect(h)
  BY <1>13 DEF Select, Record, Reselect, Goto
<1>14. CASE \E h \in Helpers : ExitSwitch(h) \/ KillSwitch(h)
  <2>1. CASE \E h \in Helpers : ExitSwitch(h)
    BY <2>1 DEF ExitSwitch, Goto, NoWork, WorkFields, runtimeFiles
  <2>2. CASE \E h \in Helpers : KillSwitch(h)
    BY <2>2 DEF KillSwitch, Goto, NoWork, WorkFields, runtimeFiles
  <2>3. QED
    BY <1>14, <2>1, <2>2
<1>15. CASE \E n \in Names : PlaceForeign(n)
  <2>1. PICK n \in Names : PlaceForeign(n)
    BY <1>15
  <2>2. UNCHANGED <<stage, commands, versions, current, installState, work>>
    BY <2>1 DEF PlaceForeign, commandVars
  <2>3. /\ shims' \in [Names -> {"absent", "ours", "foreign"}]
        /\ undisturbed' \in BOOLEAN
    BY <2>1 DEF PlaceForeign
  <2>4. QED
    BY <2>2, <2>3
<1>16. QED
  BY <1>1, <1>2, <1>3, <1>4, <1>5, <1>6, <1>7, <1>8, <1>9, <1>10, <1>11, <1>12, <1>13,
     <1>14, <1>15, <1>17, <1>18, <1>20 DEF Next, RuntimeNext

-----------------------------------------------------------------------------
(* Version directories and shims *)

\* Whatever step is taken, an installed version stays what it is.
LEMMA VersionsKept ==
  ASSUME TypeInv, [Next]_vars
  PROVE  \A v \in Versions : Installed(v) => versions'[v] = versions[v]
<1>1. CASE UNCHANGED vars
  BY <1>1 DEF vars, runtimeVars, runtimeFiles
<1>2. CASE \E h \in Helpers : Publish(h)
  BY <1>2 DEF Publish, Installed, TypeInv
<1>3. CASE UNCHANGED versions
  BY <1>3
<1>4. CASE RuntimeNext
  <2>1. CASE \/ \E h \in Helpers, b \in Bundles : BeginInstall(h, b)
             \/ \E h \in Helpers, v \in Versions \cup {NoVersion} : BeginRollback(h, v)
             \/ \E n \in Names : PlaceForeign(n)
    BY <2>1, <1>3, Zenon DEF BeginInstall, BeginRollback, StartSwitch, PlaceForeign, runtimeFiles
  <2>2. CASE \E h \in Helpers : LoadState(h) \/ ReadCurrent(h) \/ Preflight(h)
               \/ CheckDestination(h) \/ PublishFails(h) \/ ChooseTarget(h)
               \/ FindMissingShims(h)
    BY <2>2, <1>3, Zenon DEF LoadState, ReadCurrent, Preflight, CheckDestination,
       PublishFails, ChooseTarget, FindMissingShims, runtimeVars, runtimeFiles
  <2>3. CASE \E h \in Helpers, n \in Names :
               LinkShim(h, n) \/ CheckShim(h, n) \/ UnlinkShim(h, n) \/ UnlinkFails(h, n)
    BY <2>3, <1>3, Zenon DEF LinkShim, CheckShim, LookAt, UnlinkShim, UnlinkFails, runtimeFiles
  <2>4. CASE \E h \in Helpers : LinkFails(h) \/ Select(h) \/ SelectFails(h) \/ Record(h)
               \/ RecordFails(h) \/ Restore(h) \/ Reselect(h) \/ ReselectFails(h)
    BY <2>4, <1>3, Zenon DEF LinkFails, Select, SelectFails, Record, RecordFails, Restore,
       Reselect, ReselectFails, runtimeVars, runtimeFiles
  <2>5. CASE \E h \in Helpers : FinishCleanup(h) \/ ExitSwitch(h) \/ KillSwitch(h)
    BY <2>5, <1>3, Zenon DEF FinishCleanup, ExitSwitch, KillSwitch, runtimeVars, runtimeFiles
  <2>6. QED
    BY <1>4, <1>2, <2>1, <2>2, <2>3, <2>4, <2>5, Zenon DEF RuntimeNext
<1>5. CASE HookNext /\ UNCHANGED runtimeVars
  BY <1>5 DEF runtimeVars, runtimeFiles
<1>6. QED
  BY <1>1, <1>4, <1>5 DEF Next

\* What a command may be about to unlink, although it is no longer its link,
\* is what the user put there in between.
OvertakenInv ==
  \A h \in Helpers : \A n \in work[h].checked : shims[n] = "foreign" => n \in overtaken

LEMMA OvertakenInit == Init => OvertakenInv
  BY DEF Init, RuntimeInit, OvertakenInv, NoWork

\* The commands that neither link, look nor unlink leave the shims alone, and
\* the names that they are about to unlink.
LEMMA OthersLeaveShims ==
  ASSUME TypeInv, NEW h \in Helpers,
         \/ \E b \in Bundles : BeginInstall(h, b)
         \/ \E v \in Versions \cup {NoVersion} : BeginRollback(h, v)
         \/ LoadState(h) \/ ReadCurrent(h) \/ Preflight(h) \/ CheckDestination(h)
         \/ Publish(h) \/ PublishFails(h) \/ ChooseTarget(h) \/ FindMissingShims(h)
         \/ LinkFails(h) \/ Select(h) \/ SelectFails(h) \/ Record(h) \/ RecordFails(h)
         \/ Restore(h) \/ Reselect(h) \/ ReselectFails(h)
         \/ FinishCleanup(h) \/ ExitSwitch(h) \/ KillSwitch(h)
  PROVE  /\ UNCHANGED <<shims, overtaken>>
         /\ \A g \in Helpers : work'[g].checked \subseteq work[g].checked
<1> USE DEF TypeInv
<1>1. CASE \/ \E b \in Bundles : BeginInstall(h, b)
           \/ \E v \in Versions \cup {NoVersion} : BeginRollback(h, v)
  <2>1. ASSUME NEW first, NEW arguments, StartSwitch(h, first, arguments),
               arguments.checked = {}, DOMAIN arguments = WorkFields
        PROVE  /\ UNCHANGED <<shims, overtaken>>
               /\ \A g \in Helpers : work'[g].checked \subseteq work[g].checked
    <3>1. UNCHANGED <<shims, overtaken>> /\ work'[h].checked = {}
      BY <2>1 DEF StartSwitch, runtimeFiles, WorkFields
    <3>2. \A g \in Helpers \ {h} : work'[g] = work[g]
      BY <2>1 DEF StartSwitch
    <3>3. QED
      BY <3>1, <3>2
  <2>2. CASE \E b \in Bundles : BeginInstall(h, b)
    BY <2>1, <2>2 DEF BeginInstall, NoWork, WorkFields
  <2>3. CASE \E v \in Versions \cup {NoVersion} : BeginRollback(h, v)
    BY <2>1, <2>3 DEF BeginRollback, NoWork, WorkFields
  <2>4. QED
    BY <1>1, <2>2, <2>3
<1>2. CASE \/ LoadState(h) \/ ReadCurrent(h) \/ FindMissingShims(h) \/ ChooseTarget(h)
  BY <1>2 DEF LoadState, ReadCurrent, FindMissingShims, ChooseTarget, Update, WorkFields,
              runtimeFiles
<1>3. CASE \/ Preflight(h) \/ CheckDestination(h) \/ PublishFails(h) \/ LinkFails(h)
           \/ SelectFails(h) \/ RecordFails(h) \/ Restore(h) \/ FinishCleanup(h)
  BY <1>3 DEF Preflight, CheckDestination, PublishFails, LinkFails, SelectFails, RecordFails,
              Restore, FinishCleanup, runtimeVars, runtimeFiles
<1>4. CASE \/ Publish(h) \/ Select(h) \/ Record(h) \/ Reselect(h) \/ ReselectFails(h)
  BY <1>4 DEF Publish, Select, Record, Reselect, ReselectFails, runtimeFiles
<1>5. CASE ExitSwitch(h) \/ KillSwitch(h)
  BY <1>5 DEF ExitSwitch, KillSwitch, NoWork, runtimeFiles
<1>6. QED
  BY <1>1, <1>2, <1>3, <1>4, <1>5, Zenon

\* Whatever step is taken, a file of the user stays where it is, unless he put
\* it where a command was about to unlink.
LEMMA ForeignKept ==
  ASSUME TypeInv, OvertakenInv, [Next]_vars
  PROVE  /\ OvertakenInv'
         /\ \A n \in Names \ overtaken : shims[n] = "foreign" => shims'[n] = "foreign"
<1> DEFINE Kept == \A n \in Names \ overtaken : shims[n] = "foreign" => shims'[n] = "foreign"
<1>1. ASSUME UNCHANGED <<shims, overtaken>>,
             \A g \in Helpers : work'[g].checked \subseteq work[g].checked
      PROVE  OvertakenInv' /\ Kept
  BY <1>1 DEF OvertakenInv
<1>2. ASSUME NEW n \in Names, PlaceForeign(n) PROVE OvertakenInv' /\ Kept
  <2>1. /\ shims' = [shims EXCEPT ![n] = "foreign"] /\ UNCHANGED work
        /\ overtaken' = IF \E h \in Helpers : n \in work[h].checked
                        THEN overtaken \cup {n} ELSE overtaken \ {n}
    BY <1>2 DEF PlaceForeign
  <2>2. QED
    BY <2>1 DEF OvertakenInv, TypeInv
<1>3. ASSUME NEW h \in Helpers, NEW n \in Names, LinkShim(h, n) PROVE OvertakenInv' /\ Kept
  <2>1. /\ shims[n] = "absent" /\ shims' = [shims EXCEPT ![n] = "ours"] /\ UNCHANGED overtaken
        /\ \A g \in Helpers : work'[g].checked = work[g].checked
    BY <1>3 DEF LinkShim, TypeInv, WorkFields
  <2>2. QED
    BY <2>1 DEF OvertakenInv, TypeInv
<1>4. ASSUME NEW h \in Helpers, NEW n \in Names, CheckShim(h, n) PROVE OvertakenInv' /\ Kept
  <2>1. /\ UNCHANGED <<shims, overtaken>>
        /\ \A g \in Helpers \ {h} : work'[g].checked = work[g].checked
        /\ \/ work'[h].checked = work[h].checked
           \/ work'[h].checked = {n} /\ shims[n] = "ours"
    BY <1>4 DEF CheckShim, LookAt, TypeInv, WorkFields, runtimeFiles
  <2>2. QED
    BY <2>1 DEF OvertakenInv
<1>5. ASSUME NEW h \in Helpers, NEW n \in Names, UnlinkShim(h, n) PROVE OvertakenInv' /\ Kept
  <2>1. /\ shims' = [shims EXCEPT ![n] = "absent"] /\ UNCHANGED overtaken
        /\ shims[n] = "foreign" => n \in overtaken
        /\ work'[h].checked = {}
        /\ \A g \in Helpers \ {h} : work'[g].checked = work[g].checked
    BY <1>5 DEF UnlinkShim, OvertakenInv, TypeInv, WorkFields
  <2>2. QED
    BY <2>1 DEF OvertakenInv, TypeInv
<1>6. ASSUME NEW h \in Helpers, NEW n \in Names, UnlinkFails(h, n) PROVE OvertakenInv' /\ Kept
  <2>1. /\ UNCHANGED <<shims, overtaken>>
        /\ \A g \in Helpers : work'[g].checked \subseteq work[g].checked
    BY <1>6 DEF UnlinkFails, TypeInv, WorkFields, runtimeFiles
  <2>2. QED
    BY <1>1, <2>1
<1>7. CASE UNCHANGED vars \/ (HookNext /\ UNCHANGED runtimeVars)
  BY <1>1, <1>7 DEF vars, runtimeVars, runtimeFiles
<1>8. ASSUME RuntimeNext PROVE OvertakenInv' /\ Kept
  <2> DEFINE Other(h) ==
        \/ \E b \in Bundles : BeginInstall(h, b)
        \/ \E v \in Versions \cup {NoVersion} : BeginRollback(h, v)
        \/ LoadState(h) \/ ReadCurrent(h) \/ Preflight(h) \/ CheckDestination(h)
        \/ Publish(h) \/ PublishFails(h) \/ ChooseTarget(h) \/ FindMissingShims(h)
        \/ LinkFails(h) \/ Select(h) \/ SelectFails(h) \/ Record(h) \/ RecordFails(h)
        \/ Restore(h) \/ Reselect(h) \/ ReselectFails(h)
        \/ FinishCleanup(h) \/ ExitSwitch(h) \/ KillSwitch(h)
  <2>1. ASSUME NEW h \in Helpers, Other(h) PROVE OvertakenInv' /\ Kept
    <3>1. /\ UNCHANGED <<shims, overtaken>>
          /\ \A g \in Helpers : work'[g].checked \subseteq work[g].checked
      BY <2>1, OthersLeaveShims, Zenon
    <3> HIDE DEF Kept, Other
    <3>2. QED
      BY <1>1, <3>1
  <2>2. \/ \E h \in Helpers : Other(h)
        \/ \E h \in Helpers, n \in Names :
             LinkShim(h, n) \/ CheckShim(h, n) \/ UnlinkShim(h, n) \/ UnlinkFails(h, n)
        \/ \E n \in Names : PlaceForeign(n)
    BY <1>8, Zenon DEF RuntimeNext
  <2> HIDE DEF Kept, Other
  <2>3. ASSUME NEW h \in Helpers, NEW n \in Names,
               LinkShim(h, n) \/ CheckShim(h, n) \/ UnlinkShim(h, n) \/ UnlinkFails(h, n)
        PROVE  OvertakenInv' /\ Kept
    BY <1>3, <1>4, <1>5, <1>6, <2>3, Zenon
  <2>4. QED
    BY <1>2, <2>1, <2>2, <2>3, Zenon
<1>9. QED
  BY <1>7, <1>8 DEF Next

-----------------------------------------------------------------------------
(* The selector names a complete runtime *)

\* The stages at which the version of a command has been found in place.
InPlaceStage == {"rollback_preflight", "shims", "link", "record", "restore", "reselect",
                 "switched"}

\* A version directory came from a verified bundle that holds a runtime; the
\* selector, and what a command may yet select or go back to, are installed.
InstalledInv ==
  /\ \A v \in Versions : Installed(v) =>
       \E b \in Bundles : /\ Verified(b) /\ b.runnable
                          /\ b.version = v /\ versions[v] = b.digest
  /\ current \in Versions => Installed(current)
  /\ \A h \in Helpers :
       /\ work[h].previous \in Versions => Installed(work[h].previous)
       /\ stage[h] \in InPlaceStage =>
            work[h].version \in Versions /\ Installed(work[h].version)

LEMMA InstalledInit == Init => InstalledInv
  BY RuntimeAssumption
  DEF Init, CommandsInit, RuntimeInit, InstalledInv, NoWork, InPlaceStage, Installed, Verified

LEMMA InstalledStep == TypeInv /\ InstalledInv /\ [Next]_vars => InstalledInv'
<1> SUFFICES ASSUME TypeInv, InstalledInv, [Next]_vars PROVE InstalledInv'
  OBVIOUS
<1>0. \A v \in Versions : Installed(v) => versions'[v] = versions[v] /\ Installed(v)'
  BY VersionsKept DEF Installed
<1> USE DEF InstalledInv, InPlaceStage
<1>1. CASE UNCHANGED vars
  BY <1>1 DEF vars, commandVars, runtimeVars, runtimeFiles, Installed
<1>2. CASE HookNext /\ UNCHANGED runtimeVars
  BY <1>2, HookFrame
  DEF runtimeVars, runtimeFiles, Installed, SwitchStage, InstallStage, RollbackStage
<1>3. CASE \E h \in Helpers, b \in Bundles : BeginInstall(h, b)
  BY <1>3, RuntimeAssumption
  DEF BeginInstall, StartSwitch, StartCommand, NoWork, runtimeFiles, Installed, TypeInv
<1>4. CASE \E h \in Helpers, v \in Versions \cup {NoVersion} : BeginRollback(h, v)
  BY <1>4, RuntimeAssumption
  DEF BeginRollback, StartSwitch, StartCommand, NoWork, runtimeFiles, Installed, TypeInv
<1>5. CASE \E h \in Helpers : LoadState(h)
  BY <1>5 DEF LoadState, Update, Goto, runtimeFiles, Installed, TypeInv, WorkFields
<1>6. CASE \E h \in Helpers : ReadCurrent(h)
  BY <1>6 DEF ReadCurrent, Update, Goto, runtimeFiles, Installed, TypeInv, WorkFields
<1>7. CASE \E h \in Helpers : Preflight(h) \/ PublishFails(h)
  BY <1>7 DEF Preflight, PublishFails, Goto, runtimeVars, runtimeFiles, Installed, TypeInv
<1>8. CASE \E h \in Helpers : CheckDestination(h)
  <2>1. PICK h \in Helpers : CheckDestination(h)
    BY <1>8
  <2>2. work[h].version \in Versions /\ work[h].digest \in Digests
    BY <2>1 DEF CheckDestination, TypeInv, InstallStage
  <2>3. Installed(work[h].version) \/ stage'[h] \in {"publish", "switch_failed"}
    BY <2>1, <2>2, RuntimeAssumption DEF CheckDestination, Goto, TypeInv, Installed
  <2>4. \A g \in Helpers : g # h => stage'[g] = stage[g]
    BY <2>1 DEF CheckDestination, Goto, TypeInv
  <2>5. QED
    BY <2>1, <2>2, <2>3, <2>4 DEF CheckDestination, runtimeVars, runtimeFiles, Installed
<1>9. CASE \E h \in Helpers : Publish(h)
  <2>1. PICK h \in Helpers : Publish(h)
    BY <1>9
  <2>2. work[h].version \in Versions /\ work[h].digest \in Digests
    BY <2>1 DEF Publish, TypeInv, InstallStage
  <2>3. /\ versions'[work[h].version] = work[h].digest
        /\ \A v \in Versions : v # work[h].version => versions'[v] = versions[v]
    BY <2>1, <2>2 DEF Publish, TypeInv
  <2>4. Installed(work[h].version)'
    BY <2>1, <2>2, <2>3, RuntimeAssumption DEF Publish, Installed
  <2>5. \A v \in Versions : Installed(v)' =>
          \E b \in Bundles : /\ Verified(b) /\ b.runnable
                             /\ b.version = v /\ versions'[v] = b.digest
    BY <2>1, <2>3 DEF Publish, Installed
  <2>6. \A g \in Helpers : g # h => stage'[g] = stage[g]
    BY <2>1 DEF Publish, Goto, TypeInv
  <2>7. current' = current /\ work' = work
    BY <2>1 DEF Publish
  <2>8. QED
    BY <1>0, <2>2, <2>4, <2>5, <2>6, <2>7 DEF Verified
<1>10. CASE \E h \in Helpers : ChooseTarget(h)
  BY <1>10 DEF ChooseTarget, Goto, runtimeFiles, Installed, TypeInv, WorkFields
<1>11. CASE \E h \in Helpers : FindMissingShims(h)
  BY <1>11 DEF FindMissingShims, Update, Goto, runtimeFiles, Installed, TypeInv, WorkFields
<1>12. CASE \E h \in Helpers, n \in Names :
              LinkShim(h, n) \/ CheckShim(h, n) \/ UnlinkShim(h, n) \/ UnlinkFails(h, n)
  BY <1>12 DEF LinkShim, CheckShim, LookAt, UnlinkShim, UnlinkFails, runtimeFiles, Installed,
              TypeInv, WorkFields
<1>13. CASE \E h \in Helpers : LinkFails(h) \/ SelectFails(h) \/ RecordFails(h) \/ Restore(h)
                               \/ ReselectFails(h) \/ FinishCleanup(h)
  BY <1>13 DEF LinkFails, SelectFails, RecordFails, Restore, ReselectFails, FinishCleanup,
               Goto, runtimeVars, runtimeFiles, Installed, TypeInv
<1>14. CASE \E h \in Helpers : Select(h) \/ Record(h) \/ Reselect(h)
  BY <1>14 DEF Select, Record, Reselect, Goto, Installed, TypeInv
<1>15. CASE \E h \in Helpers : ExitSwitch(h) \/ KillSwitch(h)
  BY <1>15, RuntimeAssumption
  DEF ExitSwitch, KillSwitch, Goto, NoWork, runtimeFiles, Installed, TypeInv
<1>16. CASE \E n \in Names : PlaceForeign(n)
  BY <1>16 DEF PlaceForeign, commandVars, Installed
<1>17. QED
  BY <1>1, <1>2, <1>3, <1>4, <1>5, <1>6, <1>7, <1>8, <1>9, <1>10, <1>11, <1>12, <1>13,
     <1>14, <1>15, <1>16 DEF Next, RuntimeNext

-----------------------------------------------------------------------------
(* Switches that nothing disturbs *)

\* Between the selector and its record.
RecordStage == {"record", "restore", "reselect"}

\* The stages at which a command knows what was selected before it, and the
\* history.
PreviousStage == RecordStage \cup
  {"preflight", "destination", "publish", "choose_target", "rollback_preflight", "shims", "link"}

HistoryStage == (PreviousStage \ {"choose_target"}) \cup {"read_current"}

AllOurs == \A n \in Names : shims[n] = "ours"

\* found is what the shims were like when the command began.
Restorable(h, found) ==
  /\ work[h].found = <<installState.current, installState, found>>
  /\ \A n \in Names : IF n \in work[h].created
                      THEN found[n] = "absent" /\ shims[n] = "ours"
                      ELSE found[n] = shims[n]

\* What a command remembers of the files, and can therefore undo.
Remembers(h) ==
  /\ stage[h] \in PreviousStage => work[h].previous = installState.current
  /\ stage[h] \in HistoryStage => work[h].history = installState.history
  /\ stage[h] \in RecordStage \cup {"switched"} => current = work[h].version /\ AllOurs
  /\ stage[h] \notin RecordStage => current = installState.current
  /\ stage[h] = "link" => \A n \in Names \ work[h].missing : shims[n] = "ours"
  /\ stage[h] \notin RecordStage \cup {"link", "cleanup", "switched"} => work[h].created = {}
  /\ stage[h] # "switched" =>
       \E found \in [Names -> {"absent", "ours", "foreign"}] : Restorable(h, found)

\* Undisturbed, one command at most is at work, and it remembers; without one
\* selector and record agree.
SwitchInv ==
  undisturbed =>
    /\ \A g, h \in Helpers : stage[g] \in SwitchStage /\ stage[h] \in SwitchStage => g = h
    /\ (\A h \in Helpers : stage[h] \notin SwitchStage) => current = installState.current
    /\ \A h \in Helpers : stage[h] \in SwitchStage => Remembers(h)

LEMMA SwitchInit == Init => SwitchInv
  BY DEF Init, CommandsInit, RuntimeInit, SwitchInv, SwitchStage, InstallStage, RollbackStage

\* After a step of the only command at work, one looks at that command alone.
LEMMA OwnStep ==
  ASSUME TypeInv, SwitchInv, undisturbed, NEW h \in Helpers, stage[h] \in SwitchStage,
         \A g \in Helpers \ {h} : stage'[g] = stage[g],
         Remembers(h)', stage'[h] \in SwitchStage
  PROVE  SwitchInv'
<1>1. \A g \in Helpers \ {h} : stage'[g] \notin SwitchStage
  BY DEF SwitchInv
<1>2. QED
  BY <1>1 DEF SwitchInv

\* The first step of a command finds selector and record in agreement.
LEMMA StartStep ==
  ASSUME TypeInv, SwitchInv, NEW h \in Helpers, NEW first, NEW arguments,
         StartSwitch(h, first, arguments),
         \/ first = "load_state"
         \/ first = "choose_target" /\ arguments.previous = current,
         DOMAIN arguments = WorkFields, arguments.created = {}
  PROVE  SwitchInv'
<1> SUFFICES ASSUME undisturbed' PROVE SwitchInv'
  BY DEF SwitchInv
<1>1. undisturbed /\ Switching = {}
  BY DEF StartSwitch
<1>2. \A g \in Helpers : stage[g] \notin SwitchStage
  BY <1>1 DEF Switching
<1>3. current = installState.current
  BY <1>1, <1>2 DEF SwitchInv
<1>4. stage'[h] = first /\ \A g \in Helpers \ {h} : stage'[g] \notin SwitchStage
  BY <1>2 DEF StartSwitch, StartCommand, TypeInv
<1>5. UNCHANGED runtimeFiles
  BY DEF StartSwitch
<1>6. /\ work'[h].previous = arguments.previous
      /\ work'[h].created = {}
      /\ work'[h].found = <<current, installState, shims>>
  BY DEF StartSwitch, Found, TypeInv, WorkFields
<1>7. Restorable(h, shims)' /\ shims \in [Names -> {"absent", "ours", "foreign"}]
  BY <1>3, <1>5, <1>6 DEF Restorable, runtimeFiles, TypeInv
<1>8. Remembers(h)'
  BY <1>3, <1>4, <1>5, <1>6, <1>7 DEF Remembers, runtimeFiles, RecordStage, PreviousStage, HistoryStage
<1>9. stage'[h] \in SwitchStage
  BY <1>4 DEF SwitchStage, InstallStage, RollbackStage
<1>10. QED
  BY <1>4, <1>8, <1>9 DEF SwitchInv

\* A step of a command after its first leaves it with what it remembers.
LEMMA RememberStep ==
  ASSUME TypeInv, NEW h \in Helpers, stage[h] \in SwitchStage, undisturbed', Remembers(h),
         \/ LoadState(h) \/ ReadCurrent(h) \/ Preflight(h) \/ CheckDestination(h)
         \/ Publish(h) \/ PublishFails(h) \/ ChooseTarget(h) \/ FindMissingShims(h)
         \/ \E n \in Names :
              LinkShim(h, n) \/ CheckShim(h, n) \/ UnlinkShim(h, n) \/ UnlinkFails(h, n)
         \/ LinkFails(h) \/ Select(h) \/ SelectFails(h) \/ Record(h) \/ RecordFails(h)
         \/ Restore(h) \/ Reselect(h) \/ ReselectFails(h) \/ FinishCleanup(h)
  PROVE  Remembers(h)'
<1>0. /\ stage \in [Helpers -> Stages] /\ DOMAIN work = Helpers
      /\ DOMAIN work[h] = WorkFields /\ DOMAIN installState = {"current", "history"}
      /\ current \in Versions \cup {NoVersion}
      /\ shims \in [Names -> {"absent", "ours", "foreign"}]
      /\ work[h].created \subseteq Names /\ work[h].missing \subseteq Names
      /\ work[h].checked \subseteq work[h].created
  BY DEF TypeInv
<1> USE DEF Remembers, Restorable, AllOurs, RecordStage, PreviousStage, HistoryStage, Goto
<1>1. CASE LoadState(h)
  BY <1>0, <1>1 DEF LoadState, Update, runtimeFiles, WorkFields
<1>2. CASE ReadCurrent(h)
  BY <1>0, <1>2 DEF ReadCurrent, Update, runtimeFiles, WorkFields
<1>3. CASE Preflight(h)
  BY <1>0, <1>3 DEF Preflight, runtimeVars, runtimeFiles
<1>4. CASE CheckDestination(h)
  BY <1>0, <1>4 DEF CheckDestination, runtimeVars, runtimeFiles
<1>5. CASE Publish(h)
  BY <1>0, <1>5 DEF Publish
<1>6. CASE PublishFails(h)
  BY <1>0, <1>6 DEF PublishFails, runtimeVars, runtimeFiles
<1>7. CASE ChooseTarget(h)
  BY <1>0, <1>7 DEF ChooseTarget, runtimeFiles, WorkFields
<1>8. CASE FindMissingShims(h)
  BY <1>0, <1>8 DEF FindMissingShims, Update, ShimsFree, runtimeFiles, WorkFields
<1>9. CASE \E n \in Names : LinkShim(h, n)
  <2>1. PICK n \in Names : LinkShim(h, n)
    BY <1>9
  <2>2. /\ stage[h] = "link" /\ stage' = stage
        /\ UNCHANGED <<current, installState>>
        /\ work'[h].previous = work[h].previous
        /\ work'[h].history = work[h].history
        /\ work'[h].found = work[h].found
        /\ work'[h].created = work[h].created \cup {n}
        /\ work'[h].missing = work[h].missing \ {n}
    BY <1>0, <2>1 DEF LinkShim, WorkFields
  <2>3. /\ shims[n] = "absent" /\ shims'[n] = "ours"
        /\ \A m \in Names \ {n} : shims'[m] = shims[m]
    BY <1>0, <2>1 DEF LinkShim
  <2>4. \A m \in Names \ work'[h].missing : shims'[m] = "ours"
    BY <2>2, <2>3
  <2>5. PICK found \in [Names -> {"absent", "ours", "foreign"}] : Restorable(h, found)
    BY <2>2
  <2>6. Restorable(h, found)'
    BY <2>2, <2>3, <2>5
  <2>7. QED
    BY <2>2, <2>4, <2>5, <2>6
<1>20. CASE \E n \in Names : CheckShim(h, n)
  BY <1>0, <1>20 DEF CheckShim, LookAt, WorkFields, runtimeFiles
<1>10. CASE \E n \in Names : UnlinkShim(h, n)
  <2>1. PICK n \in Names : UnlinkShim(h, n)
    BY <1>10
  <2>2. /\ stage[h] = "cleanup" /\ stage' = stage
        /\ UNCHANGED <<current, installState>>
        /\ n \in work[h].created
        /\ work'[h].found = work[h].found
        /\ work'[h].created = work[h].created \ {n}
        /\ shims'[n] = "absent" /\ \A m \in Names \ {n} : shims'[m] = shims[m]
    BY <1>0, <2>1 DEF UnlinkShim, WorkFields
  <2>3. PICK found \in [Names -> {"absent", "ours", "foreign"}] : Restorable(h, found)
    BY <2>2
  <2>4. Restorable(h, found)'
    BY <2>2, <2>3
  <2>5. QED
    BY <2>2, <2>4
<1>11. CASE LinkFails(h) \/ SelectFails(h) \/ RecordFails(h)
  <2>1. CASE LinkFails(h)
    BY <1>0, <2>1 DEF LinkFails, runtimeVars, runtimeFiles
  <2>2. CASE SelectFails(h)
    BY <1>0, <2>2 DEF SelectFails, runtimeVars, runtimeFiles
  <2>3. CASE RecordFails(h)
    BY <1>0, <2>3 DEF RecordFails, runtimeVars, runtimeFiles
  <2>4. QED
    BY <1>11, <2>1, <2>2, <2>3
<1>12. CASE Select(h)
  BY <1>0, <1>12 DEF Select
<1>13. CASE Record(h)
  BY <1>0, <1>13 DEF Record
<1>14. CASE Restore(h)
  BY <1>0, <1>14 DEF Restore, runtimeVars, runtimeFiles
<1>15. CASE Reselect(h)
  BY <1>0, <1>15 DEF Reselect
<1>16. CASE FinishCleanup(h)
  BY <1>0, <1>16 DEF FinishCleanup, runtimeVars, runtimeFiles
<1>17. CASE ReselectFails(h) \/ \E n \in Names : UnlinkFails(h, n)
  BY <1>17 DEF ReselectFails, UnlinkFails
<1>18. QED
  BY <1>1, <1>2, <1>3, <1>4, <1>5, <1>6, <1>7, <1>8, <1>9, <1>10, <1>11, <1>12, <1>13,
     <1>14, <1>15, <1>16, <1>17, <1>20

LEMMA SwitchStep == TypeInv /\ SwitchInv /\ [Next]_vars => SwitchInv'
<1> SUFFICES ASSUME TypeInv, SwitchInv, [Next]_vars, undisturbed' PROVE SwitchInv'
  BY DEF SwitchInv
<1> USE DEF SwitchStage, InstallStage, RollbackStage
<1>0. /\ stage \in [Helpers -> Stages] /\ DOMAIN work = Helpers
      /\ \A h \in Helpers : DOMAIN work[h] = WorkFields
  BY DEF TypeInv
<1>1. CASE UNCHANGED vars
  BY <1>1 DEF vars, commandVars, runtimeVars, runtimeFiles, SwitchInv, Remembers,
              Restorable, AllOurs
<1>2. CASE HookNext /\ UNCHANGED runtimeVars
  <2>1. \A h \in Helpers : stage'[h] = stage[h] \/
          (stage[h] \notin SwitchStage /\ stage'[h] \notin SwitchStage)
    BY <1>2, HookFrame
  <2>2. \A h \in Helpers : stage'[h] = stage[h] /\ Remembers(h) => Remembers(h)'
    BY <1>2 DEF Remembers, Restorable, AllOurs, runtimeVars, runtimeFiles
  <2>3. QED
    BY <1>2, <2>1, <2>2 DEF SwitchInv, runtimeVars, runtimeFiles
<1>3. CASE \E h \in Helpers, b \in Bundles : BeginInstall(h, b)
  <2>1. PICK h \in Helpers, b \in Bundles : BeginInstall(h, b)
    BY <1>3
  <2> DEFINE arguments == [NoWork EXCEPT !.version = b.version, !.digest = b.digest]
  <2>2. DOMAIN arguments = WorkFields /\ arguments.created = {}
    BY DEF NoWork, WorkFields
  <2>3. StartSwitch(h, "load_state", arguments)
    BY <2>1 DEF BeginInstall
  <2> HIDE DEF arguments
  <2>4. QED
    BY <2>2, <2>3, StartStep
<1>4. CASE \E h \in Helpers, v \in Versions \cup {NoVersion} : BeginRollback(h, v)
  BY <1>4, StartStep DEF BeginRollback, NoWork, WorkFields
<1>9. CASE \E n \in Names : PlaceForeign(n)
  <2>1. undisturbed /\ \A g \in Helpers : stage[g] \notin SwitchStage
    BY <1>9 DEF PlaceForeign, Switching
  <2>2. UNCHANGED <<stage, current, installState>>
    BY <1>9 DEF PlaceForeign, commandVars
  <2>3. QED
    BY <2>1, <2>2 DEF SwitchInv
<1>5. CASE \E h \in Helpers : ExitSwitch(h) \/ KillSwitch(h)
  <2>1. PICK h \in Helpers : ExitSwitch(h) \/ KillSwitch(h)
    BY <1>5
  <2>2. /\ undisturbed
        /\ stage[h] \in SwitchStage \ RecordStage
        /\ UNCHANGED <<current, installState>>
    BY <2>1 DEF ExitSwitch, KillSwitch, RecordStage, runtimeFiles
  <2>3. current = installState.current /\ \A g \in Helpers \ {h} : stage[g] \notin SwitchStage
    BY <2>2 DEF SwitchInv, Remembers
  <2>4. \A g \in Helpers : stage'[g] \notin SwitchStage
    BY <1>0, <2>1, <2>3 DEF ExitSwitch, KillSwitch, Goto
  <2>5. QED
    BY <2>2, <2>3, <2>4 DEF SwitchInv
\* A step of a command after its first.
<1>6. ASSUME NEW h \in Helpers,
             \/ LoadState(h) \/ ReadCurrent(h) \/ Preflight(h) \/ CheckDestination(h)
             \/ Publish(h) \/ PublishFails(h) \/ ChooseTarget(h) \/ FindMissingShims(h)
             \/ \E n \in Names :
                  LinkShim(h, n) \/ CheckShim(h, n) \/ UnlinkShim(h, n) \/ UnlinkFails(h, n)
             \/ LinkFails(h) \/ Select(h) \/ SelectFails(h) \/ Record(h) \/ RecordFails(h)
             \/ Restore(h) \/ Reselect(h) \/ ReselectFails(h) \/ FinishCleanup(h)
      PROVE  SwitchInv'
  <2>1. /\ stage[h] \in SwitchStage /\ undisturbed
        /\ stage'[h] \in SwitchStage /\ \A g \in Helpers \ {h} : stage'[g] = stage[g]
    <3>1. CASE LoadState(h) \/ ReadCurrent(h) \/ Preflight(h) \/ CheckDestination(h)
               \/ Publish(h) \/ PublishFails(h)
      BY <1>0, <3>1 DEF LoadState, ReadCurrent, Preflight, CheckDestination, Publish,
                        PublishFails, Goto, runtimeVars
    <3>2. CASE \/ ChooseTarget(h) \/ FindMissingShims(h)
               \/ \E n \in Names :
                    LinkShim(h, n) \/ CheckShim(h, n) \/ UnlinkShim(h, n) \/ UnlinkFails(h, n)
      BY <1>0, <3>2 DEF ChooseTarget, FindMissingShims, LinkShim, CheckShim, LookAt,
                        UnlinkShim, UnlinkFails, Goto, runtimeVars
    <3>3. CASE LinkFails(h) \/ Select(h) \/ SelectFails(h) \/ Record(h) \/ RecordFails(h)
      BY <1>0, <3>3 DEF LinkFails, Select, SelectFails, Record, RecordFails, Goto, runtimeVars
    <3>4. CASE Restore(h) \/ Reselect(h) \/ ReselectFails(h) \/ FinishCleanup(h)
      BY <1>0, <3>4 DEF Restore, Reselect, ReselectFails, FinishCleanup, Goto, runtimeVars
    <3>5. QED
      BY <1>6, <3>1, <3>2, <3>3, <3>4, Zenon
  <2>2. Remembers(h)
    BY <2>1 DEF SwitchInv
  <2>3. Remembers(h)'
    BY <1>6, <2>1, <2>2, RememberStep, Zenon
  <2>4. QED
    BY <2>1, <2>3, OwnStep
<1>7. CASE RuntimeNext
  BY <1>3, <1>4, <1>5, <1>6, <1>7, <1>9, Zenon DEF RuntimeNext
<1>8. QED
  BY <1>1, <1>2, <1>7 DEF Next

\* Nothing but the record of a switch changes install-state.json.
LEMMA RecordOnly ==
  ASSUME [Next]_vars, installState' # installState
  PROVE  \E h \in Helpers : Record(h)
<1>1. UNCHANGED vars => UNCHANGED installState
  BY DEF vars, runtimeVars, runtimeFiles
<1>2. UNCHANGED runtimeVars => UNCHANGED installState
  BY DEF runtimeVars, runtimeFiles
<1>3. CASE \/ \E h \in Helpers, b \in Bundles : BeginInstall(h, b)
           \/ \E h \in Helpers, v \in Versions \cup {NoVersion} : BeginRollback(h, v)
           \/ \E n \in Names : PlaceForeign(n)
  BY <1>3, Zenon DEF BeginInstall, BeginRollback, StartSwitch, PlaceForeign, runtimeFiles
<1>4. CASE \E h \in Helpers : LoadState(h) \/ ReadCurrent(h) \/ Preflight(h)
             \/ CheckDestination(h) \/ Publish(h) \/ PublishFails(h) \/ ChooseTarget(h)
             \/ FindMissingShims(h)
  BY <1>4, Zenon DEF LoadState, ReadCurrent, Preflight, CheckDestination, Publish,
     PublishFails, ChooseTarget, FindMissingShims, runtimeVars, runtimeFiles
<1>5. CASE \E h \in Helpers, n \in Names :
             LinkShim(h, n) \/ CheckShim(h, n) \/ UnlinkShim(h, n) \/ UnlinkFails(h, n)
  BY <1>5, Zenon DEF LinkShim, CheckShim, LookAt, UnlinkShim, UnlinkFails, runtimeFiles
<1>6. CASE \E h \in Helpers : LinkFails(h) \/ Select(h) \/ SelectFails(h)
             \/ RecordFails(h) \/ Restore(h) \/ Reselect(h) \/ ReselectFails(h)
  BY <1>6, Zenon DEF LinkFails, Select, SelectFails, RecordFails, Restore, Reselect,
     ReselectFails, runtimeVars, runtimeFiles
<1>7. CASE \E h \in Helpers : FinishCleanup(h) \/ ExitSwitch(h) \/ KillSwitch(h)
  BY <1>7, Zenon DEF FinishCleanup, ExitSwitch, KillSwitch, runtimeVars, runtimeFiles
<1>8. RuntimeNext
  BY <1>1, <1>2 DEF Next
<1>9. QED
  BY <1>3, <1>4, <1>5, <1>6, <1>7, <1>8, Zenon DEF RuntimeNext

-----------------------------------------------------------------------------
(* What holds of the runtimes *)

IInv == TypeInv /\ InstalledInv /\ SwitchInv /\ OvertakenInv

\* The inductive invariant holds in every reachable state.
THEOREM Invariant == Spec => []IInv
<1>1. Init => IInv
  BY TypeInit, InstalledInit, SwitchInit, OvertakenInit DEF IInv
<1>2. IInv /\ [Next]_vars => IInv'
  BY TypeStep, InstalledStep, SwitchStep, ForeignKept DEF IInv
<1>3. QED
  BY <1>1, <1>2, PTL DEF Spec

\* Whatever is killed, fails or overlaps, the selector names a complete runtime
\* from a verified bundle.
THEOREM CurrentIsInstalled == Spec => []CurrentInstalled
<1>1. IInv => CurrentInstalled
  BY DEF IInv, TypeInv, InstalledInv, CurrentInstalled, Installed
<1>2. QED
  BY <1>1, Invariant, PTL

\* No command replaces an installed version directory.
THEOREM VersionsAreImmutable == Spec => VersionsImmutable
<1>1. IInv /\ [Next]_vars =>
        [\A v \in Versions : Installed(v) => versions'[v] = versions[v]]_vars
  BY VersionsKept DEF IInv
<1>2. QED
  BY <1>1, Invariant, PTL DEF Spec, VersionsImmutable

\* No command removes or replaces a file of the user under a command's name,
\* unless he put it there between the command's readlink and its unlink.
THEOREM ForeignShimsAreKept == Spec => ForeignShimsKept
<1>1. IInv /\ [Next]_vars =>
        [\A n \in Names \ overtaken : shims[n] = "foreign" => shims'[n] = "foreign"]_vars
  BY ForeignKept DEF IInv
<1>2. QED
  BY <1>1, Invariant, PTL DEF Spec, ForeignShimsKept

\* A switch that nothing disturbs does everything, or leaves everything as it
\* was found.
THEOREM SwitchesAreAllOrNothing == Spec => []SwitchAllOrNothing
<1> SUFFICES IInv => SwitchAllOrNothing
  BY Invariant, PTL
<1> SUFFICES ASSUME IInv, NEW h \in Helpers, undisturbed PROVE
      /\ stage[h] = "switch_failed" => Found = work[h].found
      /\ stage[h] = "switched" =>
           /\ current = work[h].version
           /\ installState.current = current
           /\ Diagnosis = (IF Wiring(hooks) = "ready" THEN "ready" ELSE "issues")
  BY DEF SwitchAllOrNothing
<1>1. stage[h] \in {"switch_failed", "switched"} => Remembers(h)
  BY DEF IInv, SwitchInv, SwitchStage
<1>2. ASSUME stage[h] = "switch_failed" PROVE Found = work[h].found
  <2>1. PICK found \in [Names -> {"absent", "ours", "foreign"}] : Restorable(h, found)
    BY <1>1, <1>2 DEF Remembers
  <2>2. work[h].created = {} /\ current = installState.current
    BY <1>1, <1>2 DEF Remembers, RecordStage
  <2>3. shims \in [Names -> {"absent", "ours", "foreign"}] /\ \A n \in Names : found[n] = shims[n]
    BY <2>1, <2>2 DEF Restorable, IInv, TypeInv
  <2>4. found = shims
    BY <2>3
  <2>5. QED
    BY <2>1, <2>2, <2>4 DEF Restorable, Found
<1>3. ASSUME stage[h] = "switched"
      PROVE  /\ current = work[h].version
             /\ installState.current = current
             /\ Diagnosis = (IF Wiring(hooks) = "ready" THEN "ready" ELSE "issues")
  <2>1. current = work[h].version /\ installState.current = current /\ AllOurs
    BY <1>1, <1>3 DEF Remembers, RecordStage
  <2>2. current \in Versions /\ Installed(current)
    BY <1>3, <2>1 DEF IInv, InstalledInv, InPlaceStage
  <2>3. RuntimeCode = "ready"
    BY <2>2, RuntimeAssumption DEF RuntimeCode
  <2>4. ShimCodes = {"ours"}
    BY <2>1, RuntimeAssumption DEF ShimCodes, AllOurs
  <2>5. QED
    BY <2>1, <2>3, <2>4 DEF Diagnosis
<1>4. QED
  BY <1>2, <1>3

\* Undisturbed, a record is exactly one switch from the version recorded before.
THEOREM SwitchesAreRecorded == Spec => SwitchRecorded
<1>1. ASSUME IInv, [Next]_vars, undisturbed', installState' # installState
      PROVE  \E v \in Versions : installState' = Switched(installState, v)
  <2>1. PICK h \in Helpers : Record(h)
    BY <1>1, RecordOnly
  <2>2. undisturbed /\ stage[h] = "record"
    BY <1>1, <2>1 DEF Record
  <2>3. Remembers(h) /\ work[h].version \in Versions
    BY <1>1, <2>2 DEF IInv, SwitchInv, InstalledInv, InPlaceStage, SwitchStage
  <2>4. work[h].previous = installState.current /\ work[h].history = installState.history
    BY <2>2, <2>3 DEF Remembers, RecordStage, PreviousStage, HistoryStage
  <2>5. installState' = Switched(installState, work[h].version)
    BY <2>1, <2>4 DEF Record, History, Switched
  <2>6. QED
    BY <2>3, <2>5
<1>2. IInv /\ [Next]_vars =>
        [undisturbed' /\ installState' # installState =>
           \E v \in Versions : installState' = Switched(installState, v)]_vars
  BY <1>1
<1>3. QED
  BY <1>2, Invariant, PTL DEF Spec, SwitchRecorded

-----------------------------------------------------------------------------
(* Merging *)

\* What is kept of a group, and of a sequence of groups.
ForeignAt(entries) == {j \in DOMAIN entries : entries[j] \notin RadarEntries}
KeptAt(groups) ==
  {i \in DOMAIN groups : Stripped(groups[i]).entries # <<>> \/ groups[i].extra}

\* A group without Radar's entries has the others, in their order.
LEMMA StrippedIs ==
  ASSUME NEW g \in Group
  PROVE  /\ Stripped(g) \in Group /\ Stripped(g).extra = g.extra
         /\ Stripped(g).entries = Picked(g.entries, ForeignAt(g.entries))
         /\ \A j \in DOMAIN Stripped(g).entries : Stripped(g).entries[j] \notin RadarEntries
<1> DEFINE es == g.entries
           own == Picked(es, ForeignAt(es))
<1>1. es \in Seq(Entries) /\ g.extra \in BOOLEAN /\ g = [entries |-> es, extra |-> g.extra]
  BY DEF Group
<1>2. Stripped(g) = [g EXCEPT !.entries = own]
  BY DEF Stripped, ForeignAt
<1>3. ForeignAt(es) \subseteq DOMAIN es
  BY DEF ForeignAt
<1> HIDE DEF es
<1>4. /\ own \in Seq(Entries)
      /\ DOMAIN own = 1 .. Cardinality(ForeignAt(es))
      /\ \A j \in 1 .. Cardinality(ForeignAt(es)) :
           Ascending(ForeignAt(es))[j] \in ForeignAt(es) /\ own[j] = es[Ascending(ForeignAt(es))[j]]
  BY <1>1, <1>3, PickedIsSequence
<1>5. \A j \in DOMAIN own : own[j] \notin RadarEntries
  BY <1>4 DEF ForeignAt
<1> HIDE DEF own
<1>6. Stripped(g) = [entries |-> own, extra |-> g.extra]
  BY <1>1, <1>2
<1>7. Stripped(g) \in Group /\ Stripped(g).extra = g.extra /\ Stripped(g).entries = own
  BY <1>1, <1>4, <1>6 DEF Group
<1>8. QED
  BY <1>5, <1>7 DEF own, es

\* Stripping a group without Radar's entries changes nothing.
LEMMA StrippedForeign ==
  ASSUME NEW g \in Group, \A j \in DOMAIN g.entries : g.entries[j] \notin RadarEntries
  PROVE  Stripped(g) = g
<1>1. g.entries \in Seq(Entries) /\ g.extra \in BOOLEAN
      /\ g = [entries |-> g.entries, extra |-> g.extra]
  BY DEF Group
<1>2. ForeignAt(g.entries) = DOMAIN g.entries
  BY DEF ForeignAt
<1>3. Picked(g.entries, ForeignAt(g.entries)) = g.entries
  BY <1>1, <1>2, PickedAll
<1>4. Stripped(g) = [g EXCEPT !.entries = g.entries]
  BY <1>3 DEF Stripped, ForeignAt
<1>5. QED
  BY <1>1, <1>4

\* Merging keeps the stripped groups that have something left, in their order.
LEMMA RetainedIs ==
  ASSUME NEW groups \in Seq(Group)
  PROVE  LET at == Ascending(KeptAt(groups))
             n == Cardinality(KeptAt(groups))
         IN  /\ KeptAt(groups) \subseteq Nat /\ IsFiniteSet(KeptAt(groups))
             /\ n \in Nat
             /\ Retained(groups) \in Seq(Group)
             /\ Len(Retained(groups)) = n /\ DOMAIN Retained(groups) = 1 .. n
             /\ \A i \in 1 .. n : /\ at[i] \in KeptAt(groups)
                                  /\ Retained(groups)[i] = Stripped(groups[at[i]])
<1> DEFINE stripped == [i \in DOMAIN groups |-> Stripped(groups[i])]
           kept == KeptAt(groups)
<1>1. Len(groups) \in Nat /\ DOMAIN groups = 1 .. Len(groups)
      /\ \A i \in DOMAIN groups : groups[i] \in Group
  OBVIOUS
<1>2. \A i \in DOMAIN groups : Stripped(groups[i]) \in Group
  BY <1>1, StrippedIs
<1>3. stripped \in Seq(Group) /\ DOMAIN stripped = DOMAIN groups
  BY <1>1, <1>2
<1>4. kept \subseteq DOMAIN stripped
  BY <1>3 DEF KeptAt
<1>5. Retained(groups) = Picked(stripped, kept)
  BY DEF Retained, KeptAt
<1>6. \A i \in kept : stripped[i] = Stripped(groups[i])
  BY <1>4
<1> HIDE DEF stripped, kept
<1>7. /\ kept \subseteq Nat /\ IsFiniteSet(kept)
      /\ Cardinality(kept) \in Nat
      /\ Picked(stripped, kept) \in Seq(Group)
      /\ Len(Picked(stripped, kept)) = Cardinality(kept)
      /\ DOMAIN Picked(stripped, kept) = 1 .. Cardinality(kept)
      /\ \A i \in 1 .. Cardinality(kept) :
           /\ Ascending(kept)[i] \in kept
           /\ Picked(stripped, kept)[i] = stripped[Ascending(kept)[i]]
  BY <1>3, <1>4, PickedIsSequence
<1>8. \A i \in 1 .. Cardinality(kept) :
        /\ Ascending(kept)[i] \in kept
        /\ Retained(groups)[i] = Stripped(groups[Ascending(kept)[i]])
  BY <1>5, <1>6, <1>7
<1>9. QED
  BY <1>5, <1>7, <1>8 DEF kept

\* Every group that is kept is stripped already, and has something left.
LEMMA RetainedIsStripped ==
  ASSUME NEW groups \in Seq(Group), NEW i \in DOMAIN Retained(groups)
  PROVE  /\ Retained(groups)[i] \in Group
         /\ \A j \in DOMAIN Retained(groups)[i].entries :
              Retained(groups)[i].entries[j] \notin RadarEntries
         /\ Stripped(Retained(groups)[i]) = Retained(groups)[i]
         /\ Retained(groups)[i].entries # <<>> \/ Retained(groups)[i].extra
<1>1. PICK p \in KeptAt(groups) : Retained(groups)[i] = Stripped(groups[p])
  BY RetainedIs
<1>2. p \in DOMAIN groups /\ groups[p] \in Group
  BY DEF KeptAt
<1>3. /\ Stripped(groups[p]) \in Group /\ Stripped(groups[p]).extra = groups[p].extra
      /\ \A j \in DOMAIN Stripped(groups[p]).entries :
           Stripped(groups[p]).entries[j] \notin RadarEntries
  BY <1>2, StrippedIs
<1>4. Stripped(Stripped(groups[p])) = Stripped(groups[p])
  BY <1>3, StrippedForeign
<1>5. Stripped(groups[p]).entries # <<>> \/ groups[p].extra
  BY DEF KeptAt
<1>6. Stripped(groups[p]).entries # <<>> \/ Stripped(groups[p]).extra
  BY <1>3, <1>5, Zenon
<1>7. QED
  BY <1>1, <1>3, <1>4, <1>6, Zenon

\* Radar's own group has nothing left.
LEMMA CanonicalIsDropped ==
  /\ Canonical \in Group
  /\ Stripped(Canonical).entries = <<>> /\ ~Canonical.extra
<1>1. Canonical \in Group
  BY DEF Canonical, Group, Entries, RadarEntries
<1>2. ForeignAt(Canonical.entries) = {}
  BY DEF ForeignAt, Canonical, RadarEntries
<1>3. Stripped(Canonical).entries = Picked(Canonical.entries, {})
  BY <1>1, <1>2, StrippedIs
<1>4. Picked(Canonical.entries, {}) = <<>>
  BY FS_EmptySet DEF Picked
<1>5. QED
  BY <1>1, <1>3, <1>4 DEF Canonical

\* Merging an event's groups a second time changes nothing.
LEMMA RetainedAgain ==
  ASSUME NEW groups \in Seq(Group)
  PROVE  Retained(Append(Retained(groups), Canonical)) = Retained(groups)
<1> DEFINE kept == Retained(groups)
           merged == Append(kept, Canonical)
           n == Len(kept)
           stripped == [i \in DOMAIN merged |-> Stripped(merged[i])]
<1>1. kept \in Seq(Group) /\ n \in Nat /\ DOMAIN kept = 1 .. n
  BY RetainedIs
<1>2. \A i \in 1 .. n : /\ Stripped(kept[i]) = kept[i]
                        /\ kept[i].entries # <<>> \/ kept[i].extra
  BY <1>1, RetainedIsStripped, Zenon
<1>3. /\ DOMAIN merged = 1 .. n + 1 /\ merged[n + 1] = Canonical
      /\ \A i \in 1 .. n : merged[i] = kept[i]
  BY <1>1, CanonicalIsDropped
<1>4. Retained(merged) = Picked(stripped, KeptAt(merged))
  BY DEF Retained, KeptAt
<1> HIDE DEF kept, merged, n
<1>5. KeptAt(merged) = 1 .. n
  <2>1. \A i \in 1 .. n : i \in KeptAt(merged)
    <3>1. \A i \in 1 .. n : i \in DOMAIN merged
      BY <1>1, <1>3
    <3>2. QED
      BY <1>2, <1>3, <3>1, Zenon DEF KeptAt
  <2>2. n + 1 \notin KeptAt(merged)
    BY <1>3, CanonicalIsDropped DEF KeptAt
  <2>3. KeptAt(merged) \subseteq 1 .. n + 1
    BY <1>3 DEF KeptAt
  <2>4. ASSUME NEW i \in KeptAt(merged) PROVE i \in 1 .. n
    <3>1. i \in 1 .. n + 1 /\ i # n + 1
      BY <2>2, <2>3
    <3>2. QED
      BY <1>1, <3>1
  <2>5. QED
    BY <2>1, <2>4, Zenon
<1>6. \A i \in 1 .. n : stripped[i] = kept[i]
  BY <1>1, <1>2, <1>3
<1> HIDE DEF stripped
<1>7. Picked(stripped, 1 .. n) = Picked(kept, 1 .. n)
  <2>1. 1 .. n \subseteq Nat /\ IsFiniteSet(1 .. n)
    BY <1>1, AscendingAll
  <2>2. QED
    BY <1>6, <2>1, PickedSame
<1>8. Picked(kept, 1 .. n) = kept
  BY <1>1, PickedAll
<1>9. Retained(merged) = kept
  BY <1>4, <1>5, <1>7, <1>8
<1>10. QED
  BY <1>9 DEF kept, merged

\* Merging gives a configuration, whose groups for an event are those retained
\* and Radar's own.
LEMMA MergeIsConfig ==
  ASSUME NEW config \in Config
  PROVE  /\ Merge(config) \in Config
         /\ \A e \in Events : Merge(config)[e] = Append(Retained(config[e]), Canonical)
<1>1. \A e \in Events : config[e] \in Seq(Group)
  BY DEF Config
<1>2. \A e \in Events : Append(Retained(config[e]), Canonical) \in Seq(Group)
  BY <1>1, RetainedIs, CanonicalIsDropped
<1>3. QED
  BY <1>2 DEF Merge, Config

\* Merging a merged configuration changes nothing.
LEMMA MergedTwice ==
  ASSUME NEW config \in Config
  PROVE  Merge(Merge(config)) = Merge(config)
<1>1. \A e \in Events : config[e] \in Seq(Group)
  BY DEF Config
<1>2. \A e \in Events : Retained(Merge(config)[e]) = Retained(config[e])
  BY <1>1, MergeIsConfig, RetainedAgain
<1>3. QED
  BY <1>2 DEF Merge

-----------------------------------------------------------------------------
(* Counting entries *)

\* Where the entries of some groups are.
Cells(groups) == UNION {{i} \X DOMAIN groups[i].entries : i \in DOMAIN groups}

\* A cell is the position of a group and that of an entry in it.
LEMMA CellsAre ==
  ASSUME NEW groups, NEW p
  PROVE  p \in Cells(groups) <=>
           \E i \in DOMAIN groups : \E j \in DOMAIN groups[i].entries : p = <<i, j>>
  BY DEF Cells

\* There are finitely many.
LEMMA CellsAreFinite ==
  ASSUME NEW groups \in Seq(Group)
  PROVE  IsFiniteSet(Cells(groups))
<1> DEFINE n == Len(groups)
           rows == {{i} \X DOMAIN groups[i].entries : i \in DOMAIN groups}
           row == [i \in 1 .. n |-> {i} \X DOMAIN groups[i].entries]
<1>1. n \in Nat /\ DOMAIN groups = 1 .. n /\ \A i \in 1 .. n : groups[i] \in Group
  OBVIOUS
<1>2. IsFiniteSet(1 .. n)
  BY <1>1, AscendingAll
<1>3. row \in Surjection(1 .. n, rows)
  BY <1>1 DEF Surjection
<1>4. IsFiniteSet(rows)
  BY <1>2, <1>3, FS_Surjection
<1>5. ASSUME NEW i \in DOMAIN groups PROVE IsFiniteSet({i} \X DOMAIN groups[i].entries)
  <2>1. groups[i].entries \in Seq(Entries)
    BY <1>1 DEF Group
  <2>2. Len(groups[i].entries) \in Nat /\ DOMAIN groups[i].entries = 1 .. Len(groups[i].entries)
    BY <2>1
  <2>3. IsFiniteSet(DOMAIN groups[i].entries)
    BY <2>2, AscendingAll
  <2>4. IsFiniteSet({i})
    BY FS_Singleton
  <2>5. QED
    BY <2>3, <2>4, FS_Product
<1>6. \A r \in rows : IsFiniteSet(r)
  BY <1>5
<1> HIDE DEF rows
<1>7. IsFiniteSet(UNION rows)
  BY <1>4, <1>6, FS_UNION
<1>8. QED
  BY <1>7 DEF Cells, rows

\* Merged groups have one entry of Radar's, the last.
LEMMA OneRadarEntry ==
  ASSUME NEW groups \in Seq(Group)
  PROVE  EventCheck(Append(Retained(groups), Canonical)) = "stable"
<1> DEFINE kept == Retained(groups)
           merged == Append(kept, Canonical)
           n == Len(kept)
<1>1. /\ n \in Nat /\ DOMAIN kept = 1 .. n
      /\ DOMAIN merged = 1 .. n + 1 /\ merged[n + 1] = Canonical
      /\ \A i \in 1 .. n : merged[i] = kept[i]
  BY RetainedIs, CanonicalIsDropped
<1>2. \A i \in 1 .. n : \A j \in DOMAIN kept[i].entries : kept[i].entries[j] \notin RadarEntries
  BY <1>1, RetainedIsStripped
<1>3. /\ DOMAIN Canonical.entries = {1} /\ Canonical.entries[1] = "stable"
      /\ "stable" \in RadarEntries
  BY DEF Canonical, RadarEntries
<1>4. \A p : p \in RadarAt(merged) <=>
               p \in Cells(merged) /\ merged[p[1]].entries[p[2]] \in RadarEntries
  BY DEF RadarAt, Cells
<1> HIDE DEF kept, merged, n
<1>5. ASSUME NEW p \in RadarAt(merged) PROVE p = <<n + 1, 1>>
  <2>0. PICK i \in DOMAIN merged : \E j \in DOMAIN merged[i].entries : p = <<i, j>>
    BY <1>4, CellsAre
  <2>1. PICK j \in DOMAIN merged[i].entries : p = <<i, j>>
    BY <2>0
  <2>2. merged[i].entries[j] \in RadarEntries
    BY <1>4, <2>1
  <2>3. i \notin 1 .. n
    BY <1>1, <1>2, <2>2
  <2>4. i = n + 1
    BY <1>1, <2>3
  <2>5. j = 1
    BY <1>1, <1>3, <2>4
  <2>6. QED
    BY <2>1, <2>4, <2>5
<1>6. <<n + 1, 1>> \in RadarAt(merged)
  <2>1. n + 1 \in DOMAIN merged /\ 1 \in DOMAIN merged[n + 1].entries
    BY <1>1, <1>3
  <2>2. <<n + 1, 1>> \in Cells(merged)
    BY <2>1, CellsAre
  <2>3. QED
    BY <1>1, <1>3, <1>4, <2>2
<1>7. RadarAt(merged) = {<<n + 1, 1>>}
  BY <1>5, <1>6
<1>8. Cardinality(RadarAt(merged)) = 1 /\ RadarAt(merged) # {}
  BY <1>7, FS_Singleton
<1>9. (CHOOSE p \in RadarAt(merged) : TRUE) = <<n + 1, 1>>
  BY <1>7
<1>10. ~(Cardinality(RadarAt(merged)) > 1)
  BY <1>8
<1>11. EventCheck(merged) = merged[<<n + 1, 1>>[1]].entries[<<n + 1, 1>>[2]]
  BY <1>8, <1>9, <1>10 DEF EventCheck
<1>12. EventCheck(merged) = "stable"
  BY <1>1, <1>3, <1>11
<1>13. QED
  BY <1>12 DEF merged, kept

\* The diagnosis finds a merged configuration ready.
LEMMA MergedIsReady ==
  ASSUME NEW config \in Config
  PROVE  Wiring(Merge(config)) = "ready"
<1>1. \A e \in Events : config[e] \in Seq(Group)
  BY DEF Config
<1>2. ASSUME NEW e \in Events PROVE EventCheck(Merge(config)[e]) = "stable"
  <2>1. Merge(config)[e] = Append(Retained(config[e]), Canonical)
    BY MergeIsConfig
  <2>2. EventCheck(Append(Retained(config[e]), Canonical)) = "stable"
    BY <1>1, OneRadarEntry
  <2>3. QED
    BY <2>1, <2>2
<1>3. {EventCheck(Merge(config)[e]) : e \in Events} = {"stable"}
  BY <1>2, HookAssumption
<1>4. Merge(config) # Missing /\ Merge(config) # Invalid
  BY MergeIsConfig, HookAssumption DEF Config
<1>5. Verdict({EventCheck(Merge(config)[e]) : e \in Events}) = "ready"
  BY <1>3 DEF Verdict
<1>6. QED
  BY <1>4, <1>5 DEF Wiring

\* Where a user's entry occurs.
UserAt(groups, u) == {p \in Cells(groups) : groups[p[1]].entries[p[2]] = u}

\* An entry of the user is in one cell of the groups.
LEMMA UserAtAre ==
  ASSUME NEW groups, NEW u, NEW p
  PROVE  p \in UserAt(groups, u) <=>
           \E i \in DOMAIN groups : \E j \in DOMAIN groups[i].entries :
             p = <<i, j>> /\ groups[i].entries[j] = u
  BY CellsAre DEF UserAt

\* Merging keeps every entry of the user: their places before and after it
\* correspond one to one.
LEMMA UserEntriesStay ==
  ASSUME NEW groups \in Seq(Group), NEW u \in UserEntries
  PROVE  Times(Append(Retained(groups), Canonical), u) = Times(groups, u)
<1> DEFINE kept == Retained(groups)
           merged == Append(kept, Canonical)
           n == Cardinality(KeptAt(groups))
           at == Ascending(KeptAt(groups))
           own(i) == ForeignAt(groups[i].entries)
           from == [p \in UserAt(merged, u) |-> <<at[p[1]], Ascending(own(at[p[1]]))[p[2]]>>]
<1>1. /\ n \in Nat /\ KeptAt(groups) \subseteq Nat /\ IsFiniteSet(KeptAt(groups))
      /\ kept \in Seq(Group) /\ Len(kept) = n
      /\ DOMAIN merged = 1 .. n + 1 /\ merged[n + 1] = Canonical
      /\ \A i \in 1 .. n : /\ at[i] \in KeptAt(groups)
                           /\ merged[i] = Stripped(groups[at[i]])
  BY RetainedIs, CanonicalIsDropped
<1>2. /\ \A i, k \in 1 .. n : at[i] = at[k] => i = k
      /\ \A i \in KeptAt(groups) : \E k \in 1 .. n : at[k] = i
  BY <1>1, AscendingLists
<1>3. u \notin RadarEntries /\ u # "stable"
  BY HookAssumption DEF RadarEntries
<1>4. ASSUME NEW i \in DOMAIN groups
      PROVE  /\ DOMAIN Stripped(groups[i]).entries = 1 .. Cardinality(own(i))
             /\ \A j \in 1 .. Cardinality(own(i)) :
                  /\ Ascending(own(i))[j] \in own(i)
                  /\ Stripped(groups[i]).entries[j] = groups[i].entries[Ascending(own(i))[j]]
             /\ \A j, k \in 1 .. Cardinality(own(i)) :
                  Ascending(own(i))[j] = Ascending(own(i))[k] => j = k
             /\ \A k \in own(i) : \E j \in 1 .. Cardinality(own(i)) : Ascending(own(i))[j] = k
  <2>0. groups[i] \in Group
    OBVIOUS
  <2>1. groups[i] \in Group /\ groups[i].entries \in Seq(Entries)
    BY <2>0 DEF Group
  <2>2. own(i) \subseteq DOMAIN groups[i].entries
    BY DEF ForeignAt
  <2>3. Stripped(groups[i]).entries = Picked(groups[i].entries, own(i))
    BY <2>1, StrippedIs
  <2> HIDE DEF own
  <2>4. /\ own(i) \subseteq Nat /\ IsFiniteSet(own(i))
        /\ DOMAIN Picked(groups[i].entries, own(i)) = 1 .. Cardinality(own(i))
        /\ \A j \in 1 .. Cardinality(own(i)) :
             /\ Ascending(own(i))[j] \in own(i)
             /\ Picked(groups[i].entries, own(i))[j] = groups[i].entries[Ascending(own(i))[j]]
    BY <2>1, <2>2, PickedIsSequence
  <2>5. /\ \A j, k \in 1 .. Cardinality(own(i)) :
             Ascending(own(i))[j] = Ascending(own(i))[k] => j = k
        /\ \A k \in own(i) : \E j \in 1 .. Cardinality(own(i)) : Ascending(own(i))[j] = k
    BY <2>4, AscendingLists
  <2>6. QED
    BY <2>3, <2>4, <2>5
<1>5. ASSUME NEW i \in DOMAIN groups, NEW j \in DOMAIN groups[i].entries,
             groups[i].entries[j] = u
      PROVE  i \in KeptAt(groups) /\ j \in own(i)
  <2>1. j \in own(i)
    BY <1>3, <1>5 DEF ForeignAt
  <2>2. DOMAIN Stripped(groups[i]).entries # {}
    <3> HIDE DEF own
    <3>1. PICK l \in 1 .. Cardinality(own(i)) : Ascending(own(i))[l] = j
      BY <1>4, <2>1
    <3>2. l \in DOMAIN Stripped(groups[i]).entries
      BY <1>4
    <3>3. QED
      BY <3>2
  <2>3. Stripped(groups[i]).entries # <<>>
    BY <2>2
  <2>4. QED
    BY <2>1, <2>3 DEF KeptAt
<1>6. \A i \in KeptAt(groups) : i \in DOMAIN groups
  BY DEF KeptAt
<1>7. \A i : \A j \in own(i) : j \in DOMAIN groups[i].entries
  BY DEF ForeignAt
<1> HIDE DEF kept, merged, n, at, own
\* an entry of the user in the merged groups is in one of the kept
<1>8. ASSUME NEW p \in UserAt(merged, u)
      PROVE  \E i \in 1 .. n : \E j \in 1 .. Cardinality(own(at[i])) :
               /\ p = <<i, j>> /\ at[i] \in DOMAIN groups
               /\ Ascending(own(at[i]))[j] \in own(at[i])
               /\ groups[at[i]].entries[Ascending(own(at[i]))[j]] = u
               /\ from[p] = <<at[i], Ascending(own(at[i]))[j]>>
  <2>0. PICK i \in DOMAIN merged : \E j \in DOMAIN merged[i].entries :
          p = <<i, j>> /\ merged[i].entries[j] = u
    BY UserAtAre
  <2>1. PICK j \in DOMAIN merged[i].entries : p = <<i, j>> /\ merged[i].entries[j] = u
    BY <2>0
  <2>2. i # n + 1
    BY <1>1, <1>3, <2>1 DEF Canonical
  <2>3. i \in 1 .. n
    BY <1>1, <2>2
  <2>4. at[i] \in DOMAIN groups /\ merged[i] = Stripped(groups[at[i]])
    BY <1>1, <1>6, <2>3
  <2>5. j \in 1 .. Cardinality(own(at[i]))
    BY <1>4, <2>1, <2>4, ZenonT(40)
  <2>6. /\ Ascending(own(at[i]))[j] \in own(at[i])
        /\ merged[i].entries[j] = groups[at[i]].entries[Ascending(own(at[i]))[j]]
    BY <1>4, <2>4, <2>5
  <2>7. p[1] = i /\ p[2] = j
    BY <2>1
  <2>8. QED
    BY <2>1, <2>3, <2>4, <2>5, <2>6, <2>7
<1>9. \A p \in UserAt(merged, u) : from[p] \in UserAt(groups, u)
  <2>1. SUFFICES ASSUME NEW p \in UserAt(merged, u) PROVE from[p] \in UserAt(groups, u)
    OBVIOUS
  <2> HIDE DEF from
  <2>2. \E i \in 1 .. n : \E j \in 1 .. Cardinality(own(at[i])) :
          /\ at[i] \in DOMAIN groups
          /\ Ascending(own(at[i]))[j] \in own(at[i])
          /\ groups[at[i]].entries[Ascending(own(at[i]))[j]] = u
          /\ from[p] = <<at[i], Ascending(own(at[i]))[j]>>
    BY <1>8
  <2>3. \E i \in DOMAIN groups : \E j \in DOMAIN groups[i].entries :
          from[p] = <<i, j>> /\ groups[i].entries[j] = u
    BY <1>7, <2>2, Zenon
  <2>4. QED
    BY <2>3, UserAtAre, Zenon
<1>10. \A p, q \in UserAt(merged, u) : from[p] = from[q] => p = q
  <2>1. SUFFICES ASSUME NEW p \in UserAt(merged, u), NEW q \in UserAt(merged, u),
                        from[p] = from[q]
                 PROVE  p = q
    OBVIOUS
  <2> HIDE DEF from
  <2>2a. PICK i \in 1 .. n : \E j \in 1 .. Cardinality(own(at[i])) :
          /\ p = <<i, j>> /\ at[i] \in DOMAIN groups
          /\ from[p] = <<at[i], Ascending(own(at[i]))[j]>>
    BY <1>8, Zenon
  <2>2. PICK j \in 1 .. Cardinality(own(at[i])) :
          /\ p = <<i, j>> /\ at[i] \in DOMAIN groups
          /\ from[p] = <<at[i], Ascending(own(at[i]))[j]>>
    BY <2>2a
  <2>3a. PICK k \in 1 .. n : \E l \in 1 .. Cardinality(own(at[k])) :
          /\ q = <<k, l>> /\ at[k] \in DOMAIN groups
          /\ from[q] = <<at[k], Ascending(own(at[k]))[l]>>
    BY <1>8, Zenon
  <2>3. PICK l \in 1 .. Cardinality(own(at[k])) :
          /\ q = <<k, l>> /\ at[k] \in DOMAIN groups
          /\ from[q] = <<at[k], Ascending(own(at[k]))[l]>>
    BY <2>3a
  <2>4. at[i] = at[k] /\ Ascending(own(at[i]))[j] = Ascending(own(at[k]))[l]
    BY <2>1, <2>2, <2>3
  <2>5. i = k
    BY <1>2, <2>4
  <2>6. j = l
    BY <1>4, <2>2, <2>3, <2>4, <2>5
  <2>7. QED
    BY <2>2, <2>3, <2>5, <2>6
<1>11. \A q \in UserAt(groups, u) : \E p \in UserAt(merged, u) : from[p] = q
  <2>1. SUFFICES ASSUME NEW q \in UserAt(groups, u)
                 PROVE  \E p \in UserAt(merged, u) : from[p] = q
    OBVIOUS
  <2>0. PICK i \in DOMAIN groups : \E j \in DOMAIN groups[i].entries :
          q = <<i, j>> /\ groups[i].entries[j] = u
    BY UserAtAre
  <2>2. PICK j \in DOMAIN groups[i].entries : q = <<i, j>> /\ groups[i].entries[j] = u
    BY <2>0
  <2>3. i \in KeptAt(groups) /\ j \in own(i)
    BY <1>5, <2>2
  <2>4. PICK k \in 1 .. n : at[k] = i
    BY <1>2, <2>3
  <2>5. PICK l \in 1 .. Cardinality(own(i)) : Ascending(own(i))[l] = j
    BY <1>4, <2>3
  <2>6. /\ merged[k] = Stripped(groups[i])
        /\ l \in DOMAIN merged[k].entries /\ merged[k].entries[l] = u
    <3>1. merged[k] = Stripped(groups[i])
      BY <1>1, <2>4
    <3>2. l \in DOMAIN Stripped(groups[i]).entries
      BY <1>4
    <3>3. Stripped(groups[i]).entries[l] = groups[i].entries[Ascending(own(i))[l]]
      BY <1>4
    <3>4. Stripped(groups[i]).entries[l] = u
      BY <2>2, <2>5, <3>3, Zenon
    <3>5. QED
      BY <3>1, <3>2, <3>4, Zenon
  <2>7. k \in DOMAIN merged
    BY <1>1
  <2>8. <<k, l>> \in UserAt(merged, u)
    BY <2>6, <2>7, UserAtAre
  <2>9. from[<<k, l>>] = <<at[k], Ascending(own(at[k]))[l]>>
    BY <2>8
  <2>10. QED
    BY <2>2, <2>4, <2>5, <2>8, <2>9
<1>12. from \in Bijection(UserAt(merged, u), UserAt(groups, u))
  <2>1. from \in [UserAt(merged, u) -> UserAt(groups, u)]
    BY <1>9
  <2> HIDE DEF from
  <2>2. QED
    BY <1>10, <1>11, <2>1 DEF Bijection, Injection, Surjection, IsInjective
<1>13. IsFiniteSet(UserAt(merged, u))
  <2>1. merged \in Seq(Group)
    BY <1>1, CanonicalIsDropped DEF merged
  <2>2. IsFiniteSet(Cells(merged))
    BY <2>1, CellsAreFinite
  <2>3. QED
    BY <2>2, FS_Subset DEF UserAt
<1>14. Cardinality(UserAt(groups, u)) = Cardinality(UserAt(merged, u))
  BY <1>12, <1>13, FS_Bijection DEF ExistsBijection
<1>15. QED
  BY <1>14 DEF Times, UserAt, Cells, merged, kept

\* The groups with further fields.
ExtraAt(groups) == {i \in DOMAIN groups : groups[i].extra}

\* Merging keeps every group with further fields.
LEMMA ExtrasStay ==
  ASSUME NEW groups \in Seq(Group)
  PROVE  Cardinality(ExtraAt(Append(Retained(groups), Canonical))) = Cardinality(ExtraAt(groups))
<1> DEFINE kept == Retained(groups)
           merged == Append(kept, Canonical)
           n == Cardinality(KeptAt(groups))
           at == Ascending(KeptAt(groups))
           from == [i \in ExtraAt(merged) |-> at[i]]
<1>1. /\ n \in Nat /\ KeptAt(groups) \subseteq Nat /\ IsFiniteSet(KeptAt(groups))
      /\ kept \in Seq(Group) /\ Len(kept) = n
      /\ DOMAIN merged = 1 .. n + 1 /\ merged[n + 1] = Canonical
      /\ \A i \in 1 .. n : /\ at[i] \in KeptAt(groups)
                           /\ merged[i] = Stripped(groups[at[i]])
  BY RetainedIs, CanonicalIsDropped
<1>2. /\ \A i, k \in 1 .. n : at[i] = at[k] => i = k
      /\ \A i \in KeptAt(groups) : \E k \in 1 .. n : at[k] = i
  BY <1>1, AscendingLists
<1>3. \A i \in DOMAIN groups : groups[i] \in Group
  OBVIOUS
<1>4. \A i \in DOMAIN groups : Stripped(groups[i]).extra = groups[i].extra
  BY <1>3, StrippedIs
<1>5. ~Canonical.extra
  BY CanonicalIsDropped
<1>6. \A i \in ExtraAt(groups) : i \in KeptAt(groups)
  BY DEF ExtraAt, KeptAt
<1>7. \A i \in KeptAt(groups) : i \in DOMAIN groups
  BY DEF KeptAt
<1> HIDE DEF kept, merged, n, at
<1>8. ASSUME NEW i \in ExtraAt(merged) PROVE i \in 1 .. n /\ at[i] \in ExtraAt(groups)
  <2>1. i \in DOMAIN merged /\ merged[i].extra
    BY DEF ExtraAt
  <2>2. i # n + 1
    BY <1>1, <1>5, <2>1
  <2>3. i \in 1 .. n
    BY <1>1, <2>1, <2>2
  <2>4. at[i] \in DOMAIN groups /\ merged[i] = Stripped(groups[at[i]])
    BY <1>1, <1>7, <2>3
  <2>5. groups[at[i]].extra
    BY <1>4, <2>1, <2>4, Zenon
  <2>6. QED
    BY <2>3, <2>4, <2>5 DEF ExtraAt
<1>9. ASSUME NEW i \in ExtraAt(groups) PROVE \E k \in ExtraAt(merged) : at[k] = i
  <2>1. PICK k \in 1 .. n : at[k] = i
    BY <1>2, <1>6
  <2>2. i \in DOMAIN groups /\ groups[i].extra
    BY DEF ExtraAt
  <2>3. k \in DOMAIN merged /\ merged[k] = Stripped(groups[i])
    BY <1>1, <2>1
  <2>4. merged[k].extra
    BY <1>4, <2>2, <2>3, Zenon
  <2>5. QED
    BY <2>1, <2>3, <2>4 DEF ExtraAt
<1>10. from \in Bijection(ExtraAt(merged), ExtraAt(groups))
  <2>1. from \in [ExtraAt(merged) -> ExtraAt(groups)]
    BY <1>8
  <2>2. \A i, k \in ExtraAt(merged) : from[i] = from[k] => i = k
    BY <1>2, <1>8
  <2>3. \A i \in ExtraAt(groups) : \E k \in ExtraAt(merged) : from[k] = i
    BY <1>9
  <2> HIDE DEF from
  <2>4. QED
    BY <2>1, <2>2, <2>3 DEF Bijection, Injection, Surjection, IsInjective
<1>11. IsFiniteSet(ExtraAt(merged))
  <2>1. IsFiniteSet(1 .. n + 1)
    BY <1>1, FS_Interval
  <2>2. ExtraAt(merged) \in SUBSET (1 .. n + 1)
    BY <1>1 DEF ExtraAt
  <2>3. QED
    BY <2>1, <2>2, FS_Subset
<1>12. Cardinality(ExtraAt(groups)) = Cardinality(ExtraAt(merged))
  BY <1>10, <1>11, FS_Bijection DEF ExistsBijection
<1>13. QED
  BY <1>12 DEF merged, kept

\* For every configuration, merging makes the wiring ready, keeps every entry of
\* the user as often as it was and every group with further fields, and changes
\* nothing when it is repeated.
THEOREM MergingIsRight ==
  ASSUME NEW config \in Config
  PROVE  MergedRight(config)
<1>1. Wiring(Merge(config)) = "ready" /\ Merge(Merge(config)) = Merge(config)
  BY MergedIsReady, MergedTwice
<1>2. ASSUME NEW e \in Events
      PROVE  /\ \A u \in UserEntries : Times(Merge(config)[e], u) = Times(config[e], u)
             /\ Cardinality({i \in DOMAIN Merge(config)[e] : Merge(config)[e][i].extra})
                  = Cardinality({i \in DOMAIN config[e] : config[e][i].extra})
  <2>1. config[e] \in Seq(Group)
    BY DEF Config
  <2>2. Merge(config)[e] = Append(Retained(config[e]), Canonical)
    BY MergeIsConfig
  <2>3. \A u \in UserEntries : Times(Merge(config)[e], u) = Times(config[e], u)
    BY <2>1, <2>2, UserEntriesStay
  <2>4. Cardinality(ExtraAt(Merge(config)[e])) = Cardinality(ExtraAt(config[e]))
    BY <2>1, <2>2, ExtrasStay
  <2>5. QED
    BY <2>3, <2>4 DEF ExtraAt
<1>3. QED
  BY <1>1, <1>2, Zenon DEF MergedRight

\* What a command has read is a configuration, when it is not invalid.
LEMMA ParsedIsConfig ==
  /\ \A text \in Config \cup {Missing} : Parsed(text) \in Config
  /\ Contents \cup Samples \subseteq Config
<1>1. Empty \in Config
  BY DEF Empty, Config
<1>2. QED
  BY <1>1, HookAssumption DEF Parsed, Config

-----------------------------------------------------------------------------
(* Types.  TypeOK is inductive as it stands. *)

\* Every host that earlier commands may have left is well-typed.
LEMMA TypeOKInit == Init => TypeOK
<1> SUFFICES ASSUME Init PROVE TypeOK
  OBVIOUS
<1>1. PICK host \in Hosts :
        /\ versions = host.versions
        /\ current = host.state.current
        /\ installState = [current |-> host.state.current, history |-> host.state.history]
        /\ shims \in ShimTable
  BY DEF Init, RuntimeInit, ShimTable
<1>2. versions \in [Versions -> Digests \cup {NoDigest}] /\ current \in Versions \cup {NoVersion}
      /\ installState \in InstallStates
  BY <1>1, RuntimeAssumption DEF InstallStates
<1>3. NoWork \in SwitchWork
  <2>1. <<>> \in FoundBefore
    BY DEF FoundBefore
  <2>2. <<>> \in Seq(Versions)
    OBVIOUS
  <2>3. QED
    BY <2>1, <2>2 DEF NoWork, SwitchWork
<1>4. NoPlan \in Plans
  BY CommandsAssumption DEF NoPlan, Plans
<1>5. hooks \in Config \cup {Missing, Invalid} /\ user = hooks
  BY HookAssumption DEF Init, HookInit, Config
<1>6. stage = [h \in Helpers |-> "idle"] /\ commands = 0 /\ MaxCommands \in Nat
  BY CommandsAssumption DEF Init, CommandsInit
<1>7. /\ work = [h \in Helpers |-> NoWork] /\ undisturbed \in BOOLEAN /\ overtaken = {}
      /\ plan = [h \in Helpers |-> NoPlan] /\ backups = {}
      /\ edits = 0 /\ raced \in BOOLEAN /\ MaxEdits \in Nat
  BY HookAssumption DEF Init, RuntimeInit, HookInit
<1>8. QED
  BY <1>1, <1>2, <1>3, <1>4, <1>5, <1>6, <1>7 DEF TypeOK

\* A history without a version is a history.
LEMMA WithoutIsHistory ==
  ASSUME NEW history \in Seq(Versions), NEW v
  PROVE  Without(history, v) \in Seq(Versions)
  BY PickedIsSequence DEF Without

\* The local variables of a command, with some of them set anew.
LEMMA FieldsKeepTypes ==
  ASSUME NEW w \in SwitchWork
  PROVE  /\ \A v \in Versions \cup {NoVersion} : [w EXCEPT !.previous = v] \in SwitchWork
         /\ \A s \in Seq(Versions) : [w EXCEPT !.history = s] \in SwitchWork
         /\ \A v \in Versions, s \in Seq(Versions) :
              [w EXCEPT !.version = v, !.history = s] \in SwitchWork
         /\ \A m \in SUBSET Names : [w EXCEPT !.missing = m] \in SwitchWork
         /\ \A c \in SUBSET Names : [w EXCEPT !.created = c] \in SwitchWork
         /\ \A k \in SUBSET Names : [w EXCEPT !.checked = k] \in SwitchWork
         /\ \A c, k \in SUBSET Names : [w EXCEPT !.created = c, !.checked = k] \in SwitchWork
         /\ \A m, c \in SUBSET Names : [w EXCEPT !.missing = m, !.created = c] \in SwitchWork
<1>1. \A v \in Versions \cup {NoVersion} : [w EXCEPT !.previous = v] \in SwitchWork
  BY DEF SwitchWork
<1>2. \A s \in Seq(Versions) : [w EXCEPT !.history = s] \in SwitchWork
  BY DEF SwitchWork
<1>3. \A v \in Versions, s \in Seq(Versions) :
        [w EXCEPT !.version = v, !.history = s] \in SwitchWork
  BY DEF SwitchWork
<1>4. /\ \A m \in SUBSET Names : [w EXCEPT !.missing = m] \in SwitchWork
      /\ \A c \in SUBSET Names : [w EXCEPT !.created = c] \in SwitchWork
      /\ \A k \in SUBSET Names : [w EXCEPT !.checked = k] \in SwitchWork
  BY DEF SwitchWork
<1>5. /\ \A m, c \in SUBSET Names : [w EXCEPT !.missing = m, !.created = c] \in SwitchWork
      /\ \A c, k \in SUBSET Names : [w EXCEPT !.created = c, !.checked = k] \in SwitchWork
  BY DEF SwitchWork
<1>6. QED
  BY <1>1, <1>2, <1>3, <1>4, <1>5

\* Only the user's files are ever overtaken.
LEMMA OvertakenKeepsType ==
  ASSUME overtaken \subseteq Names, RuntimeNext
  PROVE  overtaken' \subseteq Names
<1>1. CASE \E n \in Names : PlaceForeign(n)
  BY <1>1 DEF PlaceForeign
<1>2. CASE \/ \E h \in Helpers, b \in Bundles : BeginInstall(h, b)
           \/ \E h \in Helpers, v \in Versions \cup {NoVersion} : BeginRollback(h, v)
           \/ \E h \in Helpers : ExitSwitch(h) \/ KillSwitch(h) \/ ReselectFails(h)
  BY <1>2, Zenon DEF BeginInstall, BeginRollback, StartSwitch, ExitSwitch, KillSwitch,
     ReselectFails
<1>3. CASE \E h \in Helpers : LoadState(h) \/ ReadCurrent(h) \/ Preflight(h)
             \/ CheckDestination(h) \/ Publish(h) \/ PublishFails(h) \/ ChooseTarget(h)
             \/ FindMissingShims(h)
  BY <1>3, Zenon DEF LoadState, ReadCurrent, Preflight, CheckDestination, Publish,
     PublishFails, ChooseTarget, FindMissingShims, runtimeVars
<1>4. CASE \E h \in Helpers, n \in Names :
             LinkShim(h, n) \/ CheckShim(h, n) \/ UnlinkShim(h, n) \/ UnlinkFails(h, n)
  BY <1>4, Zenon DEF LinkShim, CheckShim, LookAt, UnlinkShim, UnlinkFails
<1>5. CASE \E h \in Helpers : LinkFails(h) \/ Select(h) \/ SelectFails(h) \/ Record(h)
             \/ RecordFails(h) \/ Restore(h) \/ Reselect(h) \/ FinishCleanup(h)
  BY <1>5, Zenon DEF LinkFails, Select, SelectFails, Record, RecordFails, Restore, Reselect,
     FinishCleanup, runtimeVars
<1>6. QED
  BY <1>1, <1>2, <1>3, <1>4, <1>5, Zenon DEF RuntimeNext

\* The commands that switch keep the types; a history is never anything but a
\* sequence of versions, because what it is picked from is one.
LEMMA RuntimeKeepsTypes ==
  ASSUME TypeOK, RuntimeNext, UNCHANGED hookVars
  PROVE  TypeOK'
<1> USE DEF TypeOK
<1>0. /\ \A h \in Helpers : work[h] \in SwitchWork
      /\ UNCHANGED <<hooks, backups, plan, user, edits, raced>>
      /\ overtaken' \subseteq Names
  BY OvertakenKeepsType DEF hookVars
<1>a. ASSUME NEW h \in Helpers, NEW next \in SwitchStage \cup ApplyStage \cup {"idle"}, Goto(h, next)
      PROVE  /\ stage' \in [Helpers -> SwitchStage \cup ApplyStage \cup {"idle"}]
             /\ commands' \in 0 .. MaxCommands
  BY <1>a DEF Goto
<1>b. {"idle", "preflight", "read_current", "destination", "publish", "shims", "link", "record",
       "restore", "reselect", "cleanup", "switched", "switch_failed", "load_state",
       "choose_target", "rollback_preflight"} \subseteq SwitchStage \cup {"idle"}
  BY DEF SwitchStage, InstallStage, RollbackStage
<1>c. NoWork \in SwitchWork
  <2>1. <<>> \in FoundBefore
    BY DEF FoundBefore
  <2>2. <<>> \in Seq(Versions)
    OBVIOUS
  <2>3. QED
    BY <2>1, <2>2 DEF NoWork, SwitchWork
<1>d. ASSUME NEW h \in Helpers, NEW first \in SwitchStage, NEW arguments \in SwitchWork,
             StartSwitch(h, first, arguments)
      PROVE  TypeOK'
  <2>1. /\ stage' = [stage EXCEPT ![h] = first]
        /\ commands' = commands + 1 /\ commands < MaxCommands
        /\ undisturbed' \in BOOLEAN
        /\ work' = [work EXCEPT ![h] = [arguments EXCEPT !.found = Found]]
        /\ UNCHANGED <<versions, current, installState, shims>>
    BY <1>d DEF StartSwitch, StartCommand, runtimeFiles
  <2>2. Found \in FoundBefore
    BY DEF Found, FoundBefore
  <2>3. [arguments EXCEPT !.found = Found] \in SwitchWork
    <3> HIDE DEF TypeOK
    <3>1. QED
      BY <2>2 DEF SwitchWork
  <2>4. stage' \in [Helpers -> SwitchStage \cup ApplyStage \cup {"idle"}]
    BY <2>1
  <2>5. commands' \in 0 .. MaxCommands
    BY <2>1, CommandsAssumption
  <2>6. QED
    BY <1>0, <2>1, <2>3, <2>4, <2>5
<1>1. CASE \E h \in Helpers : \E b \in Bundles : BeginInstall(h, b)
  <2>1. PICK h \in Helpers, b \in Bundles : BeginInstall(h, b)
    BY <1>1
  <2>2. b.version \in Versions /\ b.digest \in Digests
    BY RuntimeAssumption
  <2>3. [NoWork EXCEPT !.version = b.version, !.digest = b.digest] \in SwitchWork
    BY <1>c, <2>2 DEF SwitchWork
  <2>4. "load_state" \in SwitchStage
    BY DEF SwitchStage, InstallStage
  <2>5. QED
    BY <1>d, <2>1, <2>3, <2>4 DEF BeginInstall
<1>2. CASE \E h \in Helpers : \E v \in Versions \cup {NoVersion} : BeginRollback(h, v)
  <2>1. PICK h \in Helpers, v \in Versions \cup {NoVersion} : BeginRollback(h, v)
    BY <1>2
  <2>2. [NoWork EXCEPT !.version = v, !.previous = current] \in SwitchWork
    BY <1>c DEF SwitchWork
  <2>3. "choose_target" \in SwitchStage
    BY DEF SwitchStage, RollbackStage
  <2>4. QED
    BY <1>d, <2>1, <2>2, <2>3 DEF BeginRollback
<1>3. CASE \E h \in Helpers : LoadState(h) \/ ReadCurrent(h) \/ FindMissingShims(h)
  <2>1. PICK h \in Helpers : LoadState(h) \/ ReadCurrent(h) \/ FindMissingShims(h)
    BY <1>3
  <2>2. /\ \E next \in SwitchStage : Goto(h, next)
        /\ UNCHANGED <<versions, current, installState, shims, undisturbed>>
    BY <2>1, <1>b DEF LoadState, ReadCurrent, FindMissingShims, runtimeFiles
  <2>3. \/ UNCHANGED work
        \/ work' = [work EXCEPT ![h].history = installState.history]
        \/ work' = [work EXCEPT ![h].previous = current]
        \/ work' = [work EXCEPT ![h].missing = {n \in Names : shims[n] = "absent"}]
    BY <2>1 DEF LoadState, ReadCurrent, FindMissingShims, Update
  <2>4. installState.history \in Seq(Versions)
    BY DEF InstallStates
  <2>5. \E w \in SwitchWork : work' = [work EXCEPT ![h] = w]
    <3>1. {n \in Names : shims[n] = "absent"} \in SUBSET Names
      OBVIOUS
    <3>2. CASE UNCHANGED work
      BY <1>0, <3>2
    <3>3. CASE work' = [work EXCEPT ![h].history = installState.history]
      BY <1>0, <2>4, <3>3, FieldsKeepTypes
    <3>4. CASE work' = [work EXCEPT ![h].previous = current]
      BY <1>0, <3>4, FieldsKeepTypes
    <3>5. CASE work' = [work EXCEPT ![h].missing = {n \in Names : shims[n] = "absent"}]
      BY <1>0, <3>1, <3>5, FieldsKeepTypes
    <3>6. QED
      BY <2>3, <3>2, <3>3, <3>4, <3>5
  <2>7. work' \in [Helpers -> SwitchWork]
    BY <2>5
  <2>6. QED
    BY <1>0, <1>a, <2>2, <2>7
<1>4. CASE \E h \in Helpers : \/ Preflight(h) \/ CheckDestination(h) \/ PublishFails(h)
                              \/ LinkFails(h) \/ SelectFails(h) \/ RecordFails(h)
                              \/ Restore(h) \/ FinishCleanup(h)
  <2>1. PICK h \in Helpers : \/ Preflight(h) \/ CheckDestination(h) \/ PublishFails(h)
                             \/ LinkFails(h) \/ SelectFails(h) \/ RecordFails(h)
                             \/ Restore(h) \/ FinishCleanup(h)
    BY <1>4
  <2>2. UNCHANGED <<versions, current, installState, shims, work, undisturbed>>
    BY <2>1 DEF Preflight, CheckDestination, PublishFails, LinkFails, SelectFails, RecordFails,
                Restore, FinishCleanup, runtimeVars, runtimeFiles
  <2>3. \E next \in SwitchStage : Goto(h, next)
    <3>1. CASE CheckDestination(h)
      <4>1. (CASE ~Installed(work[h].version) -> "publish"
               [] versions[work[h].version] = work[h].digest -> "shims"
               [] OTHER -> "switch_failed") \in SwitchStage
        BY <1>b
      <4>2. QED
        BY <3>1, <4>1 DEF CheckDestination
    <3>2. CASE ~CheckDestination(h)
      BY <1>b, <2>1, <3>2 DEF Preflight, PublishFails, LinkFails, SelectFails, RecordFails,
                Restore, FinishCleanup
    <3>3. QED
      BY <3>1, <3>2
  <2>4. QED
    BY <1>0, <1>a, <2>2, <2>3
<1>5. CASE \E h \in Helpers : Publish(h)
  <2>1. PICK h \in Helpers : Publish(h)
    BY <1>5
  <2>2. work[h].digest \in Digests
    BY <2>1, RuntimeAssumption DEF Publish
  <2>3. versions' \in [Versions -> Digests \cup {NoDigest}]
    BY <2>1, <2>2 DEF Publish
  <2>4. /\ Goto(h, "shims")
        /\ UNCHANGED <<current, installState, shims, work, undisturbed>>
    BY <2>1 DEF Publish
  <2>5. QED
    BY <1>0, <1>a, <1>b, <2>3, <2>4
<1>6. CASE \E h \in Helpers : ChooseTarget(h)
  <2>1. PICK h \in Helpers : ChooseTarget(h)
    BY <1>6
  <2>2. installState.history \in Seq(Versions)
    BY DEF InstallStates
  <2>3. \/ UNCHANGED work
        \/ \E target \in Versions :
             work' = [work EXCEPT ![h].version = target, ![h].history = installState.history]
    BY <2>1 DEF ChooseTarget
  <2>4. work' \in [Helpers -> SwitchWork]
    <3>1. ASSUME NEW target \in Versions,
                 work' = [work EXCEPT ![h].version = target, ![h].history = installState.history]
          PROVE  work' \in [Helpers -> SwitchWork]
      <4>1. [work[h] EXCEPT !.version = target, !.history = installState.history] \in SwitchWork
        BY <1>0, <2>2, FieldsKeepTypes
      <4>2. work' = [work EXCEPT ![h] = [work[h] EXCEPT !.version = target,
                                                        !.history = installState.history]]
        BY <3>1
      <4>3. QED
        BY <4>1, <4>2
    <3>2. QED
      BY <2>3, <3>1
  <2>5. /\ \E next \in SwitchStage : Goto(h, next)
        /\ UNCHANGED <<versions, current, installState, shims, undisturbed>>
    BY <1>b, <2>1 DEF ChooseTarget, runtimeFiles
  <2>6. QED
    BY <1>0, <1>a, <2>4, <2>5
<1>7. CASE \E h \in Helpers : \E n \in Names :
             LinkShim(h, n) \/ CheckShim(h, n) \/ UnlinkShim(h, n) \/ UnlinkFails(h, n)
  <2>1. PICK h \in Helpers, n \in Names :
          LinkShim(h, n) \/ CheckShim(h, n) \/ UnlinkShim(h, n) \/ UnlinkFails(h, n)
    BY <1>7
  <2>2. /\ UNCHANGED <<stage, commands, versions, current, installState>>
        /\ undisturbed' \in BOOLEAN
    BY <2>1 DEF LinkShim, CheckShim, LookAt, UnlinkShim, UnlinkFails, runtimeFiles
  <2>3. shims' \in ShimTable
    BY <2>1 DEF LinkShim, CheckShim, LookAt, UnlinkShim, UnlinkFails, runtimeFiles, ShimTable
  <2>4. \/ work' = [work EXCEPT ![h].missing = @ \ {n}, ![h].created = @ \cup {n}]
        \/ work' = [work EXCEPT ![h].created = @ \ {n}]
        \/ work' = [work EXCEPT ![h].checked = {n}]
        \/ work' = [work EXCEPT ![h].created = @ \ {n}, ![h].checked = {}]
    BY <2>1 DEF LinkShim, CheckShim, LookAt, UnlinkShim, UnlinkFails
  <2>5. work' \in [Helpers -> SwitchWork]
    <3>1. work[h].missing \in SUBSET Names /\ work[h].created \in SUBSET Names
      BY <1>0 DEF SwitchWork
    <3>2. /\ work[h].missing \ {n} \in SUBSET Names
          /\ work[h].created \cup {n} \in SUBSET Names
          /\ work[h].created \ {n} \in SUBSET Names
          /\ {n} \in SUBSET Names /\ {} \in SUBSET Names
      BY <3>1
    <3>3. CASE work' = [work EXCEPT ![h].missing = @ \ {n}, ![h].created = @ \cup {n}]
      BY <1>0, <3>2, <3>3, FieldsKeepTypes
    <3>4. CASE work' = [work EXCEPT ![h].created = @ \ {n}]
      BY <1>0, <3>2, <3>4, FieldsKeepTypes
    <3>5. CASE work' = [work EXCEPT ![h].checked = {n}]
      BY <1>0, <3>2, <3>5, FieldsKeepTypes
    <3>6. CASE work' = [work EXCEPT ![h].created = @ \ {n}, ![h].checked = {}]
      <4>1. [work[h] EXCEPT !.created = @ \ {n}, !.checked = {}] \in SwitchWork
        BY <1>0, <3>2, FieldsKeepTypes
      <4>2. work' = [work EXCEPT ![h] = [work[h] EXCEPT !.created = @ \ {n}, !.checked = {}]]
        BY <3>6
      <4>3. QED
        BY <4>1, <4>2
    <3>7. QED
      BY <2>4, <3>3, <3>4, <3>5, <3>6
  <2>6. QED
    BY <1>0, <2>2, <2>3, <2>5
<1>8. CASE \E h \in Helpers : Select(h) \/ Reselect(h) \/ ReselectFails(h)
  <2>1. PICK h \in Helpers : Select(h) \/ Reselect(h) \/ ReselectFails(h)
    BY <1>8
  <2>2. work[h].version \in Versions \cup {NoVersion} /\ work[h].previous \in Versions \cup {NoVersion}
    BY <1>0 DEF SwitchWork
  <2>3. /\ \E next \in SwitchStage : Goto(h, next)
        /\ current' \in Versions \cup {NoVersion} /\ undisturbed' \in BOOLEAN
        /\ UNCHANGED <<versions, installState, shims, work>>
    BY <1>b, <2>1, <2>2 DEF Select, Reselect, ReselectFails, runtimeFiles
  <2>4. QED
    BY <1>0, <1>a, <2>3
<1>9. CASE \E h \in Helpers : Record(h)
  <2>1. PICK h \in Helpers : Record(h)
    BY <1>9
  <2>2. /\ work[h].version \in Versions \cup {NoVersion}
        /\ work[h].previous \in Versions \cup {NoVersion}
        /\ work[h].history \in Seq(Versions)
    BY <1>0 DEF SwitchWork
  <2>3. Without(work[h].history, work[h].version) \in Seq(Versions)
    BY <2>2, WithoutIsHistory
  <2>4. History(h) \in Seq(Versions)
    <3>1. CASE work[h].previous \in {NoVersion, work[h].version}
      BY <2>3, <3>1 DEF History
    <3>2. CASE work[h].previous \notin {NoVersion, work[h].version}
      <4>1. <<work[h].previous>> \in Seq(Versions)
        BY <2>2, <3>2
      <4>2. <<work[h].previous>> \o Without(work[h].history, work[h].version) \in Seq(Versions)
        BY <2>3, <4>1, ConcatProperties
      <4>3. QED
        BY <3>2, <4>2 DEF History
    <3>3. QED
      BY <3>1, <3>2
  <2>5. installState' = [current |-> work[h].version, history |-> History(h)]
    BY <2>1 DEF Record
  <2>6. installState' \in InstallStates
    BY <2>2, <2>4, <2>5 DEF InstallStates
  <2>7. /\ Goto(h, "switched")
        /\ UNCHANGED <<versions, current, shims, work, undisturbed>>
    BY <2>1 DEF Record
  <2>8. QED
    BY <1>0, <1>a, <1>b, <2>6, <2>7
<1>10. CASE \E h \in Helpers : ExitSwitch(h) \/ KillSwitch(h)
  <2>1. PICK h \in Helpers : ExitSwitch(h) \/ KillSwitch(h)
    BY <1>10
  <2>2. /\ Goto(h, "idle") /\ work' = [work EXCEPT ![h] = NoWork]
        /\ undisturbed' \in BOOLEAN
        /\ UNCHANGED <<versions, current, installState, shims>>
    BY <2>1 DEF ExitSwitch, KillSwitch, runtimeFiles
  <2>3. work' \in [Helpers -> SwitchWork]
    BY <1>c, <2>2
  <2>4. QED
    BY <1>0, <1>a, <2>2, <2>3
<1>11. CASE \E n \in Names : PlaceForeign(n)
  <2>1. PICK n \in Names : PlaceForeign(n)
    BY <1>11
  <2>2. /\ shims' = [shims EXCEPT ![n] = "foreign"] /\ undisturbed' \in BOOLEAN
        /\ UNCHANGED <<stage, commands, versions, current, installState, work>>
    BY <2>1 DEF PlaceForeign, commandVars
  <2>3. shims' \in ShimTable
    BY <2>2 DEF ShimTable
  <2>4. QED
    BY <1>0, <2>2, <2>3
<1>12. QED
  BY <1>1, <1>2, <1>3, <1>4, <1>5, <1>6, <1>7, <1>8, <1>9, <1>10, <1>11, Zenon DEF RuntimeNext

\* So do the updates of hooks.json, and the user.
LEMMA HooksKeepTypes ==
  ASSUME TypeOK, HookNext, UNCHANGED runtimeVars
  PROVE  TypeOK'
<1> USE DEF TypeOK
<1>0. UNCHANGED <<versions, current, installState, shims, work, undisturbed, overtaken>>
  BY DEF runtimeVars, runtimeFiles
<1>a. ASSUME NEW h \in Helpers, NEW next \in ApplyStage \cup {"idle"}, Goto(h, next)
      PROVE  /\ stage' \in [Helpers -> SwitchStage \cup ApplyStage \cup {"idle"}]
             /\ commands' \in 0 .. MaxCommands
  BY <1>a DEF Goto
<1>b. ApplyStage \cup {"idle"} = {"merge", "backup", "recheck", "replace", "readback", "undo",
                                  "applied", "apply_failed", "idle"}
  BY DEF ApplyStage
<1>c. ASSUME NEW h \in Helpers
      PROVE  /\ plan[h].original \in Config \cup {Missing}
             /\ plan[h].number \in 0 .. MaxCommands /\ plan[h].alone \in BOOLEAN
             /\ plan[h] \in Plans
  BY DEF Plans
<1>1. CASE \E h \in Helpers : BeginApply(h)
  <2>1. PICK h \in Helpers : BeginApply(h)
    BY <1>1
  <2>2. /\ stage' = [stage EXCEPT ![h] = "merge"]
        /\ commands' = commands + 1 /\ commands < MaxCommands
        /\ hooks # Invalid
        /\ UNCHANGED <<hooks, backups, user, edits, raced>>
    BY <2>1 DEF BeginApply, StartCommand
  <2>3. stage' \in [Helpers -> SwitchStage \cup ApplyStage \cup {"idle"}]
    BY <1>b, <2>2
  <2>4. commands' \in 0 .. MaxCommands
    BY <2>2, CommandsAssumption
  <2>5. [original |-> hooks, number |-> commands', alone |-> Applying = {}] \in Plans
    <3>1. (Applying = {}) \in BOOLEAN /\ hooks \in Config \cup {Missing}
      BY <2>2
    <3>2. QED
      BY <2>4, <3>1 DEF Plans
  <2>6. \A g \in Helpers : [plan[g] EXCEPT !.alone = FALSE] \in Plans
    BY <1>c DEF Plans
  <2>7. plan' = [g \in Helpers |->
                   IF g = h
                   THEN [original |-> hooks, number |-> commands', alone |-> Applying = {}]
                   ELSE [plan[g] EXCEPT !.alone = FALSE]]
    BY <2>1 DEF BeginApply
  <2>8. plan' \in [Helpers -> Plans]
    BY <2>5, <2>6, <2>7
  <2>9. QED
    BY <1>0, <2>2, <2>3, <2>4, <2>8
<1>2. CASE \E h \in Helpers : Unchanged(h) \/ PlanChange(h) \/ ReplaceFails(h) \/ Readback(h)
  <2>1. PICK h \in Helpers : Unchanged(h) \/ PlanChange(h) \/ ReplaceFails(h) \/ Readback(h)
    BY <1>2
  <2>2. \E next \in ApplyStage : Goto(h, next)
    BY <1>b, <2>1 DEF Unchanged, PlanChange, ReplaceFails, Readback, ApplyStage
  <2>3. UNCHANGED <<hooks, backups, plan, user, edits, raced>>
    BY <2>1 DEF Unchanged, PlanChange, ReplaceFails, Readback, hookVars
  <2>4. QED
    BY <1>0, <1>a, <2>2, <2>3
<1>3. CASE \E h \in Helpers : WriteBackup(h) \/ Recheck(h)
  <2>1. PICK h \in Helpers : WriteBackup(h) \/ Recheck(h)
    BY <1>3
  <2>2. \E next \in ApplyStage : Goto(h, next)
    BY <2>1 DEF WriteBackup, Recheck, ApplyStage
  <2>3. /\ UNCHANGED <<hooks, plan, user, edits, raced>>
        /\ backups' \subseteq backups \cup {OwnBackup(h)}
    BY <2>1 DEF WriteBackup, Recheck
  <2>4. OwnBackup(h) \in [number : 0 .. MaxCommands, content : Config \cup {Missing}]
    BY <1>c DEF OwnBackup
  <2>5. QED
    BY <1>0, <1>a, <2>2, <2>3, <2>4
<1>4. CASE \E h \in Helpers : Replace(h) \/ Undo(h)
  <2>1. PICK h \in Helpers : Replace(h) \/ Undo(h)
    BY <1>4
  <2>2. \E next \in ApplyStage : Goto(h, next)
    BY <2>1 DEF Replace, Undo, ApplyStage
  <2>3. /\ UNCHANGED <<backups, plan, user, edits, raced>>
        /\ hooks' \in {Proposed(h), plan[h].original}
    BY <2>1 DEF Replace, Undo
  <2>4. Proposed(h) \in Config
    BY <1>c, ParsedIsConfig, MergeIsConfig DEF Proposed
  <2>5. QED
    BY <1>0, <1>a, <1>c, <2>2, <2>3, <2>4
<1>5. CASE \E h \in Helpers : ExitApply(h) \/ KillApply(h)
  <2>1. PICK h \in Helpers : ExitApply(h) \/ KillApply(h)
    BY <1>5
  <2>2. /\ Goto(h, "idle") /\ plan' = [plan EXCEPT ![h] = NoPlan]
        /\ UNCHANGED <<hooks, backups, user, edits, raced>>
    BY <2>1 DEF ExitApply, KillApply
  <2>3. NoPlan \in Plans
    BY CommandsAssumption DEF NoPlan, Plans
  <2>4. plan' \in [Helpers -> Plans]
    BY <2>2, <2>3
  <2>5. QED
    BY <1>0, <1>a, <2>2, <2>4
<1>6. CASE \E text \in Contents \cup {Missing, Invalid} : Edit(text)
  <2>1. PICK text \in Contents \cup {Missing, Invalid} : Edit(text)
    BY <1>6
  <2>2. text \in Config \cup {Missing, Invalid}
    BY ParsedIsConfig
  <2>3. edits' \in 0 .. MaxEdits
    BY <2>1, HookAssumption DEF Edit
  <2>4. /\ hooks' = text /\ user' = text /\ raced' \in BOOLEAN
        /\ UNCHANGED <<stage, commands, backups, plan>>
    BY <2>1 DEF Edit, commandVars
  <2>5. QED
    BY <1>0, <2>2, <2>3, <2>4
<1>7. QED
  BY <1>1, <1>2, <1>3, <1>4, <1>5, <1>6, Zenon DEF HookNext

\* The variables keep their types: in particular, a history is a sequence of
\* versions, and whatever is written to hooks.json is a configuration.
THEOREM HelperIsTyped == Spec => []TypeOK
<1>1. TypeOK /\ UNCHANGED vars => TypeOK'
  BY DEF TypeOK, vars, commandVars, runtimeVars, runtimeFiles, hookVars
<1>2. TypeOK /\ [Next]_vars => TypeOK'
  BY <1>1, RuntimeKeepsTypes, HooksKeepTypes DEF Next
<1>3. QED
  BY <1>2, TypeOKInit, PTL DEF Spec

\* Whatever a command has read, and on every sample, merging keeps every entry
\* of the user and every group with further fields, leaves one canonical entry
\* per event, and changes nothing the second time.
THEOREM MergesAreSound == Spec => []MergeSound
<1>1. SamplesMergedRight
  BY ParsedIsConfig, MergingIsRight DEF SamplesMergedRight
<1>2. TypeOK => MergeSound
  <2>1. SUFFICES ASSUME TypeOK, NEW h \in Helpers
                 PROVE  MergedRight(Parsed(plan[h].original))
    BY <1>1 DEF MergeSound
  <2>2. plan[h].original \in Config \cup {Missing}
    BY <2>1 DEF TypeOK, Plans
  <2>3. QED
    BY <2>2, ParsedIsConfig, MergingIsRight
<1>3. QED
  BY <1>2, HelperIsTyped, PTL

-----------------------------------------------------------------------------
(* The updates of hooks.json.  What the proofs about them need of the types, *)
(* and the steps that are not about the file *)

PlanInv ==
  /\ stage \in [Helpers -> Stages]
  /\ commands \in Nat
  /\ DOMAIN plan = Helpers
  /\ \A h \in Helpers :
       /\ DOMAIN plan[h] = {"original", "number", "alone"}
       /\ plan[h].number \in 0 .. commands
       /\ plan[h].alone \in BOOLEAN
  /\ \A b \in backups : b.number \in 0 .. commands
  /\ raced \in BOOLEAN

LEMMA PlanInit == Init => PlanInv
<1> SUFFICES ASSUME Init PROVE PlanInv
  OBVIOUS
<1>1. stage \in [Helpers -> Stages] /\ commands = 0
  BY DEF Init, CommandsInit, Stages
<1>2. plan = [h \in Helpers |-> NoPlan] /\ backups = {} /\ raced \in BOOLEAN
  BY DEF Init, HookInit
<1>3. /\ DOMAIN NoPlan = {"original", "number", "alone"}
      /\ NoPlan.number = 0 /\ NoPlan.alone \in BOOLEAN
  BY DEF NoPlan
<1>4. \A h \in Helpers : plan[h] = NoPlan
  BY <1>2
<1>5. QED
  BY <1>1, <1>2, <1>3, <1>4 DEF PlanInv

\* The commands that switch leave the hooks alone, and the stages of the commands
\* that update them.
LEMMA RuntimeFrame ==
  ASSUME PlanInv, RuntimeNext
  PROVE  /\ stage' \in [Helpers -> Stages]
         /\ commands' \in Nat /\ commands' >= commands
         /\ \A h \in Helpers :
              \/ stage'[h] = stage[h]
              \/ stage[h] \notin ApplyStage /\ stage'[h] \notin ApplyStage
<1> USE DEF PlanInv, Stages, SwitchStage, InstallStage, RollbackStage, ApplyStage
<1>1. CASE \/ \E h \in Helpers, b \in Bundles : BeginInstall(h, b)
           \/ \E h \in Helpers, v \in Versions \cup {NoVersion} : BeginRollback(h, v)
           \/ \E n \in Names : PlaceForeign(n)
  <2>1. ASSUME NEW h \in Helpers, NEW first, NEW arguments,
               first \notin ApplyStage, first \in Stages, StartSwitch(h, first, arguments)
        PROVE  /\ stage' \in [Helpers -> Stages]
               /\ commands' \in Nat /\ commands' >= commands
               /\ \A g \in Helpers :
                    \/ stage'[g] = stage[g]
                    \/ stage[g] \notin ApplyStage /\ stage'[g] \notin ApplyStage
    BY <2>1 DEF StartSwitch, StartCommand
  <2>2. CASE \E h \in Helpers, b \in Bundles : BeginInstall(h, b)
    BY <2>1, <2>2 DEF BeginInstall
  <2>3. CASE \E h \in Helpers, v \in Versions \cup {NoVersion} : BeginRollback(h, v)
    BY <2>1, <2>3 DEF BeginRollback
  <2>4. CASE \E n \in Names : PlaceForeign(n)
    BY <2>4 DEF PlaceForeign, commandVars
  <2>5. QED
    BY <1>1, <2>2, <2>3, <2>4
<1>2. CASE \E h \in Helpers : LoadState(h) \/ ReadCurrent(h) \/ Preflight(h)
  BY <1>2 DEF LoadState, ReadCurrent, Preflight, Goto
<1>3. CASE \E h \in Helpers : CheckDestination(h) \/ Publish(h) \/ PublishFails(h)
  BY <1>3 DEF CheckDestination, Publish, PublishFails, Goto
<1>4. CASE \E h \in Helpers : ChooseTarget(h) \/ FindMissingShims(h) \/ LinkFails(h)
  BY <1>4 DEF ChooseTarget, FindMissingShims, LinkFails, Goto
<1>5. CASE \E h \in Helpers, n \in Names :
             LinkShim(h, n) \/ CheckShim(h, n) \/ UnlinkShim(h, n) \/ UnlinkFails(h, n)
  BY <1>5 DEF LinkShim, CheckShim, LookAt, UnlinkShim, UnlinkFails
<1>6. CASE \E h \in Helpers : Select(h) \/ SelectFails(h) \/ Record(h) \/ RecordFails(h)
  BY <1>6 DEF Select, SelectFails, Record, RecordFails, Goto
<1>7. CASE \E h \in Helpers : Restore(h) \/ Reselect(h) \/ ReselectFails(h)
  BY <1>7 DEF Restore, Reselect, ReselectFails, Goto
<1>8. CASE \E h \in Helpers : FinishCleanup(h) \/ ExitSwitch(h) \/ KillSwitch(h)
  BY <1>8 DEF FinishCleanup, ExitSwitch, KillSwitch, Goto
<1>9. QED
  BY <1>1, <1>2, <1>3, <1>4, <1>5, <1>6, <1>7, <1>8, Zenon DEF RuntimeNext

LEMMA PlanStep == PlanInv /\ [Next]_vars => PlanInv'
<1> SUFFICES ASSUME PlanInv, [Next]_vars PROVE PlanInv'
  OBVIOUS
<1> USE DEF PlanInv, Stages, ApplyStage
<1>1. CASE UNCHANGED vars
  BY <1>1 DEF vars, commandVars, hookVars
<1>2. CASE RuntimeNext /\ UNCHANGED hookVars
  BY <1>2, RuntimeFrame DEF hookVars
<1>3. CASE \E h \in Helpers : BeginApply(h)
  <2>1. PICK h \in Helpers : BeginApply(h)
    BY <1>3
  <2>2. /\ stage' \in [Helpers -> Stages] /\ commands' = commands + 1
        /\ backups' = backups /\ raced' = raced
    BY <2>1 DEF BeginApply, StartCommand
  <2>3. \A g \in Helpers :
          /\ DOMAIN plan'[g] = {"original", "number", "alone"}
          /\ plan'[g].number \in {plan[g].number, commands + 1}
          /\ plan'[g].alone \in BOOLEAN
    BY <2>1, <2>2 DEF BeginApply
  <2>4. DOMAIN plan' = Helpers
    BY <2>1 DEF BeginApply
  <2>5. QED
    BY <2>2, <2>3, <2>4
<1>4. CASE \E h \in Helpers : Unchanged(h) \/ PlanChange(h) \/ ReplaceFails(h) \/ Readback(h)
  BY <1>4 DEF Unchanged, PlanChange, ReplaceFails, Readback, Goto, hookVars
<1>5. CASE \E h \in Helpers : WriteBackup(h) \/ Recheck(h)
  BY <1>5 DEF WriteBackup, Recheck, OwnBackup, Goto
<1>6. CASE \E h \in Helpers : Replace(h) \/ Undo(h)
  BY <1>6 DEF Replace, Undo, Goto
<1>7. CASE \E h \in Helpers : ExitApply(h) \/ KillApply(h)
  <2>1. PICK h \in Helpers : ExitApply(h) \/ KillApply(h)
    BY <1>7
  <2>2. /\ DOMAIN NoPlan = {"original", "number", "alone"}
        /\ NoPlan.number = 0 /\ NoPlan.alone \in BOOLEAN
    BY DEF NoPlan
  <2>3. plan' = [plan EXCEPT ![h] = NoPlan]
    BY <2>1 DEF ExitApply, KillApply
  <2>4. /\ stage' \in [Helpers -> Stages]
        /\ UNCHANGED <<commands, backups, raced>>
    BY <2>1 DEF ExitApply, KillApply, Goto
  <2>5. DOMAIN plan' = Helpers /\ \A g \in Helpers : plan'[g] = plan[g] \/ plan'[g] = NoPlan
    BY <2>3
  <2>6. QED
    BY <2>2, <2>4, <2>5
<1>8. CASE \E text \in Contents \cup {Missing, Invalid} : Edit(text)
  BY <1>8 DEF Edit, commandVars
<1>9. QED
  BY <1>1, <1>2, <1>3, <1>4, <1>5, <1>6, <1>7, <1>8 DEF Next, HookNext

-----------------------------------------------------------------------------
(* What the user wrote last *)

\* The stages of an update between its last look at the file and its end.
WritingStage == {"replace", "readback", "undo"}

\* No command that is at work will remove this backup.
Safe(b) ==
  \A h \in Helpers : stage[h] \in ApplyStage /\ plan[h].number = b.number =>
    stage[h] \notin {"merge", "backup", "recheck"}

UserSafe == user = Missing \/ \E b \in backups : b.content = user /\ Safe(b)

\* Every update at work has a number of its own, and from its backup on a backup
\* of what it read; whenever something else than what the user wrote is in
\* place, or may soon be, that is in a backup that stays.
BackupInv ==
  /\ \A g, h \in Helpers :
       stage[g] \in ApplyStage /\ stage[h] \in ApplyStage /\ plan[g].number = plan[h].number => g = h
  /\ \A h \in Helpers : stage[h] \in ApplyStage =>
       /\ plan[h].original # Invalid
       /\ stage[h] = "recheck" => plan[h].original = Missing \/ OwnBackup(h) \in backups
  /\ ~raced =>
       /\ user = hooks \/ UserSafe
       /\ \A h \in Helpers : stage[h] \in WritingStage => UserSafe

LEMMA BackupInit == Init => BackupInv
  BY DEF Init, CommandsInit, HookInit, BackupInv, UserSafe, WritingStage, ApplyStage

LEMMA BackupStep == PlanInv /\ BackupInv /\ [Next]_vars => BackupInv'
<1> SUFFICES ASSUME PlanInv, BackupInv, [Next]_vars PROVE BackupInv'
  OBVIOUS
<1> USE DEF BackupInv, WritingStage, ApplyStage
<1>0. /\ stage \in [Helpers -> Stages] /\ DOMAIN plan = Helpers
      /\ \A h \in Helpers : DOMAIN plan[h] = {"original", "number", "alone"}
      /\ \A h \in Helpers : plan[h].number \in 0 .. commands
      /\ \A b \in backups : b.number \in 0 .. commands
      /\ commands \in Nat
  BY DEF PlanInv
<1>1. CASE UNCHANGED vars
  BY <1>1 DEF vars, commandVars, hookVars, UserSafe, Safe, OwnBackup
<1>2. CASE RuntimeNext /\ UNCHANGED hookVars
  <2>1. \A b : Safe(b) => Safe(b)'
    BY <1>2, RuntimeFrame DEF Safe, hookVars
  <2>2. UserSafe => UserSafe'
    BY <1>2, <2>1 DEF UserSafe, hookVars
  <2>3. QED
    BY <1>2, <2>2, RuntimeFrame DEF OwnBackup, hookVars
<1>3. CASE \E h \in Helpers : BeginApply(h)
  <2>1. PICK h \in Helpers : BeginApply(h)
    BY <1>3
  <2>2. /\ hooks # Invalid /\ UNCHANGED <<hooks, backups, user, raced>>
        /\ stage' = [stage EXCEPT ![h] = "merge"] /\ commands' = commands + 1
        /\ plan'[h].number = commands + 1 /\ plan'[h].original = hooks
        /\ \A g \in Helpers \ {h} : /\ plan'[g].number = plan[g].number
                                    /\ plan'[g].original = plan[g].original
    BY <1>0, <2>1 DEF BeginApply, StartCommand
  <2>3. \A b \in backups : Safe(b) => Safe(b)'
    BY <1>0, <2>2 DEF Safe
  <2>4. UserSafe => UserSafe'
    BY <2>2, <2>3 DEF UserSafe
  <2>5. QED
    BY <1>0, <2>2, <2>4 DEF OwnBackup
<1>4. CASE \E h \in Helpers : Unchanged(h) \/ PlanChange(h)
  <2>1. \A b \in backups : Safe(b) => Safe(b)'
    BY <1>0, <1>4 DEF Safe, Unchanged, PlanChange, Goto, hookVars
  <2>2. UserSafe => UserSafe'
    BY <1>4, <2>1 DEF UserSafe, Unchanged, PlanChange, hookVars
  <2>3. QED
    BY <1>0, <1>4, <2>2 DEF Unchanged, PlanChange, Goto, hookVars, OwnBackup
<1>5. CASE \E h \in Helpers : WriteBackup(h)
  <2>1. \A b \in backups : Safe(b) => Safe(b)'
    BY <1>0, <1>5 DEF Safe, WriteBackup, Goto
  <2>2. UserSafe => UserSafe'
    BY <1>5, <2>1 DEF UserSafe, WriteBackup
  <2>3. QED
    BY <1>0, <1>5, <2>2 DEF WriteBackup, Goto, OwnBackup
<1>6. CASE \E h \in Helpers : Recheck(h)
  <2>1. PICK h \in Helpers : Recheck(h)
    BY <1>6
  <2>2. \A b \in backups : Safe(b) => Safe(b)' /\ b \in backups'
    BY <1>0, <2>1 DEF Safe, Recheck, Goto, OwnBackup
  <2>3. UserSafe => UserSafe'
    BY <2>1, <2>2 DEF UserSafe, Recheck
  <2>4. CASE hooks = plan[h].original /\ stage' = [stage EXCEPT ![h] = "replace"]
             /\ UNCHANGED backups
    <3>1. Safe(OwnBackup(h))'
      BY <1>0, <2>1, <2>4 DEF Safe, OwnBackup, Recheck
    <3>2. user = hooks => UserSafe'
      BY <2>1, <2>4, <3>1 DEF UserSafe, Recheck, OwnBackup
    <3>3. QED
      BY <1>0, <2>1, <2>3, <2>4, <3>2 DEF Recheck, OwnBackup
  <2>5. CASE stage' = [stage EXCEPT ![h] = "apply_failed"]
             /\ backups' \in {backups, backups \ {OwnBackup(h)}}
    BY <1>0, <2>1, <2>3, <2>5 DEF Recheck, OwnBackup
  <2>6. QED
    BY <2>1, <2>4, <2>5 DEF Recheck, Goto
<1>7. CASE \E h \in Helpers : Replace(h) \/ ReplaceFails(h) \/ Readback(h) \/ Undo(h)
  <2>1. \A b \in backups : Safe(b) => Safe(b)'
    BY <1>0, <1>7 DEF Safe, Replace, ReplaceFails, Readback, Undo, Goto, hookVars
  <2>2. UserSafe => UserSafe'
    BY <1>7, <2>1 DEF UserSafe, Replace, ReplaceFails, Readback, Undo, hookVars
  <2>3. QED
    BY <1>0, <1>7, <2>2 DEF Replace, ReplaceFails, Readback, Undo, Goto, hookVars, OwnBackup
<1>8. CASE \E h \in Helpers : ExitApply(h) \/ KillApply(h)
  <2>1. \A b \in backups : Safe(b) => Safe(b)'
    BY <1>0, <1>8 DEF Safe, ExitApply, KillApply, Goto
  <2>2. UserSafe => UserSafe'
    BY <1>8, <2>1 DEF UserSafe, ExitApply, KillApply
  <2>3. QED
    BY <1>0, <1>8, <2>2 DEF ExitApply, KillApply, Goto, OwnBackup
<1>9. CASE \E text \in Contents \cup {Missing, Invalid} : Edit(text)
  <2>1. UNCHANGED <<stage, commands, plan, backups>> /\ user' = hooks'
    BY <1>9 DEF Edit, commandVars
  <2>2. ~raced' => \A h \in Helpers : stage[h] \notin WritingStage
    BY <1>9 DEF Edit
  <2>3. QED
    BY <2>1, <2>2 DEF OwnBackup
<1>10. QED
  BY <1>1, <1>2, <1>3, <1>4, <1>5, <1>6, <1>7, <1>8, <1>9 DEF Next, HookNext

-----------------------------------------------------------------------------
(* Updates that fail *)

\* A command that is alone is the only one at work; it knows the file before it
\* writes to it, and after it has failed.
AloneInv ==
  \A h \in Helpers : stage[h] \in ApplyStage /\ plan[h].alone =>
    /\ \A g \in Helpers \ {h} : stage[g] \notin ApplyStage
    /\ ~raced /\ stage[h] \in {"merge", "backup", "recheck", "apply_failed"} =>
         hooks \in {plan[h].original, user}

LEMMA AloneInit == Init => AloneInv
  BY DEF Init, CommandsInit, AloneInv, ApplyStage

LEMMA AloneStep == PlanInv /\ AloneInv /\ [Next]_vars => AloneInv'
<1> SUFFICES ASSUME PlanInv, AloneInv, [Next]_vars PROVE AloneInv'
  OBVIOUS
<1> USE DEF AloneInv, ApplyStage
<1>0. /\ stage \in [Helpers -> Stages] /\ DOMAIN plan = Helpers
      /\ \A h \in Helpers : DOMAIN plan[h] = {"original", "number", "alone"}
  BY DEF PlanInv
<1>1. CASE UNCHANGED vars
  BY <1>1 DEF vars, commandVars, hookVars
<1>2. CASE RuntimeNext /\ UNCHANGED hookVars
  BY <1>2, RuntimeFrame DEF hookVars
<1>3. CASE \E h \in Helpers : BeginApply(h)
  <2>1. PICK h \in Helpers : BeginApply(h)
    BY <1>3
  <2>2. /\ stage' = [stage EXCEPT ![h] = "merge"] /\ hooks' = hooks
        /\ plan'[h].original = hooks
        /\ plan'[h].alone => \A g \in Helpers : stage[g] \notin ApplyStage
        /\ \A g \in Helpers \ {h} : plan'[g].alone = FALSE
    BY <1>0, <2>1 DEF BeginApply, StartCommand, Applying
  <2>3. QED
    BY <1>0, <2>2
<1>4. CASE \E h \in Helpers : Unchanged(h) \/ PlanChange(h) \/ WriteBackup(h) \/ Recheck(h)
  BY <1>0, <1>4 DEF Unchanged, PlanChange, WriteBackup, Recheck, Goto, hookVars
<1>5. CASE \E h \in Helpers : Replace(h) \/ ReplaceFails(h) \/ Readback(h) \/ Undo(h)
  BY <1>0, <1>5 DEF Replace, ReplaceFails, Readback, Undo, Goto, hookVars
<1>6. CASE \E h \in Helpers : ExitApply(h) \/ KillApply(h)
  BY <1>0, <1>6 DEF ExitApply, KillApply, Goto
<1>7. CASE \E text \in Contents \cup {Missing, Invalid} : Edit(text)
  BY <1>7 DEF Edit, commandVars
<1>8. QED
  BY <1>1, <1>2, <1>3, <1>4, <1>5, <1>6, <1>7 DEF Next, HookNext

-----------------------------------------------------------------------------
(* What is in place *)

\* Updating an updated file changes nothing.
LEMMA UpdatedTwice ==
  \A text \in Contents \cup {Missing} :
    Merge(Parsed(Merge(Parsed(text)))) = Merge(Parsed(text))
<1> SUFFICES ASSUME NEW text \in Contents \cup {Missing}
             PROVE  Merge(Parsed(Merge(Parsed(text)))) = Merge(Parsed(text))
  OBVIOUS
<1>1. Parsed(text) \in Config
  BY ParsedIsConfig
<1>2. Merge(Parsed(text)) \in Config
  BY <1>1, MergeIsConfig
<1>3. Parsed(Merge(Parsed(text))) = Merge(Parsed(text))
  BY <1>2, HookAssumption DEF Parsed, Config
<1>4. QED
  BY <1>1, <1>3, MergedTwice

\* What the user wrote, or that with Radar's entries made canonical.
Faithful(text) ==
  \/ text = user
  \/ user # Invalid /\ text = Merge(Parsed(user))

\* This is in place, and is what an update that is writing has read.
FaithfulInv ==
  /\ user \in Contents \cup {Missing, Invalid}
  /\ ~raced =>
       /\ Faithful(hooks)
       /\ \A h \in Helpers : stage[h] \in WritingStage =>
            user # Invalid /\ Faithful(plan[h].original)

LEMMA FaithfulInit == Init => FaithfulInv
  BY DEF Init, CommandsInit, HookInit, FaithfulInv, Faithful, WritingStage

LEMMA FaithfulStep ==
  ASSUME PlanInv, BackupInv, FaithfulInv, [Next]_vars
  PROVE  FaithfulInv'
<1> USE DEF FaithfulInv, Faithful, WritingStage, ApplyStage
<1>0. /\ stage \in [Helpers -> Stages] /\ DOMAIN plan = Helpers
      /\ \A h \in Helpers : DOMAIN plan[h] = {"original", "number", "alone"}
      /\ \A h \in Helpers : stage[h] \in ApplyStage => plan[h].original # Invalid
  BY DEF PlanInv, BackupInv
<1>1. CASE UNCHANGED vars
  BY <1>1 DEF vars, commandVars, hookVars
<1>2. CASE RuntimeNext /\ UNCHANGED hookVars
  BY <1>2, RuntimeFrame DEF hookVars
<1>3. CASE \E h \in Helpers : BeginApply(h)
  <2>1. PICK h \in Helpers : BeginApply(h)
    BY <1>3
  <2>2. /\ stage' = [stage EXCEPT ![h] = "merge"] /\ UNCHANGED <<hooks, user, raced>>
        /\ \A g \in Helpers \ {h} : plan'[g].original = plan[g].original
    BY <1>0, <2>1 DEF BeginApply, StartCommand
  <2>3. QED
    BY <1>0, <2>2
<1>4. CASE \E h \in Helpers : Unchanged(h) \/ PlanChange(h) \/ WriteBackup(h)
  BY <1>0, <1>4 DEF Unchanged, PlanChange, WriteBackup, Goto, hookVars
<1>5. CASE \E h \in Helpers : Recheck(h)
  <2>1. PICK h \in Helpers : Recheck(h)
    BY <1>5
  <2>2. UNCHANGED <<hooks, user, raced, plan>> /\ plan[h].original # Invalid
    BY <1>0, <2>1 DEF Recheck
  <2>3. \/ hooks = plan[h].original /\ stage' = [stage EXCEPT ![h] = "replace"]
        \/ stage' = [stage EXCEPT ![h] = "apply_failed"]
    BY <2>1 DEF Recheck, Goto
  <2>4. QED
    BY <1>0, <2>2, <2>3
<1>6. CASE \E h \in Helpers : Replace(h)
  <2>1. PICK h \in Helpers : Replace(h)
    BY <1>6
  <2>2. /\ stage[h] = "replace" /\ hooks' = Merge(Parsed(plan[h].original))
        /\ stage' = [stage EXCEPT ![h] = "readback"]
        /\ UNCHANGED <<user, raced, plan>>
    BY <2>1 DEF Replace, Proposed, Goto
  <2>3. ~raced => user # Invalid /\ hooks' = Merge(Parsed(user))
    BY <2>2, UpdatedTwice
  <2>4. QED
    BY <1>0, <2>2, <2>3
<1>7. CASE \E h \in Helpers : ReplaceFails(h) \/ Readback(h)
  BY <1>0, <1>7 DEF ReplaceFails, Readback, Goto, hookVars
<1>8. CASE \E h \in Helpers : Undo(h)
  BY <1>0, <1>8 DEF Undo, Goto
<1>9. CASE \E h \in Helpers : ExitApply(h) \/ KillApply(h)
  BY <1>0, <1>9 DEF ExitApply, KillApply, Goto
<1>10. CASE \E text \in Contents \cup {Missing, Invalid} : Edit(text)
  BY <1>10 DEF Edit, commandVars
<1>11. QED
  BY <1>1, <1>2, <1>3, <1>4, <1>5, <1>6, <1>7, <1>8, <1>9, <1>10 DEF Next, HookNext

-----------------------------------------------------------------------------
(* What holds of hooks.json *)

HookInv == PlanInv /\ BackupInv /\ AloneInv

\* The inductive invariant holds in every reachable state.
THEOREM HookInvariant == Spec => []HookInv
<1>1. Init => HookInv
  BY PlanInit, BackupInit, AloneInit DEF HookInv
<1>2. HookInv /\ [Next]_vars => HookInv'
  BY PlanStep, BackupStep, AloneStep DEF HookInv
<1>3. QED
  BY <1>1, <1>2, PTL DEF Spec

\* However many updates run and wherever they fail or are killed, what the user
\* wrote last is in place or in a backup, unless an edit fell into the short
\* time between a command's last look and its end.
THEOREM UserConfigIsRecoverable == Spec => []UserConfigRecoverable
<1>1. HookInv => UserConfigRecoverable
  BY DEF HookInv, BackupInv, UserSafe, UserConfigRecoverable
<1>2. QED
  BY <1>1, HookInvariant, PTL

\* An update that fails while no other one runs leaves the file as it read it,
\* or as the user has since written it.
THEOREM FailedApplyIsUndone == Spec => []FailedApplyUndone
<1>1. HookInv => FailedApplyUndone
  BY DEF HookInv, AloneInv, FailedApplyUndone, ApplyStage
<1>2. QED
  BY <1>1, HookInvariant, PTL

\* And what is in place is what the user wrote, or just that with Radar's entries
\* made canonical, however often they have been.
THEOREM UserHooksAreKept == Spec => []UserHooksKept
<1>1. Init => FaithfulInv
  BY FaithfulInit
<1>2. HookInv /\ FaithfulInv /\ [Next]_vars => FaithfulInv'
  BY FaithfulStep DEF HookInv
<1>3. FaithfulInv => UserHooksKept
  BY DEF FaithfulInv, Faithful, UserHooksKept
<1>4. QED
  BY <1>1, <1>2, <1>3, HookInvariant, PTL DEF Spec
=============================================================================
