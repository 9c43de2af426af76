--------------------------- MODULE HelperProperties ---------------------------
(* What codex-radar-helper promises about the runtime and about hooks.json. *)
EXTENDS HelperManager

ShimTable == [Names -> {"absent", "ours", "foreign"}]
InstallStates == [current : Versions \cup {NoVersion}, history : Seq(Versions)]
FoundBefore == {<<>>} \cup (Versions \cup {NoVersion}) \X InstallStates \X ShimTable

SwitchWork ==
  [version : Versions \cup {NoVersion}, digest : Digests \cup {NoDigest},
   previous : Versions \cup {NoVersion}, history : Seq(Versions),
   missing : SUBSET Names, created : SUBSET Names, checked : SUBSET Names,
   found : FoundBefore]

Plans == [original : Config \cup {Missing}, number : 0..MaxCommands, alone : BOOLEAN]

\* The variables of the helper processes and files have their types.
TypeOK ==
  /\ stage \in [Helpers -> SwitchStage \cup ApplyStage \cup {"idle"}]
  /\ commands \in 0..MaxCommands
  /\ versions \in [Versions -> Digests \cup {NoDigest}]
  /\ current \in Versions \cup {NoVersion}
  /\ installState \in InstallStates
  /\ shims \in ShimTable
  /\ work \in [Helpers -> SwitchWork]
  /\ undisturbed \in BOOLEAN
  /\ overtaken \subseteq Names
  /\ hooks \in Config \cup {Missing, Invalid}
  /\ backups \subseteq [number : 0..MaxCommands, content : Config \cup {Missing}]
  /\ plan \in [Helpers -> Plans]
  /\ user \in Config \cup {Missing, Invalid}
  /\ edits \in 0..MaxEdits
  /\ raced \in BOOLEAN

-----------------------------------------------------------------------------
(* The runtime *)

\* The selector names a complete runtime that came from a verified bundle,
\* whatever is killed, fails or overlaps (install_bundle publishes before it
\* selects; rollback_runtime looks for the marker).
CurrentInstalled ==
  current # NoVersion =>
    \E b \in Bundles : /\ Verified(b) /\ b.runnable
                       /\ b.version = current
                       /\ versions[current] = b.digest

\* An installed version directory is never replaced (install_bundle, the digest
\* check and the rename that fails on an existing directory).
VersionsImmutable ==
  [][\A v \in Versions : Installed(v) => versions'[v] = versions[v]]_vars

\* A file of the user under a command's name stays, also when a command undoes
\* its own shims after the user has replaced one, and when several commands do
\* (_cleanup_created_shims).  Only a file that he put there between a command's
\* readlink and its unlink may go with that unlink.
ForeignShimsKept ==
  [][\A n \in Names \ overtaken : shims[n] = "foreign" => shims'[n] = "foreign"]_vars

\* install-state.json as a list of the selected versions, the latest first.
Switched(s, v) ==
  LET kept == Without(s.history, v)
  IN  [current |-> v,
       history |-> IF s.current \in {NoVersion, v} THEN kept ELSE <<s.current>> \o kept]

\* As long as commands do not overlap and none dies between the selector and
\* its record, every record is exactly one switch from the version recorded
\* before, so that each version ever selected stays within reach of a rollback
\* (_record_switch works on a state and a selector it read earlier).
SwitchRecorded ==
  [][undisturbed' /\ installState' # installState =>
       \E v \in Versions : installState' = Switched(installState, v)]_vars

\* A switch does everything or nothing.  A command that fails, at whatever
\* operation, has left selector, record and shims as it found them
\* (_restore_current, _cleanup_created_shims).  One that reports success has
\* made its version current and recorded it, and leaves the diagnosis nothing
\* but the hooks to complain about.
SwitchAllOrNothing ==
  \A h \in Helpers :
    /\ stage[h] = "switch_failed" /\ undisturbed => Found = work[h].found
    /\ stage[h] = "switched" /\ undisturbed =>
         /\ current = work[h].version
         /\ installState.current = current
         /\ Diagnosis = (IF Wiring(hooks) = "ready" THEN "ready" ELSE "issues")

-----------------------------------------------------------------------------
(* hooks.json *)

\* How often an entry of the user occurs for an event.
Times(groups, u) ==
  Cardinality({p \in UNION {{i} \X DOMAIN groups[i].entries : i \in DOMAIN groups} :
                 groups[p[1]].entries[p[2]] = u})

MergedRight(config) ==
  LET merged == Merge(config) IN
  /\ Wiring(merged) = "ready"
  /\ Merge(merged) = merged
  /\ \A e \in Events :
       /\ \A u \in UserEntries : Times(merged[e], u) = Times(config[e], u)
       /\ Cardinality({i \in DOMAIN merged[e] : merged[e][i].extra})
            = Cardinality({i \in DOMAIN config[e] : config[e][i].extra})

SamplesMergedRight == \A config \in Samples : MergedRight(config)

\* Merging keeps every entry of the user and every group with further fields,
\* leaves one canonical entry per event, and changes nothing the second time,
\* for every sample and for what a command has read (_merge_hook_config
\* against _hook_wiring_diagnostics).
MergeSound ==
  /\ SamplesMergedRight
  /\ \A h \in Helpers :
       stage[h] = "merge" => MergedRight(Parsed(plan[h].original))

\* Unless an edit falls into the short time between a command's last look and
\* its end, what the user wrote last is in place or in a backup, whatever is
\* killed or fails and however many commands run (apply_hook_config).
UserConfigRecoverable ==
  ~raced => \/ user \in {hooks, Missing}
            \/ \E b \in backups : b.content = user

\* And what is in place is what the user wrote, or just that with Radar's
\* entries made canonical.
UserHooksKept ==
  ~raced => \/ hooks = user
            \/ user # Invalid /\ hooks = Merge(Parsed(user))

\* A command that fails while no other one runs leaves the file as it read it,
\* or as the user has since written it.
FailedApplyUndone ==
  \A h \in Helpers :
    stage[h] = "apply_failed" /\ plan[h].alone /\ ~raced =>
      hooks \in {plan[h].original, user}
=============================================================================
