----------------------- MODULE SessionStoreProperties -----------------------
(***************************************************************************)
(* What the session store must guarantee, and its refinement of            *)
(* SessionIndex.                                                           *)
(***************************************************************************)
EXTENDS SessionStore

\* Every variable has its type: in particular what reaches the disk is always
\* an index of well-formed entries, a truncated file, or no file.
TypeOK ==
  /\ clock \in Time
  /\ rollout \in [Sessions -> [kind : LifecycleKind, at : Time]]
  /\ retention \in Retentions
  /\ legacy \in BOOLEAN
  /\ lock \in Procs \cup {NoProc}
  /\ file \in Contents
  /\ tmp \in Contents
  /\ fd \in [Procs -> {"none", "tmp", "file", "unlinked"}]
  /\ pc \in [Procs -> PC]
  /\ event \in [Hooks -> Event]
  /\ buf \in [Procs -> Index]
  /\ todo \in [Reconcilers -> SUBSET Sessions]
  /\ changed \in [Procs -> BOOLEAN]

\* Hooks and reconcilers may be killed at any point of a save and still no
\* reader ever finds sessions.json truncated: load_sessions would report an
\* empty index for it, and the next hook would save that over every session.
IndexReadable == file.kind # "torn"

\* The session index as its readers see it.
CurrentIndex == Loaded(file)

Atomic == INSTANCE SessionIndex WITH index <- CurrentIndex

\* Under the lock each save is one whole step on the current index: no update
\* that another process saved in between is lost (record_hook_event,
\* reconcile_sessions).
SavesAreAtomic == Atomic!Spec

\* A session leaves the index only because it was last seen longer ago than a
\* nonzero retention period (docs/SPEC.md, Retention), whoever saves the index.
SessionsLeaveOnlyByRetention ==
  [][\A s \in Sessions :
       CurrentIndex[s] # NoSession /\ CurrentIndex'[s] = NoSession =>
         \E days \in Retentions \ {0} : CurrentIndex[s].last + days < clock]_vars

\* A step in which p renames its temporary file over sessions.json.
Saves(p) == pc[p] = "replace" /\ pc'[p] \in {"unlock", "cleanup"}

\* reconcile_sessions applies a rollout event only to an entry that still looks
\* active and was stamped before it (docs/SPEC.md, Terminal-State Reconciliation),
\* also when hooks save in between.  A hook's stamp is cut to the whole second
\* (utc_now) and a rollout event's is not, so the event may be older than the
\* hook it overrules, but by less than a second.
ReconcileKeepsNewer ==
  [][\A r \in Reconcilers : Saves(r) =>
       \A s \in Sessions :
         \/ CurrentIndex'[s] = CurrentIndex[s]
         \/ /\ Reconcilable(CurrentIndex[s])
            /\ CurrentIndex'[s] # NoSession
            /\ CurrentIndex'[s].last > CurrentIndex[s].last
            /\ CurrentIndex'[s].count = CurrentIndex[s].count + 1
            /\ \A h \in Hooks : Stamp(event[h].at) = CurrentIndex[s].last =>
                  event[h].at < CurrentIndex'[s].last + Second]_vars

\* When Codex waits for a session's hook before it emits the session's next
\* event, the stamps of an entry stay in order although hooks of other sessions
\* and reconcilers save in between: first_seen_at, then the start of the
\* displayed state and last_seen_at, none in the future.  The start may be later
\* than last_seen_at within one second, when a hook cut to that second follows a
\* reconciliation.
TimelineOrdered ==
  \A s \in Sessions : CurrentIndex[s] # NoSession =>
    /\ CurrentIndex[s].first <= CurrentIndex[s].started
    /\ CurrentIndex[s].first <= CurrentIndex[s].last
    /\ Stamp(CurrentIndex[s].started) <= CurrentIndex[s].last
    /\ CurrentIndex[s].last <= clock

\* Where a process holds the lock, if it takes the lock at all.
Critical == {"load", "scan", "save", "write", "replace", "unlock"}

\* Whatever codex-radar prune does, and whoever is killed, two lock takers are
\* never between their load and their save at once (_state_lock).
LockExclusive ==
  \A p \in Hooks \cup Reconcilers : pc[p] \in Critical => lock = p

\* A hook that waits for the lock ends, although other processes may be killed
\* while they hold it and a watcher takes it again and again.
WaitingHookEnds ==
  \A h \in Hooks : pc[h] = "lock" ~> pc[h] \in {"done", "failed", "dead"}
=============================================================================
