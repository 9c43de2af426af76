---------------------------- MODULE SessionStore ----------------------------
(***************************************************************************)
(* The processes that share a codex-radar state directory: one-shot hook   *)
(* processes (codex-radar hook), reconcilers (codex-radar reconcile, and   *)
(* codex-radar watch, which reconciles again and again) and the operator's *)
(* codex-radar prune.  Each loads sessions.json, changes the copy in       *)
(* memory, writes sessions.json.tmp and renames it over sessions.json.     *)
(* Hooks and reconcilers do so under .lock; prune_sessions does not.       *)
(*                                                                         *)
(* A step is what another process can observe: one lock, file or rename    *)
(* operation, or a read.  A process may die between any two of them.       *)
(***************************************************************************)
EXTENDS SessionRecords

CONSTANTS
  Hooks, Reconcilers, Pruners,   \* the processes
  NoProc,                        \* the lock is free
  HookStatuses,                  \* the statuses the hooks' events carry
  Transcribed,                   \* the sessions with a trusted transcript path
  RolloutKinds,                  \* the lifecycle events Codex writes to them
  SerialHooks,                   \* Codex waits for a thread's hook before its next event
  NativeWindows,                 \* waiting for the lock gives up after 4 seconds
  MaxTime                        \* bound of the clock

Procs == Hooks \cup Reconcilers \cup Pruners

ASSUME ProcsAssumption ==
  /\ NoProc \notin Procs
  /\ Hooks \cap Reconcilers = {}
  /\ Pruners \cap (Hooks \cup Reconcilers) = {}

ASSUME StoreAssumption ==
  /\ HookStatuses \subseteq Status
  /\ Transcribed \subseteq Sessions
  /\ RolloutKinds \subseteq {"task_started", "task_complete", "turn_aborted"}
  /\ SerialHooks \in BOOLEAN
  /\ NativeWindows \in BOOLEAN
  /\ MaxTime \in Nat

VARIABLES
  clock,      \* the host's wall clock
  rollout,    \* the latest turn lifecycle event in each session's transcript
  retention,  \* retention_days of config.json
  legacy,     \* a legacy events.jsonl exists
  lock,       \* the holder of .lock, or NoProc
  file,       \* sessions.json
  tmp,        \* sessions.json.tmp
  fd,         \* what each process' open write handle refers to
  pc,         \* where each process is
  event,      \* the normalized event of each hook
  buf,        \* the sessions each process holds in memory
  todo,       \* the sessions a reconciler has yet to examine
  changed     \* a reconciler updated, or a pruner removed, some session

disk == <<file, tmp, fd>>
locals == <<event, buf, todo, changed>>
world == <<clock, rollout, retention>>
vars == <<world, legacy, lock, disk, pc, locals>>

\* A file is missing, unreadable as JSON, or holds an index.
Contents == [kind : {"missing", "torn", "ok"}, index : Index]
Missing == [kind |-> "missing", index |-> EmptyIndex]
Torn == [kind |-> "torn", index |-> EmptyIndex]
Holding(index) == [kind |-> "ok", index |-> index]

LifecycleKind == {"none", "task_started", "task_complete", "turn_aborted"}

PC == {"idle", "lock", "load", "scan", "save", "write", "replace", "unlock",
       "cleanup", "done", "failed", "dead"}

\* load_sessions: anything that is not a readable index loads as no session.
Loaded(contents) == IF contents.kind = "ok" THEN contents.index ELSE EmptyIndex

\* Mutant: the raw rollout event type is stored as the status.
StatusIsKind(kind) == kind

\* TERMINAL_EVENT_STATUS
StatusOf(kind) == IF kind = "task_complete" THEN "done" ELSE "unknown"

NoEvent == [session |-> CHOOSE s \in Sessions : TRUE, status |-> "unknown", at |-> 0]

Init ==
  /\ clock = 0
  /\ rollout = [s \in Sessions |-> [kind |-> "none", at |-> 0]]
  /\ retention \in Retentions
  /\ legacy = TRUE
  /\ lock = NoProc
  /\ file = Missing
  /\ tmp = Missing
  /\ fd = [p \in Procs |-> "none"]
  /\ pc = [p \in Procs |-> "idle"]
  /\ event = [h \in Hooks |-> NoEvent]
  /\ buf = [p \in Procs |-> EmptyIndex]
  /\ todo = [r \in Reconcilers |-> {}]
  /\ changed = [p \in Procs |-> FALSE]

Goto(p, from, to) ==
  /\ pc[p] = from
  /\ pc' = [pc EXCEPT ![p] = to]

\* A process that ends, or a poll of the watcher, takes its memory with it.
Forget(p) ==
  /\ buf' = [buf EXCEPT ![p] = EmptyIndex]
  /\ changed' = [changed EXCEPT ![p] = FALSE]
  /\ todo' = [r \in Reconcilers |-> IF r = p THEN {} ELSE todo[r]]
  /\ UNCHANGED event

-----------------------------------------------------------------------------
(* The world around the store: time, Codex' transcripts, codex-radar config *)

Tick ==
  /\ clock < MaxTime
  /\ clock' = clock + 1
  /\ UNCHANGED <<rollout, retention, legacy, lock, disk, pc, locals>>

\* No hook of the session is running.
NoHookOf(s) ==
  \A h \in Hooks : event[h].session = s => pc[h] \in {"idle", "done", "failed", "dead"}

\* Codex appends a turn lifecycle event to a session's rollout file.  A turn is
\* complete when its hooks are; an interrupt waits for none.
AppendRollout(s, kind) ==
  /\ SerialHooks /\ kind = "task_complete" => NoHookOf(s)
  /\ rollout' = [rollout EXCEPT ![s] = [kind |-> kind, at |-> clock]]
  /\ UNCHANGED <<clock, retention, legacy, lock, disk, pc, locals>>

\* codex-radar config set retention_days: one writer, replaced atomically.
SetRetention(days) ==
  /\ retention' = days
  /\ UNCHANGED <<clock, rollout, legacy, lock, disk, pc, locals>>

-----------------------------------------------------------------------------
(* The lock *)

\* Mutant: the lock is taken shared.
AcquireLockShared(p) ==
  /\ Goto(p, "lock", "load")
  /\ lock' = p
  /\ UNCHANGED <<world, legacy, disk, locals>>

AcquireLock(p) ==
  /\ lock = NoProc
  /\ Goto(p, "lock", "load")
  /\ lock' = p
  /\ UNCHANGED <<world, legacy, disk, locals>>

\* Only the Windows branch of _state_lock has a deadline.
LockTimeout(p) ==
  /\ NativeWindows
  /\ lock # NoProc
  /\ Goto(p, "lock", "failed")
  /\ UNCHANGED <<world, legacy, lock, disk, locals>>

-----------------------------------------------------------------------------
(* save_sessions: write_text to the shared temporary name, then rename it *)

\* Mutant: sessions.json is rewritten in place.
OpenSessions(p) ==
  /\ Goto(p, "save", "write")
  /\ file' = Torn
  /\ tmp' = Holding(buf[p])
  /\ fd' = [fd EXCEPT ![p] = "file"]
  /\ UNCHANGED <<world, legacy, lock, locals>>

\* open(tmp, "w") creates the file or truncates the one that is there.
OpenTmp(p) ==
  /\ Goto(p, "save", "write")
  /\ tmp' = Torn
  /\ fd' = [fd EXCEPT ![p] = "tmp"]
  /\ UNCHANGED <<world, legacy, lock, file, locals>>

\* Writing from offset 0 over a longer text leaves the tail of that text.
Overwrites(old, new) ==
  {Holding(new)} \cup IF old.kind = "ok" THEN {Torn} ELSE {}

\* The handle writes to its file, under whatever name that file has by now.
WriteTmp(p) ==
  /\ Goto(p, "write", "replace")
  /\ \/ /\ fd[p] = "tmp"
        /\ tmp' \in Overwrites(tmp, buf[p])
        /\ UNCHANGED file
     \/ /\ fd[p] = "file"
        /\ file' \in Overwrites(file, buf[p])
        /\ UNCHANGED tmp
     \/ /\ fd[p] = "unlinked"
        /\ UNCHANGED <<file, tmp>>
  /\ fd' = [fd EXCEPT ![p] = "none"]
  /\ UNCHANGED <<world, legacy, lock, locals>>

\* A handle on the renamed file follows it; one on the file it replaced is
\* left with a file that has no name.
Renamed(handle) ==
  CASE handle = "tmp" -> "file"
    [] handle = "file" -> "unlinked"
    [] OTHER -> handle

ReplaceFile(p) ==
  /\ tmp.kind # "missing"
  /\ Goto(p, "replace", IF p \in Pruners THEN "cleanup" ELSE "unlock")
  /\ file' = tmp
  /\ tmp' = Missing
  /\ fd' = [q \in Procs |-> Renamed(fd[q])]
  /\ UNCHANGED <<world, legacy, lock, locals>>

\* The temporary file is gone: another process renamed it.  The error leaves
\* the with block, which releases the lock.
ReplaceMissing(p) ==
  /\ tmp.kind = "missing"
  /\ Goto(p, "replace", "failed")
  /\ lock' = IF lock = p THEN NoProc ELSE lock
  /\ Forget(p)
  /\ UNCHANGED <<world, legacy, disk>>

Save(p) == OpenTmp(p) \/ WriteTmp(p) \/ ReplaceFile(p) \/ ReplaceMissing(p)

-----------------------------------------------------------------------------
(* codex-radar hook: record_hook_event *)

\* normalize_event reads the clock before the hook asks for the lock.
Normalize(h, s, status) ==
  /\ SerialHooks => NoHookOf(s)
  /\ Goto(h, "idle", "lock")
  /\ event' = [event EXCEPT ![h] = [session |-> s, status |-> status, at |-> clock]]
  /\ UNCHANGED <<world, legacy, lock, disk, buf, todo, changed>>

\* update_session_cache up to save_sessions
UpdateCache(h) ==
  /\ Goto(h, "load", "save")
  /\ buf' = [buf EXCEPT ![h] = AfterHook(Loaded(file), event[h], retention)]
  /\ UNCHANGED <<world, legacy, lock, disk, event, todo, changed>>

\* Mutant: the lock is not released.
FinishHookLocked(h) ==
  /\ Goto(h, "unlock", "done")
  /\ legacy' = FALSE
  /\ Forget(h)
  /\ UNCHANGED <<world, lock, disk>>

\* Unlink events.jsonl and leave the with block.
FinishHook(h) ==
  /\ Goto(h, "unlock", "done")
  /\ lock' = NoProc
  /\ legacy' = FALSE
  /\ Forget(h)
  /\ UNCHANGED <<world, disk>>

Hook(h) ==
  \/ \E s \in Sessions, status \in HookStatuses : Normalize(h, s, status)
  \/ UpdateCache(h)
  \/ FinishHook(h)

-----------------------------------------------------------------------------
(* codex-radar reconcile, and each poll of codex-radar watch *)

StartReconcile(r) ==
  /\ Goto(r, "idle", "lock")
  /\ UNCHANGED <<world, legacy, lock, disk, locals>>

LoadReconcile(r) ==
  /\ Goto(r, "load", "scan")
  /\ buf' = [buf EXCEPT ![r] = Loaded(file)]
  /\ todo' = [todo EXCEPT ![r] = {s \in Sessions : Reconcilable(Loaded(file)[s])}]
  /\ changed' = [changed EXCEPT ![r] = FALSE]
  /\ UNCHANGED <<world, legacy, lock, disk, event>>

\* A rollout whose latest lifecycle event ended its turn is evidence.
Evidence(s) == rollout[s].kind \in {"task_complete", "turn_aborted"}

Examine(r, s) ==
  /\ pc[r] = "scan"
  /\ s \in todo[r]
  /\ todo' = [todo EXCEPT ![r] = @ \ {s}]
  /\ \/ /\ Evidence(s)
        /\ Supersedes(rollout[s].at, buf[r][s])
        /\ buf' = [buf EXCEPT ![r][s] =
                     Reconciled(@, StatusOf(rollout[s].kind), rollout[s].at)]
        /\ changed' = [changed EXCEPT ![r] = TRUE]
     \/ /\ ~(Evidence(s) /\ Supersedes(rollout[s].at, buf[r][s]))
        /\ UNCHANGED <<buf, changed>>
  /\ UNCHANGED <<world, legacy, lock, disk, pc, event>>

FinishScan(r) ==
  /\ todo[r] = {}
  /\ Goto(r, "scan", IF changed[r] THEN "save" ELSE "unlock")
  /\ UNCHANGED <<world, legacy, lock, disk, locals>>

\* watch comes back after its interval, so a reconciler is idle again.
FinishReconcile(r) ==
  /\ Goto(r, "unlock", "idle")
  /\ lock' = NoProc
  /\ Forget(r)
  /\ UNCHANGED <<world, legacy, disk>>

Reconciler(r) ==
  \/ StartReconcile(r)
  \/ LoadReconcile(r)
  \/ \E s \in Sessions : Examine(r, s)
  \/ FinishScan(r)
  \/ FinishReconcile(r)

-----------------------------------------------------------------------------
(* codex-radar prune: prune_sessions, which never takes the lock *)

\* The period is --retention-days, or else the configured one.
LoadPrune(p, days) ==
  LET kept == Pruned(Loaded(file), clock, days)
      removed == kept # Loaded(file)
  IN  /\ Goto(p, "idle", IF removed THEN "save" ELSE "cleanup")
      /\ buf' = [buf EXCEPT ![p] = kept]
      /\ changed' = [changed EXCEPT ![p] = removed]
      /\ UNCHANGED <<world, legacy, lock, disk, event, todo>>

FinishPrune(p) ==
  /\ Goto(p, "cleanup", "done")
  /\ legacy' = FALSE
  /\ Forget(p)
  /\ UNCHANGED <<world, lock, disk>>

Pruner(p) == (\E days \in Retentions : LoadPrune(p, days)) \/ FinishPrune(p)

-----------------------------------------------------------------------------

\* A process is killed: the kernel closes its handles and drops its lock.
Crash(p) ==
  /\ pc[p] \notin {"idle", "done", "failed", "dead"}
  /\ pc' = [pc EXCEPT ![p] = "dead"]
  /\ lock' = IF lock = p THEN NoProc ELSE lock
  /\ fd' = [fd EXCEPT ![p] = "none"]
  /\ Forget(p)
  /\ UNCHANGED <<world, legacy, file, tmp>>

World ==
  \/ Tick
  \/ \E s \in Transcribed, kind \in RolloutKinds : AppendRollout(s, kind)
  \/ \E days \in Retentions : SetRetention(days)

Next ==
  \/ World
  \/ \E p \in Hooks \cup Reconcilers : AcquireLock(p) \/ LockTimeout(p)
  \/ \E h \in Hooks : Hook(h)
  \/ \E r \in Reconcilers : Reconciler(r)
  \/ \E p \in Pruners : Pruner(p)
  \/ \E p \in Procs : Save(p) \/ Crash(p)

Spec == Init /\ [][Next]_vars

\* A running process is scheduled, and a process waiting for the lock gets it
\* in the end if it keeps becoming free: a watcher, the only process that comes
\* back to it, sleeps between polls.  Nothing is assumed of crashes, of new
\* invocations or of prune, nor of the order in which waiting processes get the
\* lock.
Fairness ==
  /\ \A p \in Hooks \cup Reconcilers : SF_vars(AcquireLock(p))
  /\ \A p \in Hooks \cup Reconcilers : WF_vars(Save(p))
  /\ \A h \in Hooks : WF_vars(UpdateCache(h) \/ FinishHook(h))
  /\ \A r \in Reconcilers :
       WF_vars(LoadReconcile(r) \/ (\E s \in Sessions : Examine(r, s))
               \/ FinishScan(r) \/ FinishReconcile(r))

FairSpec == Spec /\ Fairness
=============================================================================
