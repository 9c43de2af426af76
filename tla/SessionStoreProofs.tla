------------------------- MODULE SessionStoreProofs -------------------------
(***************************************************************************)
(* TLAPS proofs about the session store, for every set of processes and    *)
(* sessions.                                                               *)
(***************************************************************************)
EXTENDS SessionStoreProperties, TLAPS

-----------------------------------------------------------------------------
(* The functions of store.py and reconcile.py map entries to entries *)

\* The stamp of a moment is its whole second: it is less than a second earlier,
\* is its own stamp, and does not go back while time passes.
LEMMA StampIs ==
  ASSUME NEW t \in Nat
  PROVE  /\ Stamp(t) \in Nat /\ Stamp(t) <= t /\ t < Stamp(t) + Second
         /\ Stamp(Stamp(t)) = Stamp(t)
         /\ \A u \in Nat : t <= u => Stamp(t) <= Stamp(u)
<1>1. Second \in Nat /\ Second > 0
  BY SecondAssumption
<1>2. \A x \in Nat : /\ x % Second \in 0 .. Second - 1 /\ x \div Second \in Nat
                     /\ x = Second * (x \div Second) + (x % Second)
  BY <1>1
<1>3. \A x \in Nat : Stamp(x) = Second * (x \div Second)
  BY <1>1, <1>2 DEF Stamp
<1>4. \A x \in Nat : Stamp(x) \in Nat /\ Stamp(x) <= x /\ x < Stamp(x) + Second
  BY <1>1, <1>2 DEF Stamp
<1>5. ASSUME NEW u \in Nat, t <= u PROVE Stamp(t) <= Stamp(u)
  <2>1. ASSUME NEW m \in Nat, NEW n \in Nat, m > n PROVE Second * m >= Second * n + Second
    <3>1. m >= n + 1 /\ Second * (n + 1) = Second * n + Second
      BY <1>1, <2>1
    <3>2. Second * m >= Second * (n + 1)
      BY <1>1, <3>1
    <3>3. QED
      BY <3>1, <3>2
  <2>2. t \div Second <= u \div Second
    <3>1. SUFFICES ASSUME t \div Second > u \div Second PROVE FALSE
      BY <1>2
    <3>2. Stamp(t) >= Stamp(u) + Second
      BY <1>2, <1>3, <2>1, <3>1
    <3>3. QED
      BY <1>1, <1>4, <1>5, <3>2
  <2>3. QED
    BY <1>1, <1>2, <1>3, <2>2
<1>6. Stamp(Stamp(t)) = Stamp(t)
  <2>1. Stamp(Stamp(t)) <= Stamp(t)
    BY <1>4
  <2>2. Stamp(t) = Second * (t \div Second)
    BY <1>3
  <2>3. Stamp(t) % Second = 0
    BY <1>1, <1>2, <2>2
  <2>4. QED
    BY <1>4, <2>3 DEF Stamp
<1>7. QED
  BY <1>4, <1>5, <1>6

\* Merging an event gives an entry, whether or not the session was known.
LEMMA MergedType ==
  ASSUME NEW previous \in Entry \cup {NoSession}, NEW e \in Event
  PROVE  Merged(previous, e) \in Entry
  BY NoSessionAssumption, StampIs DEF Merged, Entry, Event, Time

\* Pruning an index gives an index.
LEMMA PrunedType ==
  ASSUME NEW index \in Index, NEW now, NEW days
  PROVE  Pruned(index, now, days) \in Index
  BY DEF Pruned, Index

\* What a hook saves is an index.
LEMMA AfterHookType ==
  ASSUME NEW index \in Index, NEW e \in Event, NEW days
  PROVE  AfterHook(index, e, days) \in Index
<1>1. e.session \in Sessions
  BY DEF Event
<1>2. Merged(index[e.session], e) \in Entry
  BY <1>1, MergedType DEF Index
<1>3. [index EXCEPT ![e.session] = Merged(@, e)] \in Index
  BY <1>1, <1>2 DEF Index
<1>4. QED
  BY <1>3, PrunedType DEF AfterHook

\* Applying evidence to an entry gives an entry.
LEMMA ReconciledType ==
  ASSUME NEW entry \in Entry, NEW status \in Status, NEW at \in Time
  PROVE  Reconciled(entry, status, at) \in Entry
  BY DEF Reconciled, Entry

\* Whatever is on the disk, load_sessions returns an index.
LEMMA LoadedType ==
  ASSUME NEW contents \in Contents
  PROVE  Loaded(contents) \in Index
  BY DEF Loaded, Contents, EmptyIndex, Index

LEMMA ContentsType ==
  /\ EmptyIndex \in Index
  /\ Missing \in Contents
  /\ Torn \in Contents
  /\ \A index \in Index : Holding(index) \in Contents
  BY DEF EmptyIndex, Index, Missing, Torn, Holding, Contents

LEMMA OverwritesType ==
  ASSUME NEW old \in Contents, NEW new \in Index, NEW result \in Overwrites(old, new)
  PROVE  result \in Contents
  BY ContentsType DEF Overwrites

-----------------------------------------------------------------------------
(* Types.  A reconciler builds an entry from one it holds, so the types are *)
(* inductive only together with what it has yet to examine.                 *)

\* Every session a reconciler has yet to examine looked active when it loaded.
TodoLooksActive ==
  \A r \in Reconcilers : \A s \in todo[r] : Reconcilable(buf[r][s])

TypeInv == TypeOK /\ TodoLooksActive

LEMMA TypeInit == Init => TypeInv
<1> SUFFICES ASSUME Init PROVE TypeInv
  OBVIOUS
<1>1. NoEvent \in Event
  BY SessionsAssumption DEF NoEvent, Event, Status, Time
<1>2. TypeOK
  BY <1>1, ContentsType DEF Init, TypeOK, Procs, PC, LifecycleKind, Time
<1>3. TodoLooksActive
  BY DEF Init, TodoLooksActive
<1>4. QED
  BY <1>2, <1>3 DEF TypeInv

\* The lock operations and the start of a poll move one process and the lock.
LEMMA TypeLock ==
  ASSUME TypeInv, NEW p \in Hooks \cup Reconcilers,
         AcquireLock(p) \/ LockTimeout(p) \/ StartReconcile(p) \/ FinishScan(p)
  PROVE  TypeInv'
<1>1. TypeOK'
  BY DEF TypeInv, TypeOK, AcquireLock, LockTimeout, StartReconcile, FinishScan, Goto,
         PC, Procs, world, disk, locals
<1>2. TodoLooksActive'
  BY DEF TypeInv, TodoLooksActive, AcquireLock, LockTimeout, StartReconcile, FinishScan,
         locals
<1>3. QED
  BY <1>1, <1>2 DEF TypeInv

LEMMA TypeWorld == ASSUME TypeInv, World PROVE TypeInv'
<1>1. TypeOK'
  <2>1. CASE Tick
    BY <2>1 DEF TypeInv, TypeOK, Tick, Time, disk, locals
  <2>2. CASE \E s \in Transcribed, kind \in RolloutKinds : AppendRollout(s, kind)
    BY <2>2, StoreAssumption
    DEF TypeInv, TypeOK, AppendRollout, LifecycleKind, disk, locals
  <2>3. CASE \E days \in Retentions : SetRetention(days)
    BY <2>3 DEF TypeInv, TypeOK, SetRetention, disk, locals
  <2>4. QED
    BY <2>1, <2>2, <2>3 DEF World
<1>2. TodoLooksActive'
  BY DEF World, Tick, AppendRollout, SetRetention, TypeInv, TodoLooksActive, locals
<1>3. QED
  BY <1>1, <1>2 DEF TypeInv

\* A process that forgets its memory leaves the others' alone.
LEMMA ForgetType ==
  ASSUME TypeInv, NEW p \in Procs, Forget(p)
  PROVE  /\ buf' \in [Procs -> Index]
         /\ todo' \in [Reconcilers -> SUBSET Sessions]
         /\ changed' \in [Procs -> BOOLEAN]
         /\ event' \in [Hooks -> Event]
         /\ TodoLooksActive'
<1>1. buf' \in [Procs -> Index]
  BY ContentsType DEF TypeInv, TypeOK, Forget
<1>2. todo' \in [Reconcilers -> SUBSET Sessions]
  BY DEF TypeInv, TypeOK, Forget
<1>3. changed' \in [Procs -> BOOLEAN] /\ event' \in [Hooks -> Event]
  BY DEF TypeInv, TypeOK, Forget
<1>4. TodoLooksActive'
  BY DEF TypeInv, TypeOK, TodoLooksActive, Forget, Procs
<1>5. QED
  BY <1>1, <1>2, <1>3, <1>4

LEMMA TypeSave == ASSUME TypeInv, NEW p \in Procs, Save(p) PROVE TypeInv'
<1>1. CASE OpenTmp(p)
  <2>1. TypeOK'
    BY <1>1, ContentsType DEF TypeInv, TypeOK, OpenTmp, Goto, PC, world, locals
  <2>2. TodoLooksActive'
    BY <1>1 DEF TypeInv, TodoLooksActive, OpenTmp, locals
  <2>3. QED
    BY <2>1, <2>2 DEF TypeInv
<1>2. CASE WriteTmp(p)
  <2>1. file' \in Contents /\ tmp' \in Contents
    BY <1>2, OverwritesType DEF TypeInv, TypeOK, WriteTmp
  <2>2. TypeOK'
    BY <1>2, <2>1 DEF TypeInv, TypeOK, WriteTmp, Goto, PC, world, locals
  <2>3. TodoLooksActive'
    BY <1>2 DEF TypeInv, TodoLooksActive, WriteTmp, locals
  <2>4. QED
    BY <2>2, <2>3 DEF TypeInv
<1>3. CASE ReplaceFile(p)
  <2>1. fd' \in [Procs -> {"none", "tmp", "file", "unlinked"}]
    <3>1. \A q \in Procs : Renamed(fd[q]) \in {"none", "tmp", "file", "unlinked"}
      BY DEF TypeInv, TypeOK, Renamed
    <3>2. QED
      BY <1>3, <3>1 DEF ReplaceFile
  <2>2. pc' \in [Procs -> PC]
    BY <1>3 DEF TypeInv, TypeOK, ReplaceFile, Goto, PC
  <2>3. TypeOK'
    BY <1>3, <2>1, <2>2, ContentsType DEF TypeInv, TypeOK, ReplaceFile, world, locals
  <2>4. TodoLooksActive'
    BY <1>3 DEF TypeInv, TodoLooksActive, ReplaceFile, locals
  <2>5. QED
    BY <2>3, <2>4 DEF TypeInv
<1>4. CASE ReplaceMissing(p)
  <2>1. TypeOK'
    BY <1>4, ForgetType DEF TypeInv, TypeOK, ReplaceMissing, Goto, PC, world, disk
  <2>2. TodoLooksActive'
    BY <1>4, ForgetType DEF ReplaceMissing
  <2>3. QED
    BY <2>1, <2>2 DEF TypeInv
<1>5. QED
  BY <1>1, <1>2, <1>3, <1>4 DEF Save

LEMMA TypeHook == ASSUME TypeInv, NEW h \in Hooks, Hook(h) PROVE TypeInv'
<1>1. CASE \E s \in Sessions, status \in HookStatuses : Normalize(h, s, status)
  <2>1. event' \in [Hooks -> Event]
    BY <1>1, StoreAssumption DEF TypeInv, TypeOK, Normalize, Event, Time
  <2>2. TypeOK'
    BY <1>1, <2>1 DEF TypeInv, TypeOK, Normalize, Goto, PC, world, disk
  <2>3. TodoLooksActive'
    BY <1>1 DEF TypeInv, TodoLooksActive, Normalize
  <2>4. QED
    BY <2>2, <2>3 DEF TypeInv
<1>2. CASE UpdateCache(h)
  <2>1. AfterHook(Loaded(file), event[h], retention) \in Index
    BY LoadedType, AfterHookType DEF TypeInv, TypeOK
  <2>2. TypeOK'
    BY <1>2, <2>1 DEF TypeInv, TypeOK, UpdateCache, Goto, PC, Procs, world, disk
  <2>3. TodoLooksActive'
    BY <1>2, ProcsAssumption DEF TypeInv, TypeOK, TodoLooksActive, UpdateCache, Procs
  <2>4. QED
    BY <2>2, <2>3 DEF TypeInv
<1>3. CASE FinishHook(h)
  <2>1. h \in Procs
    BY DEF Procs
  <2>2. TypeOK'
    BY <1>3, <2>1, ForgetType DEF TypeInv, TypeOK, FinishHook, Goto, PC, world, disk
  <2>3. TodoLooksActive'
    BY <1>3, <2>1, ForgetType DEF FinishHook
  <2>4. QED
    BY <2>2, <2>3 DEF TypeInv
<1>4. QED
  BY <1>1, <1>2, <1>3 DEF Hook

LEMMA TypeReconciler == ASSUME TypeInv, NEW r \in Reconcilers, Reconciler(r) PROVE TypeInv'
<1>1. CASE StartReconcile(r) \/ FinishScan(r)
  BY <1>1, TypeLock
<1>2. CASE LoadReconcile(r)
  <2>1. Loaded(file) \in Index
    BY LoadedType DEF TypeInv, TypeOK
  <2>2. TypeOK'
    BY <1>2, <2>1 DEF TypeInv, TypeOK, LoadReconcile, Goto, PC, Procs, world, disk
  <2>3. TodoLooksActive'
    BY <1>2, <2>1 DEF TypeInv, TypeOK, TodoLooksActive, LoadReconcile, Procs
  <2>4. QED
    BY <2>2, <2>3 DEF TypeInv
<1>3. CASE \E s \in Sessions : Examine(r, s)
  <2>1. PICK s \in Sessions : Examine(r, s)
    BY <1>3
  <2>2. buf[r] \in Index /\ buf[r][s] \in Entry
    BY <2>1 DEF TypeInv, TypeOK, TodoLooksActive, Examine, Reconcilable, Procs, Index
  <2>3. rollout[s].at \in Time /\ StatusOf(rollout[s].kind) \in Status
    BY DEF TypeInv, TypeOK, StatusOf, Status
  <2>4. Reconciled(buf[r][s], StatusOf(rollout[s].kind), rollout[s].at) \in Entry
    BY <2>2, <2>3, ReconciledType
  <2>5. buf' \in [Procs -> Index]
    <3> DEFINE corrected ==
          Reconciled(buf[r][s], StatusOf(rollout[s].kind), rollout[s].at)
    <3>1. [buf[r] EXCEPT ![s] = corrected] \in Index
      BY <2>2, <2>4 DEF Index
    <3>2. \/ buf' = [buf EXCEPT ![r] = [buf[r] EXCEPT ![s] = corrected]]
          \/ buf' = buf
      BY <2>1 DEF Examine
    <3>3. buf \in [Procs -> Index]
      BY DEF TypeInv, TypeOK
    <3>4. QED
      BY <3>1, <3>2, <3>3
  <2>6. /\ todo' \in [Reconcilers -> SUBSET Sessions]
        /\ changed' \in [Procs -> BOOLEAN]
    BY <2>1 DEF TypeInv, TypeOK, Examine
  <2>7. TypeOK'
    BY <2>1, <2>5, <2>6 DEF TypeInv, TypeOK, Examine, world, disk
  <2>8. TodoLooksActive'
    <3> SUFFICES ASSUME NEW q \in Reconcilers, NEW u \in todo'[q]
                 PROVE  Reconcilable(buf'[q][u])
      BY DEF TodoLooksActive
    <3>1. u \in todo[q] /\ u \in Sessions
      BY <2>1 DEF TypeInv, TypeOK, Examine
    <3>2. buf'[q][u] = buf[q][u]
      BY <2>1, <2>2, <3>1 DEF TypeInv, TypeOK, Examine, Procs, Index
    <3>3. QED
      BY <3>1, <3>2 DEF TypeInv, TodoLooksActive
  <2>9. QED
    BY <2>7, <2>8 DEF TypeInv
<1>4. CASE FinishReconcile(r)
  <2>1. r \in Procs
    BY DEF Procs
  <2>2. TypeOK'
    BY <1>4, <2>1, ForgetType DEF TypeInv, TypeOK, FinishReconcile, Goto, PC, world, disk
  <2>3. TodoLooksActive'
    BY <1>4, <2>1, ForgetType DEF FinishReconcile
  <2>4. QED
    BY <2>2, <2>3 DEF TypeInv
<1>5. QED
  BY <1>1, <1>2, <1>3, <1>4 DEF Reconciler

LEMMA TypePruner == ASSUME TypeInv, NEW p \in Pruners, Pruner(p) PROVE TypeInv'
<1>1. CASE \E days \in Retentions : LoadPrune(p, days)
  <2>1. PICK days \in Retentions : LoadPrune(p, days)
    BY <1>1
  <2>2. Pruned(Loaded(file), clock, days) \in Index
    BY LoadedType, PrunedType DEF TypeInv, TypeOK
  <2>3. TypeOK'
    BY <2>1, <2>2 DEF TypeInv, TypeOK, LoadPrune, Goto, PC, Procs, world, disk
  <2>4. TodoLooksActive'
    BY <2>1, ProcsAssumption DEF TypeInv, TypeOK, TodoLooksActive, LoadPrune, Procs
  <2>5. QED
    BY <2>3, <2>4 DEF TypeInv
<1>2. CASE FinishPrune(p)
  <2>1. p \in Procs
    BY DEF Procs
  <2>2. TypeOK'
    BY <1>2, <2>1, ForgetType DEF TypeInv, TypeOK, FinishPrune, Goto, PC, world, disk
  <2>3. TodoLooksActive'
    BY <1>2, <2>1, ForgetType DEF FinishPrune
  <2>4. QED
    BY <2>2, <2>3 DEF TypeInv
<1>3. QED
  BY <1>1, <1>2 DEF Pruner

LEMMA TypeCrash == ASSUME TypeInv, NEW p \in Procs, Crash(p) PROVE TypeInv'
<1>1. TypeOK'
  BY ForgetType DEF TypeInv, TypeOK, Crash, PC, world
<1>2. TodoLooksActive'
  BY ForgetType DEF Crash
<1>3. QED
  BY <1>1, <1>2 DEF TypeInv

LEMMA TypeNext == TypeInv /\ [Next]_vars => TypeInv'
<1> SUFFICES ASSUME TypeInv, [Next]_vars PROVE TypeInv'
  OBVIOUS
<1>1. CASE UNCHANGED vars
  BY <1>1 DEF vars, world, disk, locals, TypeInv, TypeOK, TodoLooksActive
<1>2. CASE Next
  BY <1>2, TypeWorld, TypeLock, TypeHook, TypeReconciler, TypePruner, TypeSave, TypeCrash
  DEF Next
<1>3. QED
  BY <1>1, <1>2

\* Every reachable state is well typed, with any number of hooks, reconcilers
\* and prunes, whatever their interleaving and wherever they are killed.
THEOREM TypeCorrect == Spec => []TypeOK
<1>1. TypeInv => TypeOK
  BY DEF TypeInv
<1>2. QED
  BY <1>1, TypeInit, TypeNext, PTL DEF Spec

-----------------------------------------------------------------------------
(* The lock.  LockExclusive is inductive given the types.                   *)

LEMMA LockInit == Init => LockExclusive
  BY DEF Init, LockExclusive, Critical, Procs

\* A process that leaves its critical section holds the lock, so no other
\* process is in its own; a pruner is never in one.
LEMMA LockNext == TypeOK /\ LockExclusive /\ [Next]_vars => LockExclusive'
<1> SUFFICES ASSUME TypeOK, LockExclusive, [Next]_vars,
                    NEW q \in Hooks \cup Reconcilers, pc'[q] \in Critical
             PROVE  lock' = q
  BY DEF LockExclusive
<1> USE DEF TypeOK, LockExclusive, Critical, Goto, Procs
<1>1. CASE UNCHANGED vars \/ World
  BY <1>1 DEF vars, World, Tick, AppendRollout, SetRetention
<1>2. ASSUME NEW p \in Hooks \cup Reconcilers, AcquireLock(p) \/ LockTimeout(p)
      PROVE  lock' = q
  BY <1>2, ProcsAssumption DEF AcquireLock, LockTimeout
<1>3. ASSUME NEW h \in Hooks, Hook(h) PROVE lock' = q
  BY <1>3 DEF Hook, Normalize, UpdateCache, FinishHook
<1>4. ASSUME NEW r \in Reconcilers, Reconciler(r) PROVE lock' = q
  BY <1>4
  DEF Reconciler, StartReconcile, LoadReconcile, Examine, FinishScan, FinishReconcile
<1>5. ASSUME NEW p \in Pruners, Pruner(p) PROVE lock' = q
  BY <1>5, ProcsAssumption DEF Pruner, LoadPrune, FinishPrune
<1>6. ASSUME NEW p \in Procs, Save(p) PROVE lock' = q
  BY <1>6 DEF Save, OpenTmp, WriteTmp, ReplaceFile, ReplaceMissing
<1>7. ASSUME NEW p \in Procs, Crash(p) PROVE lock' = q
  BY <1>7 DEF Crash
<1>8. QED
  BY <1>1, <1>2, <1>3, <1>4, <1>5, <1>6, <1>7 DEF Next

\* Two processes that take the lock are never between their load and their
\* rename at once, even beside codex-radar prune.
THEOREM LockExclusion == Spec => []LockExclusive
  BY LockInit, LockNext, TypeCorrect, PTL DEF Spec

-----------------------------------------------------------------------------
(* Without a concurrent codex-radar prune, the lock holder is the only one  *)
(* that touches the temporary file or the index.                            *)

\* What a save has on the disk at each of its points.
SaveInv ==
  /\ file.kind # "torn"
  /\ \A p \in Procs :
       /\ fd[p] = IF pc[p] = "write" THEN "tmp" ELSE "none"
       /\ pc[p] = "write" => tmp = Torn
       /\ pc[p] = "replace" => tmp = Holding(buf[p])

LEMMA SaveInit == Init => SaveInv
  BY DEF Init, SaveInv, Missing

LEMMA SaveNext ==
  ASSUME Pruners = {}, TypeInv, LockExclusive, SaveInv, [Next]_vars
  PROVE  SaveInv'
<1> USE DEF TypeInv, TypeOK, SaveInv, Goto
<1>0. \A p, q \in Procs : pc[p] \in Critical /\ pc[q] \in Critical => p = q
  BY DEF LockExclusive, Procs
<1>1. CASE UNCHANGED vars \/ World
  BY <1>1 DEF vars, disk, locals, World, Tick, AppendRollout, SetRetention
<1>2. ASSUME NEW p \in Hooks \cup Reconcilers, AcquireLock(p) \/ LockTimeout(p)
      PROVE  SaveInv'
  BY <1>2 DEF AcquireLock, LockTimeout, disk, locals, Procs
<1>3. ASSUME NEW h \in Hooks, Hook(h) PROVE SaveInv'
  <2>1. h \in Procs
    BY DEF Procs
  <2>2. QED
    BY <1>3, <2>1 DEF Hook, Normalize, UpdateCache, FinishHook, Forget, disk
<1>4. ASSUME NEW r \in Reconcilers, Reconciler(r) PROVE SaveInv'
  <2>1. r \in Procs
    BY DEF Procs
  <2>2. QED
    BY <1>4, <2>1
    DEF Reconciler, StartReconcile, LoadReconcile, Examine, FinishScan, FinishReconcile,
        Forget, disk, locals
<1>5. ASSUME NEW p \in Procs, Save(p) PROVE SaveInv'
  <2>1. CASE OpenTmp(p)
    BY <1>0, <2>1 DEF OpenTmp, locals, Critical
  <2>2. CASE WriteTmp(p)
    <3>1. tmp' = Holding(buf[p]) /\ UNCHANGED file
      BY <2>2 DEF WriteTmp, Overwrites, Torn
    <3>2. QED
      BY <1>0, <2>2, <3>1 DEF WriteTmp, locals, Critical
  <2>3. CASE ReplaceFile(p)
    <3>1. file' = Holding(buf[p])
      BY <2>3 DEF ReplaceFile
    <3>2. \A q \in Procs : fd'[q] = "none" /\ pc'[q] \notin {"write", "replace"}
      BY <1>0, <2>3 DEF ReplaceFile, Renamed, Critical
    <3>3. QED
      BY <3>1, <3>2 DEF Holding
  <2>4. CASE ReplaceMissing(p)
    BY <2>4 DEF ReplaceMissing, Holding
  <2>5. QED
    BY <1>5, <2>1, <2>2, <2>3, <2>4 DEF Save
<1>6. ASSUME NEW p \in Procs, Crash(p) PROVE SaveInv'
  BY <1>6 DEF Crash, Forget
<1>7. QED
  BY <1>1, <1>2, <1>3, <1>4, <1>5, <1>6 DEF Next

\* Without prune beside them, hooks and reconcilers killed at any point never
\* leave a truncated sessions.json behind: only complete files are renamed.
THEOREM IndexStaysReadable == Pruners = {} => (Spec => []IndexReadable)
<1> SUFFICES ASSUME Pruners = {} PROVE Spec => []IndexReadable
  OBVIOUS
<1>1. Init => TypeInv /\ LockExclusive /\ SaveInv
  BY TypeInit, LockInit, SaveInit
<1>2. TypeInv /\ LockExclusive /\ SaveInv /\ [Next]_vars
        => (TypeInv /\ LockExclusive /\ SaveInv)'
  BY TypeNext, LockNext, SaveNext DEF TypeInv
<1>3. SaveInv => IndexReadable
  BY DEF SaveInv, IndexReadable
<1>4. QED
  BY <1>1, <1>2, <1>3, PTL DEF Spec

-----------------------------------------------------------------------------
(* Refinement: without prune, every rename is one step of SessionIndex.     *)

\* An entry a reconciler may save for an entry of the current index.
Corrected(old, new) ==
  \/ new = old
  \/ \E status \in TerminalStatus, at \in 0 .. clock :
        Reconcilable(old) /\ Supersedes(at, old) /\ new = Reconciled(old, status, at)

\* Stamps are in the past; what a lock holder has in memory was computed from
\* the index that is still the current one.
HookWork == {"save", "write", "replace"}
ReconcileWork == {"scan", "save", "write", "replace"}

WorkInv ==
  /\ \A h \in Hooks : event[h].at <= clock
  /\ \A s \in Sessions : rollout[s].at <= clock
  /\ \A h \in Hooks : pc[h] \in HookWork =>
       \E days \in Retentions : buf[h] = AfterHook(CurrentIndex, event[h], days)
  /\ \A r \in Reconcilers : pc[r] \in ReconcileWork =>
       \A s \in Sessions :
         /\ Corrected(CurrentIndex[s], buf[r][s])
         /\ s \in todo[r] => buf[r][s] = CurrentIndex[s]

LEMMA WorkInit == Init => WorkInv
<1> SUFFICES ASSUME Init PROVE WorkInv
  OBVIOUS
<1>1. \A h \in Hooks : event[h].at <= clock
  BY DEF Init, NoEvent
<1>2. \A s \in Sessions : rollout[s].at <= clock
  BY DEF Init
<1>3. QED
  BY <1>1, <1>2 DEF Init, WorkInv, HookWork, ReconcileWork, Procs

\* As time passes, a reconciler may correct an entry as it could before.
LEMMA CorrectedLater ==
  ASSUME clock \in Nat, clock' \in Nat, clock <= clock', NEW old, NEW new,
         Corrected(old, new)
  PROVE  \/ new = old
         \/ \E status \in TerminalStatus, at \in 0 .. clock' :
              Reconcilable(old) /\ Supersedes(at, old) /\ new = Reconciled(old, status, at)
<1>1. 0 .. clock \subseteq 0 .. clock'
  OBVIOUS
<1>2. QED
  BY <1>1 DEF Corrected

\* A step that changes neither the index nor the memory of a process at work,
\* and puts no process to work, preserves WorkInv.
LEMMA WorkKept ==
  ASSUME TypeOK, TypeOK', WorkInv, clock' >= clock, UNCHANGED <<event, file>>,
         \A s \in Sessions : rollout'[s].at <= clock',
         \A h \in Hooks : pc'[h] \in HookWork => pc[h] \in HookWork /\ buf'[h] = buf[h],
         \A r \in Reconcilers : pc'[r] \in ReconcileWork =>
            pc[r] \in ReconcileWork /\ buf'[r] = buf[r] /\ todo'[r] \subseteq todo[r]
  PROVE  WorkInv'
<1>1. CurrentIndex' = CurrentIndex
  BY DEF CurrentIndex
<1>2. \A h \in Hooks : event'[h].at <= clock'
  BY DEF WorkInv, TypeOK, Event, Time
<1>3. ASSUME NEW h \in Hooks, pc'[h] \in HookWork
      PROVE  \E days \in Retentions : buf'[h] = AfterHook(CurrentIndex', event'[h], days)
  BY <1>1, <1>3 DEF WorkInv
<1>4. ASSUME NEW r \in Reconcilers, pc'[r] \in ReconcileWork, NEW s \in Sessions
      PROVE  /\ Corrected(CurrentIndex[s], buf[r][s])'
             /\ s \in todo'[r] => buf'[r][s] = CurrentIndex'[s]
  <2>1. /\ Corrected(CurrentIndex[s], buf[r][s])
        /\ s \in todo[r] => buf[r][s] = CurrentIndex[s]
    BY <1>4 DEF WorkInv
  <2>2. Corrected(CurrentIndex[s], buf[r][s])'
    BY <1>1, <1>4, <2>1, CorrectedLater DEF Corrected, TypeOK, Time
  <2>3. QED
    BY <1>1, <1>4, <2>1, <2>2
<1>5. QED
  BY <1>1, <1>2, <1>3, <1>4 DEF WorkInv

LEMMA WorkHook ==
  ASSUME TypeOK, TypeOK', WorkInv, NEW h \in Hooks, Hook(h)
  PROVE  WorkInv'
<1> USE ProcsAssumption DEF TypeOK, Goto, Procs, HookWork, ReconcileWork
<1>1. CASE \E s \in Sessions, status \in HookStatuses : Normalize(h, s, status)
  <2>1. /\ UNCHANGED <<clock, rollout, file, buf, todo>>
        /\ \A p \in Procs : pc'[p] \in ReconcileWork => pc[p] = pc'[p] /\ p # h
    BY <1>1 DEF Normalize, world, disk
  <2>2. \A g \in Hooks : g # h => event'[g] = event[g]
    BY <1>1 DEF Normalize
  <2>3. event'[h].at = clock
    BY <1>1 DEF Normalize
  <2>4. clock <= clock
    BY DEF Time
  <2>5. \A g \in Hooks : event'[g].at <= clock'
    BY <2>1, <2>2, <2>3, <2>4 DEF WorkInv
  <2>6. CurrentIndex' = CurrentIndex
    BY <2>1 DEF CurrentIndex
  <2>7. \A g \in Hooks : pc'[g] \in HookWork =>
          \E days \in Retentions : buf'[g] = AfterHook(CurrentIndex', event'[g], days)
    BY <2>1, <2>2, <2>6 DEF WorkInv
  <2>8. QED
    BY <2>1, <2>5, <2>6, <2>7 DEF WorkInv, Corrected
<1>2. CASE UpdateCache(h)
  <2>1. UNCHANGED <<clock, rollout, retention, file, event, todo>>
    BY <1>2 DEF UpdateCache, world, disk
  <2>2. CurrentIndex' = CurrentIndex
    BY <2>1 DEF CurrentIndex
  <2>3. buf'[h] = AfterHook(CurrentIndex', event'[h], retention)
    BY <1>2, <2>1, <2>2 DEF UpdateCache, CurrentIndex
  <2>4. \A p \in Procs : p # h => buf'[p] = buf[p] /\ pc'[p] = pc[p]
    BY <1>2 DEF UpdateCache
  <2>5. \A g \in Hooks : pc'[g] \in HookWork =>
          \E days \in Retentions : buf'[g] = AfterHook(CurrentIndex', event'[g], days)
    BY <2>1, <2>2, <2>3, <2>4 DEF WorkInv
  <2>6. \A r \in Reconcilers : buf'[r] = buf[r] /\ pc'[r] = pc[r]
    BY <2>4
  <2>7. QED
    BY <2>1, <2>2, <2>5, <2>6 DEF WorkInv, Corrected
<1>3. CASE FinishHook(h)
  <2>1. UNCHANGED <<clock, rollout, event, file>>
    BY <1>3 DEF FinishHook, Forget, world, disk
  <2>2. \A g \in Hooks : pc'[g] \in HookWork => pc[g] \in HookWork /\ buf'[g] = buf[g]
    BY <1>3 DEF FinishHook, Forget
  <2>3. \A r \in Reconcilers : pc'[r] \in ReconcileWork =>
          pc[r] \in ReconcileWork /\ buf'[r] = buf[r] /\ todo'[r] \subseteq todo[r]
    BY <1>3 DEF FinishHook, Forget
  <2>4. clock' >= clock /\ \A s \in Sessions : rollout'[s].at <= clock'
    BY <2>1 DEF WorkInv, Time
  <2>5. QED
    BY <2>1, <2>2, <2>3, <2>4, WorkKept
<1>4. QED
  BY <1>1, <1>2, <1>3 DEF Hook

LEMMA WorkReconciler ==
  ASSUME TypeInv, TypeOK', WorkInv, NEW r \in Reconcilers, Reconciler(r)
  PROVE  WorkInv'
<1> USE ProcsAssumption DEF TypeInv, TypeOK, Goto, Procs, HookWork, ReconcileWork
<1>0. UNCHANGED <<clock, rollout, event, file>>
  BY DEF Reconciler, StartReconcile, LoadReconcile, Examine, FinishScan, FinishReconcile,
         Forget, world, disk, locals
<1>1. CurrentIndex' = CurrentIndex
  BY <1>0 DEF CurrentIndex
<1>2. clock' >= clock /\ \A s \in Sessions : rollout'[s].at <= clock'
  BY <1>0 DEF WorkInv, Time
<1>3. CASE StartReconcile(r) \/ FinishScan(r) \/ FinishReconcile(r)
  <2>1. \A g \in Hooks : pc'[g] \in HookWork => pc[g] \in HookWork /\ buf'[g] = buf[g]
    BY <1>3 DEF StartReconcile, FinishScan, FinishReconcile, Forget, locals
  <2>2. \A q \in Reconcilers : pc'[q] \in ReconcileWork =>
          pc[q] \in ReconcileWork /\ buf'[q] = buf[q] /\ todo'[q] \subseteq todo[q]
    BY <1>3 DEF StartReconcile, FinishScan, FinishReconcile, Forget, locals
  <2>3. QED
    BY <1>0, <1>2, <2>1, <2>2, WorkKept
<1>4. CASE LoadReconcile(r)
  <2>1. buf'[r] = CurrentIndex
    BY <1>4 DEF LoadReconcile, CurrentIndex
  <2>2. \A p \in Procs : p # r => buf'[p] = buf[p] /\ pc'[p] = pc[p]
    BY <1>4 DEF LoadReconcile
  <2>3. \A q \in Reconcilers : q # r => todo'[q] = todo[q]
    BY <1>4 DEF LoadReconcile
  <2>4. QED
    BY <1>0, <1>1, <1>2, <2>1, <2>2, <2>3 DEF WorkInv, Corrected
<1>5. CASE \E s \in Sessions : Examine(r, s)
  <2>1. PICK s \in Sessions : Examine(r, s)
    BY <1>5
  <2>2. /\ UNCHANGED pc
        /\ pc[r] = "scan"
        /\ s \in todo[r]
        /\ todo'[r] = todo[r] \ {s}
        /\ \A q \in Reconcilers : q # r => todo'[q] = todo[q]
    BY <2>1 DEF Examine
  <2>3. \A p \in Procs : p # r => buf'[p] = buf[p]
    BY <2>1 DEF Examine
  <2>4. buf[r] \in Index
    OBVIOUS
  <2>5. \A u \in Sessions : u # s => buf'[r][u] = buf[r][u]
    BY <2>1, <2>4 DEF Examine, Index
  <2>6. buf[r][s] = CurrentIndex[s] /\ Reconcilable(CurrentIndex[s])
    BY <2>2 DEF WorkInv, TodoLooksActive
  <2>7. \/ buf'[r][s] = buf[r][s]
        \/ /\ Supersedes(rollout[s].at, buf[r][s])
           /\ buf'[r][s] = Reconciled(buf[r][s], StatusOf(rollout[s].kind), rollout[s].at)
    BY <2>1, <2>4 DEF Examine, Index
  <2>8. StatusOf(rollout[s].kind) \in TerminalStatus /\ rollout[s].at \in 0 .. clock
    BY DEF StatusOf, TerminalStatus, WorkInv, Time
  <2>9. Corrected(CurrentIndex[s], buf'[r][s])
    BY <2>6, <2>7, <2>8 DEF Corrected
  <2>10. \A u \in Sessions :
          /\ Corrected(CurrentIndex[u], buf'[r][u])
          /\ u \in todo'[r] => buf'[r][u] = CurrentIndex[u]
    BY <2>2, <2>5, <2>9 DEF WorkInv
  <2>11. QED
    BY <1>0, <1>1, <2>2, <2>3, <2>10 DEF WorkInv, Corrected
<1>6. QED
  BY <1>3, <1>4, <1>5 DEF Reconciler

LEMMA WorkSave ==
  ASSUME Pruners = {}, TypeOK, TypeOK', LockExclusive, SaveInv, WorkInv,
         NEW p \in Procs, Save(p) \/ Crash(p)
  PROVE  WorkInv'
<1> USE DEF TypeOK, Goto, HookWork, ReconcileWork
<1>0. UNCHANGED <<clock, rollout, event>>
  BY DEF Save, OpenTmp, WriteTmp, ReplaceFile, ReplaceMissing, Crash, Forget, world, locals
<1>1. clock' >= clock /\ \A s \in Sessions : rollout'[s].at <= clock'
  BY <1>0 DEF WorkInv, Time
<1>2. CASE OpenTmp(p) \/ WriteTmp(p) \/ ReplaceMissing(p) \/ Crash(p)
  <2>1. UNCHANGED file
    BY <1>2 DEF OpenTmp, WriteTmp, ReplaceMissing, Crash, SaveInv, disk
  <2>2. \A h \in Hooks : pc'[h] \in HookWork => pc[h] \in HookWork /\ buf'[h] = buf[h]
    BY <1>2 DEF OpenTmp, WriteTmp, ReplaceMissing, Crash, Forget, locals, Procs
  <2>3. \A r \in Reconcilers : pc'[r] \in ReconcileWork =>
          pc[r] \in ReconcileWork /\ buf'[r] = buf[r] /\ todo'[r] \subseteq todo[r]
    BY <1>2 DEF OpenTmp, WriteTmp, ReplaceMissing, Crash, Forget, locals, Procs
  <2>4. QED
    BY <1>0, <1>1, <2>1, <2>2, <2>3, WorkKept
<1>3. CASE ReplaceFile(p)
  <2>1. \A q \in Procs : q # p => pc[q] \notin Critical /\ pc'[q] = pc[q]
    BY <1>3 DEF ReplaceFile, LockExclusive, Critical, Procs
  <2>2. pc'[p] = "unlock"
    BY <1>3 DEF ReplaceFile
  <2>3. \A q \in Procs : pc'[q] \notin HookWork \cup ReconcileWork
    BY <2>1, <2>2 DEF Critical
  <2>4. QED
    BY <1>0, <2>3 DEF WorkInv, Procs
<1>4. QED
  BY <1>2, <1>3 DEF Save

LEMMA WorkWorld ==
  ASSUME TypeOK, TypeOK', WorkInv, World PROVE WorkInv'
<1>1. /\ UNCHANGED <<event, file, pc, buf, todo>>
      /\ clock' >= clock
      /\ \A s \in Sessions : rollout'[s] = rollout[s] \/ rollout'[s].at = clock
  BY DEF World, Tick, AppendRollout, SetRetention, TypeOK, Time, disk, locals
<1>2. \A s \in Sessions : rollout'[s].at <= clock'
  BY <1>1 DEF WorkInv, TypeOK, Time
<1>3. QED
  BY <1>1, <1>2, WorkKept

LEMMA WorkLock ==
  ASSUME TypeOK, TypeOK', WorkInv, NEW p \in Hooks \cup Reconcilers,
         AcquireLock(p) \/ LockTimeout(p)
  PROVE  WorkInv'
<1>1. UNCHANGED <<clock, rollout, event, file, buf, todo>>
  BY DEF AcquireLock, LockTimeout, world, disk, locals
<1>2. \A q \in Procs : pc'[q] \in HookWork \cup ReconcileWork => pc'[q] = pc[q]
  BY DEF AcquireLock, LockTimeout, Goto, TypeOK, HookWork, ReconcileWork, Procs
<1>3. clock' >= clock /\ \A s \in Sessions : rollout'[s].at <= clock'
  BY <1>1 DEF WorkInv, TypeOK, Time
<1>4. QED
  BY <1>1, <1>2, <1>3, WorkKept DEF Procs

\* The inductive invariant of the store without prune.
IInv == TypeInv /\ LockExclusive /\ SaveInv /\ WorkInv

LEMMA IInvInit == Init => IInv
  BY TypeInit, LockInit, SaveInit, WorkInit DEF IInv

LEMMA IInvNext == Pruners = {} /\ IInv /\ [Next]_vars => IInv'
<1> SUFFICES ASSUME Pruners = {}, IInv, [Next]_vars PROVE IInv'
  OBVIOUS
<1>1. TypeInv' /\ LockExclusive' /\ SaveInv'
  BY TypeNext, LockNext, SaveNext DEF IInv, TypeInv
<1>2. TypeOK /\ TypeOK'
  BY <1>1 DEF IInv, TypeInv
<1>3. WorkInv'
  <2>1. CASE UNCHANGED vars
    BY <2>1 DEF vars, world, disk, locals, IInv, WorkInv, CurrentIndex, Corrected
  <2>2. CASE Next
    BY <1>2, <2>2, WorkWorld, WorkLock, WorkHook, WorkReconciler, WorkSave
    DEF Next, IInv
  <2>3. QED
    BY <2>1, <2>2
<1>4. QED
  BY <1>1, <1>3 DEF IInv

\* A rename by a hook is the abstract step that merges the hook's event; a
\* rename by a reconciler is the abstract correction; Tick is Tick; and no other
\* step changes the index.
LEMMA StepRefines ==
  ASSUME Pruners = {}, IInv, IInv', [Next]_vars
  PROVE  [Atomic!Next]_(Atomic!vars)
<1> USE DEF IInv, TypeInv, TypeOK
<1>1. CASE Tick
  BY <1>1 DEF Tick, Atomic!Next, Atomic!Tick, CurrentIndex, disk
<1>2. ASSUME NEW p \in Procs, ReplaceFile(p) PROVE Atomic!Next
  <2>1. pc[p] = "replace" /\ file' = tmp /\ UNCHANGED clock
    BY <1>2 DEF ReplaceFile, Goto, world
  <2>2. CurrentIndex' = buf[p]
    BY <2>1 DEF SaveInv, CurrentIndex, Loaded, Holding
  <2>3. CASE p \in Hooks
    <3>1. PICK days \in Retentions : buf[p] = AfterHook(CurrentIndex, event[p], days)
      BY <2>1, <2>3 DEF WorkInv, HookWork
    <3>2. /\ event[p] = [session |-> event[p].session, status |-> event[p].status,
                         at |-> event[p].at]
          /\ event[p].session \in Sessions
          /\ event[p].status \in Atomic!Status
          /\ event[p].at \in 0 .. clock
      BY <2>3 DEF Event, WorkInv, Time, Status, Atomic!Status
    <3>3. AfterHook(CurrentIndex, event[p], days) =
            Atomic!AfterHook(CurrentIndex, event[p], days)
      BY DEF AfterHook, Atomic!AfterHook, Pruned, Atomic!Pruned, Merged, Atomic!Merged,
             Expired, Atomic!Expired, DisplayState, Atomic!DisplayState, Stamp, Atomic!Stamp
    <3>4. Atomic!RecordEvent(event[p].session, event[p].status, event[p].at, days)
      BY <2>1, <2>2, <3>1, <3>2, <3>3 DEF Atomic!RecordEvent
    <3>5. QED
      BY <3>2, <3>4 DEF Atomic!Next
  <2>4. CASE p \in Reconcilers
    <3>1. buf[p] \in Atomic!Index
      BY DEF Index, Atomic!Index, Entry, Atomic!Entry, Time, Atomic!Time, Status,
             Atomic!Status
    <3>2. ASSUME NEW s \in Sessions
          PROVE  Atomic!MayBecome(CurrentIndex[s], buf[p][s])
      <4>1. Corrected(CurrentIndex[s], buf[p][s])
        BY <2>1, <2>4 DEF WorkInv, ReconcileWork
      <4>2. QED
        BY <4>1 DEF Corrected, Atomic!MayBecome, TerminalStatus, Atomic!TerminalStatus,
           Reconcilable, Atomic!Reconcilable, StaleEligible, Atomic!StaleEligible,
           Supersedes, Atomic!Supersedes, Reconciled, Atomic!Reconciled
    <3>3. Atomic!Reconcile
      BY <2>1, <2>2, <3>1, <3>2 DEF Atomic!Reconcile
    <3>4. QED
      BY <3>3 DEF Atomic!Next
  <2>5. QED
    BY <2>3, <2>4 DEF Procs
<1>3. CASE ~Tick /\ ~(\E p \in Procs : ReplaceFile(p))
  <2>1. UNCHANGED <<clock, file>>
    BY <1>3
    DEF Next, vars, world, disk, World, AppendRollout, SetRetention, AcquireLock,
        LockTimeout, Hook, Normalize, UpdateCache, FinishHook, Reconciler, StartReconcile,
        LoadReconcile, Examine, FinishScan, FinishReconcile, Save, OpenTmp, WriteTmp,
        ReplaceMissing, Crash, SaveInv, Goto
  <2>2. QED
    BY <2>1 DEF Atomic!vars, CurrentIndex
<1>4. QED
  BY <1>1, <1>2, <1>3

\* Without prune beside them, hooks and reconcilers that load, rewrite and
\* rename sessions.json under .lock implement the index that changes in whole
\* steps: no save loses another one, wherever a process is killed.
THEOREM StoreImplementsIndex == Pruners = {} => (Spec => SavesAreAtomic)
<1> SUFFICES ASSUME Pruners = {} PROVE Spec => SavesAreAtomic
  OBVIOUS
<1>1. Init => Atomic!Init
  BY DEF Init, Atomic!Init, CurrentIndex, Loaded, Missing, EmptyIndex, Atomic!EmptyIndex
<1>2. IInv /\ IInv' /\ [Next]_vars => [Atomic!Next]_(Atomic!vars)
  BY StepRefines
<1>3. QED
  BY <1>1, <1>2, IInvInit, IInvNext, PTL DEF Spec, SavesAreAtomic, Atomic!Spec

\* A hook drops only entries older than its retention period, and a reconciler
\* drops none.
LEMMA RetentionStep ==
  ASSUME Pruners = {}, IInv, [Next]_vars, NEW s \in Sessions,
         CurrentIndex[s] # NoSession, CurrentIndex'[s] = NoSession
  PROVE  \E days \in Retentions \ {0} : CurrentIndex[s].last + days < clock
<1>1. CurrentIndex \in Index
  BY LoadedType DEF CurrentIndex, IInv, TypeInv, TypeOK
<1>2. CASE \E p \in Hooks : ReplaceFile(p)
  <2>1. PICK p \in Hooks : ReplaceFile(p)
    BY <1>2
  <2>2. pc[p] = "replace" /\ CurrentIndex' = buf[p]
    BY <2>1 DEF ReplaceFile, Goto, IInv, SaveInv, CurrentIndex, Loaded, Holding, Procs
  <2>3. PICK days \in Retentions : buf[p] = AfterHook(CurrentIndex, event[p], days)
    BY <2>2 DEF IInv, WorkInv, HookWork
  <2>4. event[p] \in Event /\ event[p].at <= clock /\ clock \in Nat
    BY DEF IInv, TypeInv, TypeOK, WorkInv, Time
  <2>5. Merged(CurrentIndex[event[p].session], event[p]) \in Entry
    BY <1>1, <2>4, MergedType DEF Index, Event
  <2> DEFINE merged == [CurrentIndex EXCEPT ![event[p].session] = Merged(@, event[p])]
  <2>6. Stamp(event[p].at) \in Nat /\ Stamp(event[p].at) <= event[p].at
    BY <2>4, StampIs DEF Event, Time
  <2>7. Expired(merged[s], Stamp(event[p].at), days)
    BY <1>1, <2>2, <2>3, <2>5, NoSessionAssumption
    DEF AfterHook, Pruned, Index
  <2>8. CASE s = event[p].session
    BY <1>1, <2>4, <2>6, <2>7, <2>8, RetentionsAssumption
    DEF Expired, Merged, Index, Event, Time
  <2>9. CASE s # event[p].session
    <3>1. merged[s] = CurrentIndex[s] /\ CurrentIndex[s].last \in Nat
      BY <1>1, <2>9 DEF Index, Entry, Time
    <3>2. days \in Retentions \ {0} /\ CurrentIndex[s].last + days < Stamp(event[p].at)
      BY <2>7, <3>1, RetentionsAssumption DEF Expired
    <3>3. QED
      BY <2>4, <2>6, <3>1, <3>2, RetentionsAssumption DEF Event, Time
  <2>10. QED
    BY <2>8, <2>9
<1>3. CASE \E r \in Reconcilers : ReplaceFile(r)
  <2>1. PICK r \in Reconcilers : ReplaceFile(r)
    BY <1>3
  <2>2. pc[r] = "replace" /\ CurrentIndex' = buf[r]
    BY <2>1 DEF ReplaceFile, Goto, IInv, SaveInv, CurrentIndex, Loaded, Holding, Procs
  <2>3. Corrected(CurrentIndex[s], NoSession)
    BY <2>2 DEF IInv, WorkInv, ReconcileWork
  <2>4. PICK status \in Status, at \in Time :
          NoSession = Reconciled(CurrentIndex[s], status, at)
    BY <2>3 DEF Corrected, TerminalStatus, Status, Time
  <2>5. QED
    BY <1>1, <2>4, ReconciledType, NoSessionAssumption DEF Index
<1>4. CASE ~(\E p \in Procs : ReplaceFile(p))
  <2>1. UNCHANGED file
    BY <1>4
    DEF Next, vars, world, disk, World, Tick, AppendRollout, SetRetention, AcquireLock,
        LockTimeout, Hook, Normalize, UpdateCache, FinishHook, Reconciler,
        StartReconcile, LoadReconcile, Examine, FinishScan, FinishReconcile, Save,
        OpenTmp, WriteTmp, ReplaceMissing, Crash, IInv, SaveInv, Goto
  <2>2. QED
    BY <2>1 DEF CurrentIndex
<1>5. QED
  BY <1>2, <1>3, <1>4 DEF Procs

\* Without a concurrent prune no session leaves the index before its retention
\* period is over.
THEOREM RetentionOnly == Pruners = {} => (Spec => SessionsLeaveOnlyByRetention)
<1> SUFFICES ASSUME Pruners = {} PROVE Spec => SessionsLeaveOnlyByRetention
  OBVIOUS
<1>1. IInv /\ [Next]_vars =>
        [\A s \in Sessions :
           CurrentIndex[s] # NoSession /\ CurrentIndex'[s] = NoSession =>
             \E days \in Retentions \ {0} : CurrentIndex[s].last + days < clock]_vars
  BY RetentionStep
<1>2. QED
  BY <1>1, IInvInit, IInvNext, PTL DEF Spec, SessionsLeaveOnlyByRetention

\* What a reconciler saves for a session is the current entry or its correction.
LEMMA ReconcileStep ==
  ASSUME Pruners = {}, IInv, [Next]_vars, NEW r \in Reconcilers, Saves(r),
         NEW s \in Sessions
  PROVE  \/ CurrentIndex'[s] = CurrentIndex[s]
         \/ /\ Reconcilable(CurrentIndex[s])
            /\ CurrentIndex'[s] # NoSession
            /\ CurrentIndex'[s].last > CurrentIndex[s].last
            /\ CurrentIndex'[s].count = CurrentIndex[s].count + 1
            /\ \A h \in Hooks : Stamp(event[h].at) = CurrentIndex[s].last =>
                  event[h].at < CurrentIndex'[s].last + Second
<1>1. pc[r] = "replace" /\ pc'[r] \in {"unlock", "cleanup"} /\ r \in Procs
  BY DEF Saves, Procs
<1>2. ReplaceFile(r)
  BY <1>1, ProcsAssumption
  DEF Next, vars, World, Tick, AppendRollout, SetRetention, AcquireLock, LockTimeout,
      Hook, Normalize, UpdateCache, FinishHook, Reconciler, StartReconcile, LoadReconcile,
      Examine, FinishScan, FinishReconcile, Save, OpenTmp, WriteTmp, ReplaceFile,
      ReplaceMissing, Crash, Goto, IInv, TypeInv, TypeOK, Procs
<1>3. CurrentIndex' = buf[r]
  BY <1>1, <1>2 DEF ReplaceFile, IInv, SaveInv, CurrentIndex, Loaded, Holding
<1>4. Corrected(CurrentIndex[s], CurrentIndex'[s])
  BY <1>1, <1>3 DEF IInv, WorkInv, ReconcileWork
<1>5. CurrentIndex[s] \in Entry \cup {NoSession}
  BY LoadedType DEF CurrentIndex, IInv, TypeInv, TypeOK, Index
<1>6. CASE CurrentIndex'[s] # CurrentIndex[s]
  <2>1. PICK status \in TerminalStatus, at \in 0 .. clock :
          /\ Reconcilable(CurrentIndex[s])
          /\ Supersedes(at, CurrentIndex[s])
          /\ CurrentIndex'[s] = Reconciled(CurrentIndex[s], status, at)
    BY <1>4, <1>6 DEF Corrected
  <2>2. CurrentIndex[s] \in Entry /\ status \in Status /\ at \in Time
    BY <1>5, <2>1 DEF Reconcilable, TerminalStatus, Status, Time
  <2>3. CurrentIndex'[s] \in Entry
    BY <2>1, <2>2, ReconciledType
  <2>4. /\ CurrentIndex'[s].last > CurrentIndex[s].last
        /\ CurrentIndex'[s].count = CurrentIndex[s].count + 1
    BY <2>1 DEF Reconciled, Supersedes
  <2>5. ASSUME NEW h \in Hooks, Stamp(event[h].at) = CurrentIndex[s].last
        PROVE  event[h].at < CurrentIndex'[s].last + Second
    <3>1. event[h].at \in Nat /\ CurrentIndex'[s].last \in Nat /\ Second \in Nat
      BY <2>3, SecondAssumption DEF IInv, TypeInv, TypeOK, Event, Entry, Time
    <3>2. Stamp(event[h].at) \in Nat /\ event[h].at < Stamp(event[h].at) + Second
      BY <3>1, StampIs
    <3>3. QED
      BY <2>4, <2>5, <3>1, <3>2
  <2>6. QED
    BY <2>1, <2>3, <2>4, <2>5, NoSessionAssumption
<1>7. QED
  BY <1>6

\* Without a concurrent prune a reconciliation applies a rollout event only to an
\* entry that looks active and was stamped before it; the hook that stamped it
\* is less than a second younger than that event.
THEOREM ReconcileIsForward == Pruners = {} => (Spec => ReconcileKeepsNewer)
<1> SUFFICES ASSUME Pruners = {} PROVE Spec => ReconcileKeepsNewer
  OBVIOUS
<1>1. IInv /\ [Next]_vars =>
        [\A r \in Reconcilers : Saves(r) =>
           \A s \in Sessions :
             \/ CurrentIndex'[s] = CurrentIndex[s]
             \/ /\ Reconcilable(CurrentIndex[s])
                /\ CurrentIndex'[s] # NoSession
                /\ CurrentIndex'[s].last > CurrentIndex[s].last
                /\ CurrentIndex'[s].count = CurrentIndex[s].count + 1
                /\ \A h \in Hooks : Stamp(event[h].at) = CurrentIndex[s].last =>
                      event[h].at < CurrentIndex'[s].last + Second]_vars
  BY ReconcileStep
<1>2. QED
  BY <1>1, IInvInit, IInvNext, PTL DEF Spec, ReconcileKeepsNewer

-----------------------------------------------------------------------------
(* The order of the stamps, with any number of prunes.  A save may put any  *)
(* copy of the index back, so the order is an invariant of all the copies   *)
(* there are, and it says of each what a hook that has stamped its event    *)
(* but not yet loaded the index needs to find.                              *)

\* The hooks whose stamp is not yet merged, and the hooks that run.
Pending == {h \in Hooks : pc[h] \in {"lock", "load"}}
Running == {h \in Hooks : pc[h] \notin {"idle", "done", "failed", "dead"}}

\* The stamps of an entry are in order; the start of the state shown may be later
\* than the last stamp within a second.
Timely(entry) ==
  /\ Stamp(entry.first) = entry.first
  /\ entry.first <= entry.started
  /\ entry.first <= entry.last
  /\ Stamp(entry.started) <= entry.last

\* An event of this moment may be merged into the entry: it is not older than
\* the session, nor, unless no hook or rollout said so, than the state shown.
Accepts(entry, at) ==
  /\ entry.first <= Stamp(at)
  /\ entry.status # "unknown" => Stamp(entry.started) <= Stamp(at)

\* The indexes whose stamps are in order and that every pending event may be
\* merged into.
OrderedIndexes ==
  {X \in Index : \A s \in Sessions : X[s] # NoSession =>
     /\ Timely(X[s])
     /\ X[s].last <= clock
     /\ \A h \in Pending : event[h].session = s => Accepts(X[s], event[h].at)}

\* All copies of the index: on the disk and in the memory of the processes.
CopiesOrdered ==
  /\ file.index \in OrderedIndexes
  /\ tmp.index \in OrderedIndexes
  /\ \A p \in Procs : buf[p] \in OrderedIndexes

\* A turn is not complete while one of its hooks is pending.
RolloutInv ==
  \A s \in Sessions :
    /\ rollout[s].at <= clock
    /\ rollout[s].kind = "task_complete" =>
         \A h \in Pending : event[h].session = s => rollout[s].at <= event[h].at

\* A session has one running hook at most.
SerialInv ==
  \A h \in Running :
    /\ event[h].at <= clock
    /\ event[h].status \in HookStatuses
    /\ \A g \in Running : event[g].session = event[h].session => g = h

TimelineInv == CopiesOrdered /\ RolloutInv /\ SerialInv

LEMMA EmptyOrdered == EmptyIndex \in OrderedIndexes
  BY ContentsType DEF EmptyIndex, OrderedIndexes

\* An ordered index stays ordered while time passes and no hook begins.
LEMMA OrderedKept ==
  ASSUME TypeOK, TypeOK', clock' >= clock, Pending' \subseteq Pending,
         \A h \in Pending' : event'[h] = event[h]
  PROVE  OrderedIndexes \subseteq OrderedIndexes'
<1> SUFFICES ASSUME NEW X \in OrderedIndexes, NEW s \in Sessions, X[s] # NoSession
             PROVE  /\ Timely(X[s])
                    /\ X[s].last <= clock'
                    /\ \A h \in Pending' : event'[h].session = s =>
                         Accepts(X[s], event'[h].at)
  BY DEF OrderedIndexes
<1>1. X[s].last <= clock /\ X[s].last \in Nat
  BY DEF OrderedIndexes, Index, Entry, Time
<1>2. QED
  BY <1>1 DEF OrderedIndexes, TypeOK, Time

\* Pruning an ordered index leaves it ordered.
LEMMA PrunedOrdered ==
  ASSUME NEW X \in OrderedIndexes, NEW now, NEW days
  PROVE  Pruned(X, now, days) \in OrderedIndexes
<1>1. Pruned(X, now, days) \in Index
  BY PrunedType DEF OrderedIndexes
<1>2. \A s \in Sessions : Pruned(X, now, days)[s] \in {X[s], NoSession}
  BY DEF Pruned
<1>3. QED
  BY <1>1, <1>2 DEF OrderedIndexes

LEMMA TimelineInit == Init => TimelineInv
  BY EmptyOrdered, StoreAssumption
  DEF Init, TimelineInv, CopiesOrdered, RolloutInv, SerialInv, Pending, Running,
      Missing, Procs

\* A step that starts no hook, changes no stamp, and puts no copy anywhere but
\* one there is keeps the order.
LEMMA TimelineKept ==
  ASSUME TypeOK, TypeOK', TimelineInv, UNCHANGED <<clock, rollout, event>>,
         Pending' \subseteq Pending, Running' \subseteq Running,
         file'.index \in OrderedIndexes, tmp'.index \in OrderedIndexes,
         \A p \in Procs : buf'[p] \in OrderedIndexes
  PROVE  TimelineInv'
<1>1. OrderedIndexes \subseteq OrderedIndexes'
  BY OrderedKept DEF TypeOK, Time
<1>2. CopiesOrdered'
  BY <1>1 DEF CopiesOrdered
<1>3. RolloutInv'
  BY DEF TimelineInv, RolloutInv
<1>4. SerialInv'
  BY DEF TimelineInv, SerialInv
<1>5. QED
  BY <1>2, <1>3, <1>4 DEF TimelineInv

LEMMA TimelineWorld ==
  ASSUME SerialHooks, TypeOK, TypeOK', TimelineInv, World
  PROVE  TimelineInv'
<1>1. /\ UNCHANGED <<event, pc, file, tmp, buf>>
      /\ clock' >= clock
  BY DEF World, Tick, AppendRollout, SetRetention, TypeOK, Time, disk, locals
<1>2. Pending' = Pending /\ Running' = Running
  BY <1>1 DEF Pending, Running
<1>3. CopiesOrdered'
  BY <1>1, <1>2, OrderedKept DEF TimelineInv, CopiesOrdered
<1>4. RolloutInv'
  <2>1. CASE \E s \in Transcribed, kind \in RolloutKinds : AppendRollout(s, kind)
    <3>1. PICK s \in Transcribed, kind \in RolloutKinds : AppendRollout(s, kind)
      BY <2>1
    <3>2. /\ rollout' = [rollout EXCEPT ![s] = [kind |-> kind, at |-> clock]]
          /\ UNCHANGED clock
      BY <3>1 DEF AppendRollout
    <3>3. kind = "task_complete" => \A h \in Pending : event[h].session # s
      BY <3>1 DEF AppendRollout, NoHookOf, Pending
    <3>4. QED
      BY <1>1, <1>2, <3>2, <3>3 DEF TimelineInv, RolloutInv, TypeOK, Time
  <2>2. CASE UNCHANGED rollout
    BY <1>1, <1>2, <2>2 DEF TimelineInv, RolloutInv, TypeOK, Time
  <2>3. QED
    BY <2>1, <2>2 DEF World, Tick, SetRetention
<1>5. SerialInv'
  BY <1>1, <1>2 DEF TimelineInv, SerialInv, TypeOK, Event, Time, Running
<1>6. QED
  BY <1>3, <1>4, <1>5 DEF TimelineInv

LEMMA TimelineLock ==
  ASSUME TypeOK, TypeOK', TimelineInv, NEW p \in Hooks \cup Reconcilers,
         AcquireLock(p) \/ LockTimeout(p)
  PROVE  TimelineInv'
<1>1. UNCHANGED <<clock, rollout, event, file, tmp, buf>>
  BY DEF AcquireLock, LockTimeout, world, disk, locals
<1>2. Pending' \subseteq Pending /\ Running' \subseteq Running
  BY DEF AcquireLock, LockTimeout, Goto, Pending, Running, TypeOK, Procs
<1>3. QED
  BY <1>1, <1>2, TimelineKept DEF TimelineInv, CopiesOrdered

\* A process that forgets its memory holds an empty index, which is ordered.
LEMMA ForgetOrdered ==
  ASSUME TypeOK, TimelineInv, NEW p \in Procs, Forget(p)
  PROVE  UNCHANGED event /\ \A q \in Procs : buf'[q] \in OrderedIndexes
  BY EmptyOrdered DEF Forget, TypeOK, TimelineInv, CopiesOrdered

LEMMA TimelineSave ==
  ASSUME TypeOK, TypeOK', TimelineInv, NEW p \in Procs, Save(p) \/ Crash(p)
  PROVE  TimelineInv'
<1>1. UNCHANGED <<clock, rollout>>
  BY DEF Save, OpenTmp, WriteTmp, ReplaceFile, ReplaceMissing, Crash, world
<1>2. Pending' \subseteq Pending /\ Running' \subseteq Running
  BY DEF Save, OpenTmp, WriteTmp, ReplaceFile, ReplaceMissing, Crash, Goto, Pending,
         Running, TypeOK, Procs
<1>3. file'.index \in OrderedIndexes /\ tmp'.index \in OrderedIndexes
  <2>1. Torn.index \in OrderedIndexes /\ Missing.index \in OrderedIndexes
    BY EmptyOrdered DEF Torn, Missing
  <2>2. \A old : \A new \in Overwrites(old, buf[p]) : new.index \in OrderedIndexes
    BY <2>1 DEF Overwrites, Holding, TimelineInv, CopiesOrdered
  <2>3. QED
    BY <2>1, <2>2
    DEF Save, OpenTmp, WriteTmp, ReplaceFile, ReplaceMissing, Crash, disk, TimelineInv,
        CopiesOrdered
<1>4. UNCHANGED event /\ \A q \in Procs : buf'[q] \in OrderedIndexes
  <2>1. CASE Forget(p)
    BY <2>1, ForgetOrdered
  <2>2. CASE UNCHANGED <<event, buf>>
    BY <2>2 DEF TimelineInv, CopiesOrdered
  <2>3. QED
    BY <2>1, <2>2
    DEF Save, OpenTmp, WriteTmp, ReplaceFile, ReplaceMissing, Crash, locals
<1>5. QED
  BY <1>1, <1>2, <1>3, <1>4, TimelineKept

\* A hook stamps its event with the present: no copy and no rollout is later.
LEMMA TimelineNormalize ==
  ASSUME SerialHooks, TypeOK, TypeOK', TimelineInv,
         NEW h \in Hooks, NEW s \in Sessions, NEW status \in HookStatuses,
         Normalize(h, s, status)
  PROVE  TimelineInv'
<1>1. /\ UNCHANGED <<clock, rollout, file, tmp, buf>>
      /\ event' = [event EXCEPT ![h] = [session |-> s, status |-> status, at |-> clock]]
      /\ pc[h] = "idle"
      /\ pc' = [pc EXCEPT ![h] = "lock"]
      /\ NoHookOf(s)
  BY DEF Normalize, Goto, world, disk
<1>2. /\ Pending' = Pending \cup {h}
      /\ Running' = Running \cup {h}
      /\ h \notin Running
      /\ h \notin Pending
  BY <1>1 DEF Pending, Running, TypeOK, Procs
<1>3. /\ event'[h] = [session |-> s, status |-> status, at |-> clock]
      /\ \A g \in Hooks : g # h => event'[g] = event[g]
  BY <1>1 DEF TypeOK
<1>4. OrderedIndexes \subseteq OrderedIndexes'
  <2> SUFFICES ASSUME NEW X \in OrderedIndexes, NEW u \in Sessions, X[u] # NoSession
               PROVE  /\ Timely(X[u])
                      /\ X[u].last <= clock'
                      /\ \A g \in Pending' : event'[g].session = u =>
                           Accepts(X[u], event'[g].at)
    BY DEF OrderedIndexes
  <2>1. /\ X[u] \in Entry
        /\ Timely(X[u])
        /\ X[u].last <= clock
        /\ \A g \in Pending : event[g].session = u => Accepts(X[u], event[g].at)
    BY DEF OrderedIndexes, Index
  <2>2. Accepts(X[u], clock)
    <3>1. /\ X[u].first \in Nat /\ X[u].started \in Nat /\ X[u].last \in Nat
          /\ clock \in Nat /\ Stamp(X[u].started) \in Nat /\ Stamp(clock) \in Nat
      BY <2>1, StampIs DEF Entry, Time, TypeOK
    <3>2. X[u].first <= clock /\ Stamp(X[u].started) <= clock
      BY <2>1, <3>1 DEF Timely
    <3>3. /\ Stamp(X[u].first) <= Stamp(clock)
          /\ Stamp(Stamp(X[u].started)) <= Stamp(clock)
      BY <3>1, <3>2, StampIs
    <3>4. QED
      BY <2>1, <3>1, <3>3, StampIs DEF Accepts, Timely
  <2>3. QED
    BY <1>1, <1>2, <1>3, <2>1, <2>2
<1>5. CopiesOrdered'
  BY <1>1, <1>4 DEF TimelineInv, CopiesOrdered
<1>6. RolloutInv'
  BY <1>1, <1>2, <1>3 DEF TimelineInv, RolloutInv
<1>7. SerialInv'
  <2>1. \A g \in Running : event[g].session # s
    BY <1>1 DEF NoHookOf, Running
  <2>2. clock <= clock
    BY DEF TypeOK, Time
  <2>3. \A g \in Running : g # h /\ g \in Hooks
    BY <1>2 DEF Running
  <2>4. QED
    BY <1>1, <1>2, <1>3, <2>1, <2>2, <2>3 DEF TimelineInv, SerialInv
<1>8. QED
  BY <1>5, <1>6, <1>7 DEF TimelineInv

\* The entry a hook merges its event into accepts it, so the merged entry is in
\* order; and no other pending event is of that session.
LEMMA TimelineUpdate ==
  ASSUME "unknown" \notin HookStatuses, TypeOK, TypeOK', TimelineInv,
         NEW h \in Hooks, UpdateCache(h)
  PROVE  TimelineInv'
<1> DEFINE e == event[h]
           old == Loaded(file)
           merged == [old EXCEPT ![e.session] = Merged(@, e)]
<1>1. /\ UNCHANGED <<clock, rollout, event, file, tmp>>
      /\ pc[h] = "load"
      /\ pc' = [pc EXCEPT ![h] = "save"]
      /\ buf' = [buf EXCEPT ![h] = AfterHook(old, e, retention)]
  BY DEF UpdateCache, Goto, world, disk
<1>2. /\ Pending' = Pending \ {h}
      /\ Running' = Running
      /\ h \in Pending
      /\ h \in Running
      /\ Pending \subseteq Running
  BY <1>1 DEF Pending, Running, TypeOK, Procs
<1>3. /\ e \in Event
      /\ e.at <= clock
      /\ e.status # "unknown"
      /\ \A g \in Pending' : event'[g].session # e.session
  BY <1>1, <1>2 DEF TimelineInv, SerialInv, TypeOK
<1>4. OrderedIndexes \subseteq OrderedIndexes'
  BY <1>1, <1>2, OrderedKept DEF TypeOK, Time
<1>5. old \in OrderedIndexes
  BY EmptyOrdered DEF Loaded, TimelineInv, CopiesOrdered
<1>6. merged \in OrderedIndexes'
  <2>1. Merged(old[e.session], e) \in Entry
    BY <1>3, <1>5, MergedType DEF OrderedIndexes, Index, Event
  <2>2. merged \in Index
    BY <1>5, <2>1 DEF OrderedIndexes, Index
  <2>3. old[e.session] # NoSession =>
          /\ old[e.session] \in Entry
          /\ Accepts(old[e.session], e.at)
          /\ Timely(old[e.session])
    BY <1>2, <1>3, <1>5 DEF OrderedIndexes, Index, Event
  <2>4. Timely(merged[e.session]) /\ merged[e.session].last <= clock
    <3>1. merged[e.session] = Merged(old[e.session], e)
      BY <1>3, <1>5 DEF OrderedIndexes, Index, Event
    <3>2. /\ e.at \in Nat /\ Stamp(e.at) \in Nat /\ Stamp(e.at) <= e.at
          /\ Stamp(Stamp(e.at)) = Stamp(e.at) /\ clock \in Nat
      BY <1>3, StampIs DEF Event, Time, TypeOK
    <3>3. old[e.session] # NoSession /\
            DisplayState(old[e.session].status) = DisplayState(e.status) =>
              Stamp(old[e.session].started) <= Stamp(e.at)
      BY <1>3, <2>3 DEF DisplayState, Accepts
    <3>4. QED
      BY <1>3, <2>3, <3>1, <3>2, <3>3 DEF Merged, Accepts, Timely
  <2>5. \A s \in Sessions : s # e.session => merged[s] = old[s]
    BY <1>5 DEF OrderedIndexes, Index
  <2>6. old \in OrderedIndexes'
    BY <1>4, <1>5
  <2>7. \A s \in Sessions : merged[s] # NoSession =>
           /\ Timely(merged[s])
           /\ merged[s].last <= clock'
           /\ \A g \in Pending' : event'[g].session = s => Accepts(merged[s], event'[g].at)
    BY <1>1, <1>3, <2>4, <2>5, <2>6 DEF OrderedIndexes
  <2>8. QED
    BY <2>2, <2>7 DEF OrderedIndexes
<1>7. AfterHook(old, e, retention) \in OrderedIndexes'
  <2>1. Pruned(merged, Stamp(e.at), retention) \in Index
    BY <1>6, PrunedType DEF OrderedIndexes
  <2>2. \A s \in Sessions :
          Pruned(merged, Stamp(e.at), retention)[s] \in {merged[s], NoSession}
    BY DEF Pruned
  <2>3. Pruned(merged, Stamp(e.at), retention) \in OrderedIndexes'
    BY <1>6, <2>1, <2>2 DEF OrderedIndexes
  <2>4. QED
    BY <2>3 DEF AfterHook
<1>8. CopiesOrdered'
  BY <1>1, <1>4, <1>7 DEF TimelineInv, CopiesOrdered, TypeOK
<1>9. RolloutInv' /\ SerialInv'
  BY <1>1, <1>2 DEF TimelineInv, RolloutInv, SerialInv
<1>10. QED
  BY <1>8, <1>9 DEF TimelineInv

LEMMA TimelineHook ==
  ASSUME SerialHooks, "unknown" \notin HookStatuses, TypeOK, TypeOK', TimelineInv,
         NEW h \in Hooks, Hook(h)
  PROVE  TimelineInv'
<1>1. CASE FinishHook(h)
  <2>1. UNCHANGED <<clock, rollout, event, file, tmp>>
    BY <1>1 DEF FinishHook, Forget, world, disk
  <2>2. Pending' \subseteq Pending /\ Running' \subseteq Running
    BY <1>1 DEF FinishHook, Goto, Pending, Running, TypeOK, Procs
  <2>3. \A q \in Procs : buf'[q] \in OrderedIndexes
    BY <1>1, ForgetOrdered DEF FinishHook, Procs
  <2>4. QED
    BY <2>1, <2>2, <2>3, TimelineKept DEF TimelineInv, CopiesOrdered
<1>2. QED
  BY <1>1, TimelineNormalize, TimelineUpdate DEF Hook

\* A reconciler replaces an entry by a later one that only the pending events of
\* a turn still running may reach: it says unknown, or the turn was complete
\* before they were stamped.
LEMMA TimelineExamine ==
  ASSUME TypeInv, TypeInv', TimelineInv, NEW r \in Reconcilers,
         NEW s \in Sessions, Examine(r, s)
  PROVE  TimelineInv'
<1> USE DEF TypeInv, TypeOK
<1>1. /\ UNCHANGED <<clock, rollout, event, file, tmp, pc>>
      /\ s \in todo[r]
      /\ r \in Procs
  BY DEF Examine, world, disk, Procs
<1>2. Pending' = Pending /\ Running' = Running
  BY <1>1 DEF Pending, Running
<1> DEFINE new == Reconciled(buf[r][s], StatusOf(rollout[s].kind), rollout[s].at)
<1>3. CASE /\ Evidence(s)
           /\ Supersedes(rollout[s].at, buf[r][s])
           /\ buf' = [buf EXCEPT ![r] = [buf[r] EXCEPT ![s] = new]]
  <2>1. buf[r] \in OrderedIndexes /\ buf[r] \in Index /\ buf[r][s] \in Entry
    BY <1>1 DEF TimelineInv, CopiesOrdered, TodoLooksActive, Reconcilable, Index
  <2>2. buf[r][s] # NoSession
    BY <2>1, NoSessionAssumption
  <2>3. /\ Timely(buf[r][s])
        /\ \A h \in Pending : event[h].session = s => Accepts(buf[r][s], event[h].at)
    BY <2>1, <2>2 DEF OrderedIndexes
  <2>4. /\ rollout[s].at \in Nat
        /\ rollout[s].at <= clock
        /\ rollout[s].kind = "task_complete" =>
             \A h \in Pending : event[h].session = s => rollout[s].at <= event[h].at
    BY DEF TimelineInv, RolloutInv, Time
  <2>5. new \in Entry
    BY <2>1, <2>4, ReconciledType DEF StatusOf, Status, Time
  <2>6. Timely(new) /\ new.last <= clock
    <3>1. Stamp(rollout[s].at) <= rollout[s].at
      BY <2>4, StampIs
    <3>2. QED
      BY <1>3, <2>1, <2>3, <2>4, <3>1 DEF Reconciled, Supersedes, Entry, Time, Timely
  <2>7. \A h \in Pending : event[h].session = s => Accepts(new, event[h].at)
    <3>1. rollout[s].kind = "task_complete" =>
            \A h \in Pending : event[h].session = s =>
              Stamp(rollout[s].at) <= Stamp(event[h].at)
      BY <2>4, StampIs DEF Event, Time, Pending
    <3>2. QED
      BY <1>3, <2>3, <3>1 DEF Accepts, Reconciled, StatusOf, Evidence
  <2>8. [buf[r] EXCEPT ![s] = new] \in OrderedIndexes
    <3> DEFINE X == [buf[r] EXCEPT ![s] = new]
    <3>1. X \in Index /\ X[s] = new /\ \A u \in Sessions : u # s => X[u] = buf[r][u]
      BY <2>1, <2>5 DEF Index
    <3>2. X \in OrderedIndexes
      <4> HIDE DEF X, new
      <4>1. QED
        BY <2>1, <2>6, <2>7, <3>1 DEF OrderedIndexes
    <3>3. QED
      BY <3>2
  <2> HIDE DEF new
  <2>9. \A p \in Procs : buf'[p] \in OrderedIndexes
    BY <1>1, <1>3, <2>8 DEF TimelineInv, CopiesOrdered
  <2>10. QED
    BY <1>1, <1>2, <2>9, TimelineKept DEF TimelineInv, CopiesOrdered
<1>4. CASE UNCHANGED buf
  BY <1>1, <1>2, <1>4, TimelineKept DEF TimelineInv, CopiesOrdered
<1>5. QED
  BY <1>3, <1>4 DEF Examine

LEMMA TimelineReconciler ==
  ASSUME TypeInv, TypeInv', TimelineInv, NEW r \in Reconcilers, Reconciler(r)
  PROVE  TimelineInv'
<1> USE DEF TypeInv
<1>1. CASE ~ \E s \in Sessions : Examine(r, s)
  <2>1. UNCHANGED <<clock, rollout, event, file, tmp>>
    BY <1>1
    DEF Reconciler, StartReconcile, LoadReconcile, FinishScan, FinishReconcile, Forget,
        world, disk, locals
  <2>2. Pending' \subseteq Pending /\ Running' \subseteq Running
    BY <1>1, ProcsAssumption
    DEF Reconciler, StartReconcile, LoadReconcile, FinishScan, FinishReconcile, Goto,
        Pending, Running, TypeOK, Procs
  <2>3. Loaded(file) \in OrderedIndexes
    BY EmptyOrdered DEF Loaded, TimelineInv, CopiesOrdered
  <2>4. \A p \in Procs : buf'[p] \in OrderedIndexes
    BY <1>1, <2>3, ForgetOrdered
    DEF Reconciler, StartReconcile, LoadReconcile, FinishScan, FinishReconcile, Procs,
        TypeOK, locals, TimelineInv, CopiesOrdered
  <2>5. QED
    BY <2>1, <2>2, <2>4, TimelineKept DEF TimelineInv, CopiesOrdered
<1>2. QED
  BY <1>1, TimelineExamine

LEMMA TimelinePruner ==
  ASSUME TypeOK, TypeOK', TimelineInv, NEW p \in Pruners, Pruner(p)
  PROVE  TimelineInv'
<1>1. UNCHANGED <<clock, rollout, event, file, tmp>>
  BY DEF Pruner, LoadPrune, FinishPrune, Forget, world, disk
<1>2. Pending' \subseteq Pending /\ Running' \subseteq Running
  BY ProcsAssumption
  DEF Pruner, LoadPrune, FinishPrune, Goto, Pending, Running, TypeOK, Procs
<1>3. \A q \in Procs : buf'[q] \in OrderedIndexes
  <2>1. CASE FinishPrune(p)
    BY <2>1, ForgetOrdered DEF FinishPrune, Procs
  <2>2. CASE \E days \in Retentions : LoadPrune(p, days)
    <3>1. Loaded(file) \in OrderedIndexes
      BY EmptyOrdered DEF Loaded, TimelineInv, CopiesOrdered
    <3>2. \A days \in Retentions : Pruned(Loaded(file), clock, days) \in OrderedIndexes
      BY <3>1, PrunedOrdered
    <3>3. QED
      BY <2>2, <3>2 DEF LoadPrune, TypeOK, Procs, TimelineInv, CopiesOrdered
  <2>3. QED
    BY <2>1, <2>2 DEF Pruner
<1>4. QED
  BY <1>1, <1>2, <1>3, TimelineKept DEF TimelineInv, CopiesOrdered

LEMMA TimelineNext ==
  ASSUME SerialHooks, "unknown" \notin HookStatuses
  PROVE  TypeInv /\ TypeInv' /\ TimelineInv /\ [Next]_vars => TimelineInv'
<1> SUFFICES ASSUME TypeInv, TypeInv', TimelineInv, [Next]_vars PROVE TimelineInv'
  OBVIOUS
<1>1. TypeOK /\ TypeOK'
  BY DEF TypeInv
<1>2. CASE UNCHANGED vars
  BY <1>1, <1>2, TimelineKept
  DEF vars, world, disk, locals, TimelineInv, CopiesOrdered, Pending, Running
<1>3. CASE Next
  BY <1>1, <1>3, TimelineWorld, TimelineLock, TimelineHook, TimelineReconciler,
     TimelinePruner, TimelineSave
  DEF Next
<1>4. QED
  BY <1>2, <1>3

\* When Codex waits for a session's hooks before its next event and before it
\* completes the turn, and every hook's event names a state (EVENT_STATUS), the
\* stamps of every session in the index are in order to the second and not in
\* the future,
\* beside any number of reconcilers and prunes that may put older copies back.
THEOREM TimelinesAreOrdered ==
  ASSUME SerialHooks, "unknown" \notin HookStatuses
  PROVE  Spec => []TimelineOrdered
<1>1. TimelineInv => TimelineOrdered
  <2> SUFFICES ASSUME TimelineInv PROVE TimelineOrdered
    OBVIOUS
  <2>1. CurrentIndex \in OrderedIndexes
    BY EmptyOrdered DEF CurrentIndex, Loaded, TimelineInv, CopiesOrdered
  <2>2. QED
    BY <2>1 DEF OrderedIndexes, TimelineOrdered, Timely
<1>2. QED
  BY <1>1, TypeInit, TypeNext, TimelineInit, TimelineNext, PTL DEF Spec
=============================================================================
