---------------------------- MODULE SessionIndex ----------------------------
(***************************************************************************)
(* What the session store promises: an index that changes in whole steps.  *)
(* Each hook event is merged into the index as it is at that moment, and   *)
(* each reconciliation corrects entries that look active at that moment.   *)
(* Nothing is said of locks, files or crashes: SessionStore implements     *)
(* these steps with them.                                                  *)
(***************************************************************************)
EXTENDS SessionRecords

CONSTANT MaxTime   \* bound of the clock

VARIABLES
  clock,   \* the host's wall clock
  index    \* the contents of sessions.json

vars == <<clock, index>>

Init ==
  /\ clock = 0
  /\ index = EmptyIndex

Tick ==
  /\ clock < MaxTime
  /\ clock' = clock + 1
  /\ UNCHANGED index

\* One lifecycle event of a moment at or before now reaches the index.
RecordEvent(s, status, at, days) ==
  /\ index' = AfterHook(index, [session |-> s, status |-> status, at |-> at], days)
  /\ UNCHANGED clock

\* An entry is left alone or takes a newer terminal event of its rollout.
MayBecome(old, new) ==
  \/ new = old
  \/ \E status \in TerminalStatus, at \in 0 .. clock :
        /\ Reconcilable(old)
        /\ Supersedes(at, old)
        /\ new = Reconciled(old, status, at)

Reconcile ==
  /\ index' \in Index
  /\ \A s \in Sessions : MayBecome(index[s], index'[s])
  /\ UNCHANGED clock

Next ==
  \/ Tick
  \/ Reconcile
  \/ \E s \in Sessions, status \in Status, at \in 0 .. clock, days \in Retentions :
        RecordEvent(s, status, at, days)

Spec == Init /\ [][Next]_vars
=============================================================================
