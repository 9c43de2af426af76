--------------------------- MODULE SessionRecords ---------------------------
(***************************************************************************)
(* The entries of the session index sessions.json and the pure functions   *)
(* that store.py and reconcile.py apply to them.  An index maps every      *)
(* session id either to its entry or to NoSession.                         *)
(*                                                                         *)
(* Timestamps are natural numbers, Second of them to a second: a hook's     *)
(* stamp is cut to the whole second, a rollout event's is not.  Only what the lifecycle properties     *)
(* tell apart is kept of an entry: the metadata copied from the payload    *)
(* (cwd, project, model, message, ...) is left out, and display_state is   *)
(* not stored because the code always stores                               *)
(* display_state_for_status(status) next to status.                        *)
(***************************************************************************)
EXTENDS Integers, FiniteSets

CONSTANTS
  Sessions,      \* the session ids that occur
  NoSession,     \* the index has no entry for an id
  Retentions,    \* the retention periods config.json or --retention-days may hold
  Second         \* the number of moments told apart within a second

Status == {"active", "running", "tool_running", "waiting_approval", "done", "unknown"}

StaleEligible == {"active", "running", "tool_running"}

TerminalStatus == {"done", "unknown"}

Time == Nat

Entry == [first : Time, last : Time, status : Status, started : Time, count : Nat]

ASSUME NoSessionAssumption == NoSession \notin Entry

ASSUME SessionsAssumption == Sessions # {}

ASSUME RetentionsAssumption == Retentions \subseteq Nat /\ Retentions # {}

ASSUME SecondAssumption == Second \in Nat \ {0}

Index == [Sessions -> Entry \cup {NoSession}]

EmptyIndex == [s \in Sessions |-> NoSession]

\* What normalize_event extracts from one hook payload, and the moment at which
\* it does; the event's recorded_at is Stamp(at).
Event == [session : Sessions, status : Status, at : Time]

-----------------------------------------------------------------------------

\* utc_now: the time with its microseconds dropped.
Stamp(t) == t - (t % Second)

\* display_state_for_status: a tool run is shown as a running turn.
DisplayState(status) == IF status = "tool_running" THEN "running" ELSE status

\* Mutant: the creation time of a known session is not carried over.
MergedForgetsFirst(previous, e) ==
  LET known == previous # NoSession
      sameState == known /\ DisplayState(previous.status) = DisplayState(e.status)
      now == Stamp(e.at)
  IN  [first   |-> now,
       last    |-> now,
       status  |-> e.status,
       started |-> IF sameState THEN previous.started ELSE now,
       count   |-> IF known THEN previous.count + 1 ELSE 1]

\* The entry update_session_cache builds from the previous entry and an event.
Merged(previous, e) ==
  LET known == previous # NoSession
      sameState == known /\ DisplayState(previous.status) = DisplayState(e.status)
      now == Stamp(e.at)
  IN  [first   |-> IF known THEN previous.first ELSE now,
       last    |-> now,
       status  |-> e.status,
       started |-> IF sameState THEN previous.started ELSE now,
       count   |-> IF known THEN previous.count + 1 ELSE 1]

\* Mutant: a retention of 0 prunes everything older than now.
ExpiredAtZero(entry, now, days) ==
  /\ entry # NoSession
  /\ entry.last + days < now

\* _prune_session_mapping drops an entry last seen before now - days; a
\* retention of 0 days disables it.
Expired(entry, now, days) ==
  /\ days > 0
  /\ entry # NoSession
  /\ entry.last + days < now

Pruned(index, now, days) ==
  [s \in Sessions |-> IF Expired(index[s], now, days) THEN NoSession ELSE index[s]]

\* The index a hook saves: its event merged in, then pruned at its own stamp.
AfterHook(index, e, days) ==
  Pruned([index EXCEPT ![e.session] = Merged(@, e)], Stamp(e.at), days)

\* reconcile_sessions examines only entries that still look active, and
\* accepts a terminal rollout event only when it is newer than last_seen_at.
Reconcilable(entry) == entry # NoSession /\ entry.status \in StaleEligible

\* Mutant: old evidence is accepted too.
SupersedesAlways(at, entry) == TRUE

Supersedes(at, entry) == at > entry.last

Reconciled(entry, status, at) ==
  [first |-> entry.first, last |-> at, status |-> status, started |-> at,
   count |-> entry.count + 1]
=============================================================================
