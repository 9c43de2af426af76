--------------------------- MODULE SessionListing ---------------------------
(***************************************************************************)
(* The session index as its readers see it: sessions.json is replaced      *)
(* whole, so that a read gives the index of one moment (SessionStore has   *)
(* the writers in detail).  Here hooks, reconciliation, pruning and the    *)
(* passing of time change it between any two steps of a reader.            *)
(***************************************************************************)
EXTENDS Ordering

CONSTANTS
  Sessions,     \* session ids: naturals, in the order in which the file has them
  Projects,
  Project,      \* the project that each session's directory stands for
  Anonymous,    \* the sessions that a hook without an id made
  Absent,       \* the index has no entry for an id
  MaxChanges    \* bound on the changes of the index

VARIABLES
  index,
  latest,       \* the latest stamp there has been
  changes,
  prune         \* what codex-radar prune has read and is about to write

listingVars == <<index, latest, changes, prune>>

\* session_display_status: what is stored, or "stale".
Displayed == {"running", "waiting_approval", "done", "unknown", "stale"}

Entry == [status : Displayed, last : 0 .. MaxChanges]

ASSUME ListingAssumption ==
  /\ Sessions \subseteq Nat /\ IsFiniteSet(Sessions)
  /\ Project \in [Sessions -> Projects]
  /\ Anonymous \subseteq Sessions
  /\ Absent \notin Entry
  /\ MaxChanges \in Nat

Indices == [Sessions -> Entry \cup {Absent}]

NoSessions == [s \in Sessions |-> Absent]

NoPrune == [loaded |-> FALSE, kept |-> NoSessions]

Known(idx) == {s \in Sessions : idx[s] # Absent}

\* iter_sessions: the latest first, and within one stamp as the file has them.
Earlier(idx) ==
  {p \in Known(idx) \X Known(idx) :
     \/ idx[p[1]].last > idx[p[2]].last
     \/ idx[p[1]].last = idx[p[2]].last /\ p[1] < p[2]}

ListingInit(scope) ==
  /\ index \in {NoSessions,
                [s \in Sessions |-> IF s \in scope THEN [status |-> "done", last |-> 0]
                                   ELSE Absent]}
  /\ latest = 0
  /\ changes = 0
  /\ prune = NoPrune

Write(idx) ==
  /\ index' = idx
  /\ changes' = changes + 1

Stamped(at) == latest' = IF at > latest THEN at ELSE latest

With(s, status, at) == [index EXCEPT ![s] = [status |-> status, last |-> at]]

\* _prune_session_mapping: without the sessions last seen before the cutoff.
Kept(idx, cutoff) ==
  [s \in Sessions |-> IF s \in Known(idx) /\ idx[s].last < cutoff THEN Absent ELSE idx[s]]

\* A hook.  It is stamped before it waits for the lock, so that it may be merged
\* behind a hook with a later stamp; what is too old then goes.
Hook(s) ==
  \E status \in {"running", "waiting_approval", "done"}, at \in 0 .. latest + 1 :
    \E cutoff \in 0 .. at :
      /\ Stamped(at)
      /\ Write(Kept(With(s, status, at), cutoff))
      /\ UNCHANGED prune

\* Reconciliation ends a turn at the time of the rollout's last event, if that is
\* later than what is recorded.
Reconcile(s) ==
  /\ index[s] # Absent /\ index[s].status \in {"running", "stale"}
  /\ \E status \in {"done", "unknown"}, at \in index[s].last + 1 .. latest + 1 :
       /\ Stamped(at)
       /\ Write(With(s, status, at))
  /\ UNCHANGED prune

Aged(idx, limit) ==
  [s \in Sessions |->
     IF s \in Known(idx) /\ idx[s].status = "running" /\ idx[s].last <= limit
     THEN [idx[s] EXCEPT !.status = "stale"] ELSE idx[s]]

\* is_stale_session: nothing is written, only the time goes by.
GrowStale(limit) ==
  /\ Aged(index, limit) # index
  /\ Write(Aged(index, limit))
  /\ prune' = [prune EXCEPT !.kept = Aged(@, limit)]
  /\ UNCHANGED latest

\* prune_sessions takes no lock: what it writes is the index as it was read,
\* whatever has been recorded since.
LoadPrune ==
  /\ ~prune.loaded
  /\ \E cutoff \in 1 .. latest + 1 :
       /\ Kept(index, cutoff) # index
       /\ prune' = [loaded |-> TRUE, kept |-> Kept(index, cutoff)]
  /\ UNCHANGED <<index, latest, changes>>

SavePrune ==
  /\ prune.loaded
  /\ Write(prune.kept)
  /\ prune' = NoPrune
  /\ UNCHANGED latest

ListingNext(scope, bound) ==
  /\ changes < bound
  /\ \/ \E s \in scope : Hook(s) \/ Reconcile(s)
     \/ \E limit \in 0 .. latest : GrowStale(limit)
     \/ LoadPrune
     \/ SavePrune
=============================================================================
