---------------------------- MODULE ExportAdapter ----------------------------
(***************************************************************************)
(* codex-radar export (and the reads of codex-radar mobile rpc): the index *)
(* is read, then the rollout files are listed, first those under sessions/ *)
(* and then those under archived_sessions/, and then every session is      *)
(* looked up.  Codex may archive, unarchive or remove a file in between.   *)
(***************************************************************************)
EXTENDS SessionListing

CONSTANTS
  Recorded,     \* the sessions whose transcript_path, under sessions/, is in the index
  FileLimit,    \* MAX_TRANSCRIPT_FILES
  MaxMoves      \* bound on the moves of rollout files

ASSUME ExportAssumption ==
  Recorded \subseteq Sessions /\ FileLimit \in Nat /\ MaxMoves \in Nat

VARIABLES rollouts, moved, export

exportVars == <<rollouts, moved, export>>

Places == {"active", "archived"}

ArchiveStates == Places \cup {"unknown"}

NoResult == [s \in Sessions |-> "unknown"]

\* held and moved record, for the properties, where each file has been since
\* the export began, and how often it was moved.
ExportInit ==
  /\ rollouts \in [Sessions -> Places \cup {"absent"}]
  /\ moved = [s \in Sessions |-> 0]
  /\ export = [stage |-> "idle", wanted |-> {}, source |-> "ready", sessions |-> {},
               listed |-> {}, full |-> FALSE, archive |-> NoResult, pending |-> {},
               code |-> "", attention |-> {}, held |-> [s \in Sessions |-> {rollouts[s]}]]

\* Codex (external): archive, unarchive, delete.
MoveRollout(s) ==
  /\ moved[s] < MaxMoves
  /\ \E place \in (Places \cup {"absent"}) \ {rollouts[s]} :
       /\ rollouts[s] # "absent"
       /\ rollouts' = [rollouts EXCEPT ![s] = place]
       /\ moved' = [moved EXCEPT ![s] = @ + 1]
       /\ export' = [export EXCEPT !.held[s] = @ \cup {place}]

\* _load_session_source: a file that is not an index of this version, the index,
\* of which entries may be unusable, or no file yet, which no entry means too.
Sources(idx) ==
  [status : {"ready"}, sessions : {Known(idx)}] \cup [status : {"invalid"}, sessions : {{}}]
    \cup (IF Known(idx) = {} THEN [status : {"unavailable"}, sessions : {{}}] ELSE {})

\* export_display_state looks up every session, export_transcript_preview one,
\* which it refuses at once when the index has none such.
Targets(wanted, source) ==
  IF wanted = Sessions THEN source.sessions ELSE wanted \cap source.sessions

RefusalCode(wanted, source) ==
  IF wanted = Sessions \/ Targets(wanted, source) # {} THEN ""
  ELSE IF source.status = "ready" THEN "session_not_found" ELSE "state_unavailable"

Begin(wanted) ==
  /\ export.stage = "idle"
  /\ \E source \in Sources(index) :
       export' = [export EXCEPT
         !.stage = IF Targets(wanted, source) = {} THEN "ended" ELSE "active",
         !.wanted = wanted, !.source = source.status, !.sessions = source.sessions,
         !.attention = {s \in source.sessions : index[s].status = "waiting_approval"},
         !.pending = Targets(wanted, source), !.code = RefusalCode(wanted, source),
         !.held = [s \in Sessions |-> {rollouts[s]}]]
  /\ moved' = [s \in Sessions |-> 0]
  /\ UNCHANGED rollouts

In(place) == {s \in Sessions : rollouts[s] = place}

\* _candidate_files: the count of visited files runs on from one root to the other.
List(place, next) ==
  /\ export.stage = place
  /\ LET room == FileLimit - Cardinality(export.listed)
         full == export.full \/ Cardinality(In(place)) > room
     IN  \E found \in SUBSET In(place) :
           /\ IF export.full THEN found = {}
              ELSE IF full THEN Cardinality(found) = room ELSE found = In(place)
           /\ export' = [export EXCEPT !.stage = next, !.full = full,
                           !.listed = @ \cup {<<s, place>> : s \in found}]
  /\ UNCHANGED <<rollouts, moved>>

\* The listed candidates whose file has the name of the session: _newest may
\* be either when the file was moved, and perhaps written, between the listings.
Newest(s) == {place \in Places : <<s, place>> \in export.listed}

\* Mutant: the recorded path is not looked at.
CandidateByName(s) == Newest(s)

\* _candidate_for_session: the recorded path if there is a file, listed or not,
\* and otherwise a listed file of that name.
Candidates(s) ==
  IF s \in Recorded /\ rollouts[s] = "active" THEN {"active"} ELSE Newest(s)

Resolve(s) ==
  /\ export.stage = "resolve" /\ s \in export.pending
  /\ \E place \in IF Candidates(s) = {} THEN {"unknown"} ELSE Candidates(s) :
       export' = [export EXCEPT !.archive[s] = place, !.pending = @ \ {s}]
  /\ UNCHANGED <<rollouts, moved>>

\* requires_attention is for the sessions that are not archived.
Build ==
  /\ export.stage = "resolve" /\ export.pending = {} /\ export.wanted = Sessions
  /\ export' = [export EXCEPT
       !.stage = "ended",
       !.attention = {s \in @ : export.archive[s] # "archived"}]
  /\ UNCHANGED <<rollouts, moved>>

\* The preview opens the candidate, which may have gone since it was found.
OpenCandidate(s) ==
  /\ export.stage = "resolve" /\ export.pending = {} /\ export.wanted = {s}
  /\ export' = [export EXCEPT
       !.stage = "ended",
       !.code = CASE export.archive[s] = "unknown" -> "transcript_unavailable"
                  [] export.archive[s] = rollouts[s] -> "read"
                  [] OTHER -> "transcript_unreadable"]
  /\ UNCHANGED <<rollouts, moved>>

\* The next request of the same process, or the next process.
Again ==
  /\ export.stage = "ended"
  /\ export' = [export EXCEPT !.stage = "idle", !.wanted = {}, !.source = "ready",
                  !.sessions = {}, !.listed = {}, !.full = FALSE, !.archive = NoResult,
                  !.code = "", !.attention = {}]
  /\ UNCHANGED <<rollouts, moved>>

ExportNext ==
  \/ Begin(Sessions)
  \/ List("active", "archived")
  \/ List("archived", "resolve")
  \/ Build
  \/ Again
  \/ \E s \in Sessions : Begin({s}) \/ Resolve(s) \/ OpenCandidate(s) \/ MoveRollout(s)
=============================================================================
