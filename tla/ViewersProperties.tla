-------------------------- MODULE ViewersProperties --------------------------
(* What the readers of the index promise while it changes under them. *)
EXTENDS Viewers

SessionOrNone == Sessions \cup {None}

Lists == [at : 0 .. MaxChanges, list : Indices]

\* The variables of the index and of its readers have their types.
TypeOK ==
  /\ index \in Indices
  /\ {latest, changes} \subseteq 0 .. MaxChanges
  /\ prune \in [loaded : BOOLEAN, kept : Indices]
  /\ tui \in [phase : {"draw", "keys", "left"}, filter : Filters, selected : Nat,
              list : Seq(Sessions), resumed : Sessions \cup {Nothing}]
  /\ screen.marked \in Nat
  /\ \A i \in DOMAIN screen.rows :
       screen.rows[i] \in [kind : {"session"}, of : Sessions] \cup [kind : {"group"}, of : Projects]
  /\ watch \in [phase : {"start", "poll", "ended"}, once : BOOLEAN, existing : BOOLEAN,
                seen : [Sessions -> (0 .. MaxChanges) \cup {Nothing}]]
  /\ before \in [Sessions -> (0 .. MaxChanges) \cup {Nothing}]
  /\ rollouts \in [Sessions -> Places \cup {"absent"}]
  /\ export.archive \in [Sessions -> ArchiveStates]
  /\ export.pending \cup export.attention \subseteq export.sessions
  /\ export.listed \subseteq Sessions \X Places
  /\ Cardinality(export.listed) <= FileLimit
  /\ \A r \in refreshes : /\ r.serial \in 1 .. serial
                          /\ r.source \in Lists
                          /\ r.read \in Marks
  /\ marks \in Marks
  /\ shown.list \in Indices \cup {None}
  /\ {panel.key, panel.pending, panel.seen} \subseteq SessionOrNone
  /\ previews \subseteq [panel : 1 .. MaxRounds, session : Sessions]

\* The session that the return key would resume is the one marked on the
\* screen, which the window always contains, and so is the one resumed,
\* whatever happened to the index since it was drawn (_view_window, run_tui).
ResumedWasMarked ==
  /\ tui.phase = "keys" /\ tui.list # <<>> =>
       /\ screen.marked + 1 \in DOMAIN screen.rows
       /\ screen.rows[screen.marked + 1] = SessionRow(tui.list[tui.selected + 1])
  /\ tui.resumed # Nothing =>
       /\ screen.rows[screen.marked + 1] = SessionRow(tui.resumed)
       /\ tui.resumed \notin Anonymous

\* The stamp of a session's last alert, or the one it had before the watch.
Said(s) ==
  LET of == {i \in DOMAIN alerts : alerts[i][1] = s}
  IN  IF of = {} THEN before[s]
      ELSE alerts[CHOOSE i \in of : \A j \in of : j <= i][2]

\* A poll alerts once each session that it finds in a watched status with
\* another stamp than it last said of it, be it later or earlier, and no other:
\* none twice in a row with one stamp, however often it left the status or the
\* index meanwhile, none that is as it was before the watch, and nothing new
\* that the poll finds goes unsaid (seed_seen and watch_alerts remember one
\* stamp of each session).
AlertedOnce ==
  [][Poll =>
       LET said == SubSeq(alerts', Len(alerts) + 1, Len(alerts'))
           news == {s \in Matching : index[s].last # Said(s)}
       IN  /\ {said[i] : i \in DOMAIN said} = {<<s, index[s].last>> : s \in news}
           /\ Len(said) = Cardinality(news)]_vars

\* An exported archive state is one that the file really had during the
\* export; "unknown" is said only of a file that was not there at some time,
\* lay beyond the limit, or moved: twice at least if its path is recorded,
\* because the path is looked at after both listings (_candidate_for_session).
ArchiveStateHeld ==
  export.stage = "ended" /\ export.wanted = Sessions =>
    \A s \in export.sessions :
      IF export.archive[s] # "unknown" THEN export.archive[s] \in export.held[s]
      ELSE \/ "absent" \in export.held[s]
           \/ export.full
           \/ moved[s] >= (IF s \in Recorded THEN 2 ELSE 1)

\* Refreshes overlap and finish in any order, with what they read at their
\* start or later: the dashboard never goes back to an older list.
DashboardNeverOlder == [][shown'.at >= shown.at]_vars

\* The preview stays with the session that the user opened: once the panel
\* shows it, no refresh and no late answer puts another in its place.
PreviewStays ==
  [][panel.open /\ panel.key # None /\ panel.seen = panel.key
       /\ panel'.open /\ panel'.key = panel.key => panel'.seen = panel.key]_vars
=============================================================================
