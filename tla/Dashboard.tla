------------------------------ MODULE Dashboard ------------------------------
(***************************************************************************)
(* RadarWebviewController of the VS Code extension: refreshes overlap at   *)
(* their awaits, previews arrive when they are ready, and the read marks   *)
(* of finished sessions live in the extension's own storage.               *)
(***************************************************************************)
EXTENDS SessionListing

CONSTANTS
  None,           \* no session, no list
  MaxRounds       \* bound on the refreshes and the preview panels together

ASSUME DashboardAssumption ==
  /\ None \notin Sessions /\ None \notin Indices
  /\ MaxRounds \in Nat

VARIABLES mode, serial, refreshes, shown, marks, panel, previews

dashboardVars == <<mode, serial, refreshes, shown, marks, panel, previews>>

Marks == SUBSET (Sessions \X (0 .. MaxChanges))

NoPanel ==
  [number |-> 0, open |-> FALSE, key |-> None, ready |-> FALSE, pending |-> None, seen |-> None]

\* shown.at is the age of the list that was shown last, panel.seen the session
\* that the webview has been given.
DashboardInit ==
  /\ mode \in {"direct", "export"}
  /\ serial = 0
  /\ refreshes = {}
  /\ shown = [at |-> 0, list |-> None, read |-> {}]
  /\ marks = {}
  /\ panel = NoPanel
  /\ previews = {}

-----------------------------------------------------------------------------
(* Read marks *)

Key(list, s) == <<s, list[s].last>>

Finished(list) == {s \in Known(list) : list[s].status = "done"}

\* pruneReadDoneKeys
Pruned(list) == marks \cap {Key(list, s) : s \in Finished(list)}

-----------------------------------------------------------------------------
(* refresh *)

Snapshot == [at |-> changes, list |-> index]

Refresh(update, stage, read) ==
  [serial |-> serial + 1, update |-> update, source |-> Snapshot, stage |-> stage,
   read |-> read]

\* readSource direct: the file is read, the marks are pruned and written in the
\* same turn of the event loop; otherwise the export command comes first.
StartRefresh(update) ==
  /\ serial + panel.number < MaxRounds
  /\ serial' = serial + 1
  /\ \/ /\ mode = "direct"
        /\ refreshes' = refreshes \cup {Refresh(update, "catalog", Pruned(index))}
        /\ marks' = Pruned(index)
     \/ /\ mode = "export"
        /\ refreshes' = refreshes \cup {Refresh(update, "export", {})}
        /\ UNCHANGED marks
  /\ UNCHANGED <<mode, shown, panel, previews>>

Replace(r, s) == refreshes' = (refreshes \ {r}) \cup {s}

\* The command reads the index when it runs.
ExportRead(r) ==
  /\ r.stage = "export"
  /\ Replace(r, [r EXCEPT !.stage = "loaded", !.source = Snapshot])
  /\ UNCHANGED <<mode, serial, shown, marks, panel, previews>>

\* readSource observe, and the fallback when the command fails: what was read
\* from the file at the start.
ExportUnused(r) ==
  /\ r.stage = "export"
  /\ Replace(r, [r EXCEPT !.stage = "loaded"])
  /\ UNCHANGED <<mode, serial, shown, marks, panel, previews>>

\* prunedReadKeys and decorateSessions, before it is known whether this is
\* still the latest refresh.
Decorate(r) ==
  /\ r.stage = "loaded"
  /\ marks' = Pruned(r.source.list)
  /\ Replace(r, [r EXCEPT !.stage = "catalog", !.read = Pruned(r.source.list)])
  /\ UNCHANGED <<mode, serial, shown, panel, previews>>

\* Mutant: the result of any refresh is taken.
IsAnyRefresh(r) == r.serial <= serial

IsLatest(r) == r.serial = serial

Request(p, s) == previews \cup {[panel |-> p.number, session |-> s]}

\* updatePreviewPanel
UpdatePreview(r) ==
  previews' = IF r.update /\ panel.open /\ panel.key \in Known(r.source.list)
              THEN Request(panel, panel.key) ELSE previews

\* After the catalog of threads, which is empty when it cannot be had.
Finish(r) ==
  /\ r.stage = "catalog"
  /\ refreshes' = refreshes \ {r}
  /\ IF IsLatest(r)
     THEN /\ shown' = [at |-> r.source.at, list |-> r.source.list, read |-> r.read]
          /\ UpdatePreview(r)
     ELSE UNCHANGED <<shown, previews>>
  /\ UNCHANGED <<mode, serial, marks, panel>>

\* An exception on the way: an empty dashboard, and no session to preview.
Fail(r) ==
  /\ refreshes' = refreshes \ {r}
  /\ shown' = IF IsLatest(r) THEN [shown EXCEPT !.list = None, !.read = {}] ELSE shown
  /\ UNCHANGED <<mode, serial, marks, panel, previews>>

-----------------------------------------------------------------------------
(* What the user does *)

Selectable == IF shown.list = None THEN {} ELSE Known(shown.list)

\* openPreview: from now on the panel is for this session.
OpenPreview(s) ==
  /\ s \in Selectable
  /\ panel.open \/ serial + panel.number < MaxRounds
  /\ LET opened == IF panel.open THEN panel
                   ELSE [panel EXCEPT !.number = @ + 1, !.open = TRUE]
     IN  /\ panel' = [opened EXCEPT !.key = s]
         /\ previews' = Request(opened, s)
  /\ UNCHANGED <<mode, serial, refreshes, shown, marks>>

ClosePanel ==
  /\ panel.open
  /\ panel' = [NoPanel EXCEPT !.number = panel.number]
  /\ UNCHANGED <<mode, serial, refreshes, shown, marks, previews>>

\* postPreviewState
Posted(p) ==
  IF p.ready /\ p.pending # None THEN [p EXCEPT !.seen = p.pending] ELSE p

\* Mutant: only the panel is compared, not the session.
IsForPanel(p) == panel.open /\ p.panel = panel.number

IsAwaited(p) == panel.open /\ p.panel = panel.number /\ p.session = panel.key

PreviewArrives(p) ==
  /\ previews' = previews \ {p}
  /\ panel' = IF IsAwaited(p) THEN Posted([panel EXCEPT !.pending = p.session]) ELSE panel
  /\ UNCHANGED <<mode, serial, refreshes, shown, marks>>

PreviewReady ==
  /\ panel.open /\ ~panel.ready
  /\ panel' = Posted([panel EXCEPT !.ready = TRUE])
  /\ UNCHANGED <<mode, serial, refreshes, shown, marks, previews>>

\* markSessionRead and markSessionUnread: read, changed and handed to the
\* storage in one turn; the refresh that follows is a step of its own.
MarkRead(s) ==
  /\ s \in Selectable
  /\ marks' = marks \cup {Key(shown.list, s)}
  /\ UNCHANGED <<mode, serial, refreshes, shown, panel, previews>>

MarkUnread(s) ==
  /\ s \in Selectable
  /\ Key(shown.list, s) \in marks
  /\ marks' = marks \ {Key(shown.list, s)}
  /\ UNCHANGED <<mode, serial, refreshes, shown, panel, previews>>

DashboardNext ==
  \/ \E update \in BOOLEAN : StartRefresh(update)
  \/ \E r \in refreshes :
       ExportRead(r) \/ ExportUnused(r) \/ Decorate(r) \/ Finish(r) \/ Fail(r)
  \/ \E s \in Sessions : OpenPreview(s) \/ MarkRead(s) \/ MarkUnread(s)
  \/ \E p \in previews : PreviewArrives(p)
  \/ ClosePanel
  \/ PreviewReady
=============================================================================
