---------------------------- MODULE TerminalViews ----------------------------
(***************************************************************************)
(* The two programs that show the index in a terminal for as long as they  *)
(* run: codex-radar tui, which draws the list again and again and resumes  *)
(* the selected session, and codex-radar watch, which prints one line for  *)
(* each session that has come to a watched status.                         *)
(***************************************************************************)
EXTENDS SessionListing

CONSTANTS
  Filters,      \* the filter options of a tui: [project, status, since]
  Heights,      \* rows for the list in the window sizes that occur, at least 1: a
                \* terminal of more than three lines
  Watched,      \* the statuses a watch alerts on
  Nothing

ASSUME TerminalAssumption ==
  /\ Heights \subseteq Nat \ {0}
  /\ Filters \subseteq [project : Projects \cup {Nothing}, status : Displayed \cup {Nothing},
                        since : Nat]
  /\ Watched \subseteq Displayed
  /\ Nothing \notin Projects /\ Nothing \notin Displayed /\ Nothing \notin Nat

VARIABLES tui, screen, watch, alerts, before

tuiVars == <<tui, screen>>
watchVars == <<watch, alerts, before>>

-----------------------------------------------------------------------------
(* tui: the list *)

Matches(filter, s) ==
  /\ filter.project \in {Nothing, Project[s]}
  /\ filter.status \in {Nothing, index[s].status}
  /\ index[s].last >= filter.since

Of(shown, p) == {s \in shown : Project[s] = p}

\* Projects in the order of their latest sessions, the sessions of one together.
Grouped(shown, less) ==
  {p \in shown \X shown :
     IF Project[p[1]] = Project[p[2]] THEN p \in less
     ELSE \E s \in Of(shown, Project[p[1]]) :
            \A t \in Of(shown, Project[p[2]]) : <<s, t>> \in less}

VisibleSessions(filter) ==
  LET shown == {s \in Known(index) : Matches(filter, s)}
  IN  Sorted(shown, Grouped(shown, Earlier(index)))

SessionRow(s) == [kind |-> "session", of |-> s]

GroupRow(p) == [kind |-> "group", of |-> p]

\* Where the sessions of another project than the one before begin.
Heads(list) ==
  {i \in DOMAIN list : i = 1 \/ Project[list[i]] # Project[list[i - 1]]}

\* The row of the i-th session, behind the headers so far.
RowOf(list, i) == i + Cardinality(Heads(list) \cap (1 .. i))

\* A header in front of the sessions of each project.
ViewRows(list) ==
  [k \in 1 .. RowOf(list, Len(list)) |->
     IF \E i \in DOMAIN list : k = RowOf(list, i)
     THEN SessionRow(list[CHOOSE i \in DOMAIN list : k = RowOf(list, i)])
     ELSE GroupRow(Project[list[CHOOSE i \in DOMAIN list : k = RowOf(list, i) - 1]])]

\* Mutant: moving up from the first row leaves the list.
ClampAbove(selected, list) ==
  IF list = <<>> THEN 0
  ELSE IF selected >= Len(list) THEN Len(list) - 1 ELSE selected

\* _selected_index: counted from 0, as in the code.
Clamp(selected, list) ==
  IF list = <<>> \/ selected < 0 THEN 0
  ELSE IF selected >= Len(list) THEN Len(list) - 1 ELSE selected

Largest(a, b) == IF a > b THEN a ELSE b
Smallest(a, b) == IF a < b THEN a ELSE b

\* Mutant: the header is shown also when the selected row then falls out below.
StartAtHeader(rows, selected, size) ==
  LET start == Smallest(Largest(0, selected - size + 1), Len(rows) - size)
      behindHeader == /\ start > 0
                      /\ rows[start + 1].kind = "session" /\ rows[start].kind = "group"
  IN  IF behindHeader THEN start - 1 ELSE start

\* The first row of the window; the header of its first session too, if the
\* selected row is then still inside.
Start(rows, selected, size) ==
  LET start == Smallest(Largest(0, selected - size + 1), Len(rows) - size)
      behindHeader == /\ start > 0
                      /\ rows[start + 1].kind = "session" /\ rows[start].kind = "group"
  IN  IF behindHeader /\ selected - (start - 1) < size THEN start - 1 ELSE start

ViewWindow(list, selected, size) ==
  LET rows == ViewRows(list)
      row == RowOf(list, selected + 1) - 1
      start == IF Len(rows) <= size THEN 0 ELSE Start(rows, row, size)
  IN  IF list = <<>> THEN [rows |-> <<>>, marked |-> 0]
      ELSE [rows |-> SubSeq(rows, start + 1, Smallest(start + size, Len(rows))),
            marked |-> Largest(0, row - start)]

-----------------------------------------------------------------------------
(* tui: the loop *)

TuiInit ==
  /\ tui \in {[phase |-> "draw", filter |-> f, selected |-> 0, list |-> <<>>,
               resumed |-> Nothing] : f \in Filters}
  /\ screen = [rows |-> <<>>, marked |-> 0]

Draw ==
  /\ tui.phase = "draw"
  /\ LET list == VisibleSessions(tui.filter)
         selected == Clamp(tui.selected, list)
     IN  /\ \E size \in Heights : screen' = ViewWindow(list, selected, size)
         /\ tui' = [tui EXCEPT !.phase = "keys", !.list = list, !.selected = selected]

\* The refresh interval is over, or r, or a return that cannot be followed.
Redraw ==
  /\ tui.phase = "keys"
  /\ tui' = [tui EXCEPT !.phase = "draw"]
  /\ UNCHANGED screen

Move(delta) ==
  /\ tui.phase = "keys"
  /\ tui' = [tui EXCEPT !.phase = "draw", !.selected = Clamp(tui.selected + delta, tui.list)]
  /\ UNCHANGED screen

\* Return leaves the screen for codex resume, with the session of the list
\* that was drawn; a session without an id of its own cannot be resumed.
Resume ==
  /\ tui.phase = "keys" /\ tui.list # <<>>
  /\ LET s == tui.list[tui.selected + 1] IN
       /\ s \notin Anonymous
       /\ tui' = [tui EXCEPT !.phase = "left", !.resumed = s]
  /\ UNCHANGED screen

Quit ==
  /\ tui.phase = "keys"
  /\ tui' = [tui EXCEPT !.phase = "left"]
  /\ UNCHANGED screen

TuiNext == Draw \/ Redraw \/ Move(1) \/ Move(-1) \/ Resume \/ Quit

-----------------------------------------------------------------------------
(* watch *)

\* The sessions in a watched status, with the stamp that tells their changes apart.
Matching == {s \in Known(index) : index[s].status \in Watched}

\* Options --once and --include-existing.
WatchInit ==
  /\ watch \in [phase : {"start"}, once : BOOLEAN, existing : BOOLEAN,
                seen : {[s \in Sessions |-> Nothing]}]
  /\ alerts = <<>>
  /\ before = [s \in Sessions |-> Nothing]

\* Mutant: what is there already is not remembered.
SeedNothing(seen) == seen

\* seed_seen
Seed(seen) == [s \in Sessions |-> IF s \in Matching THEN index[s].last ELSE seen[s]]

\* before records, for the properties, the stamps that were there already.
StartWatch ==
  /\ watch.phase = "start"
  /\ watch' = [watch EXCEPT !.phase = "poll",
                            !.seen = IF watch.existing THEN @ ELSE Seed(@)]
  /\ before' = [s \in Sessions |->
                IF s \in Matching /\ ~watch.existing THEN index[s].last ELSE Nothing]
  /\ UNCHANGED alerts

\* watch_alerts
Due(s) == s \in Matching /\ watch.seen[s] # index[s].last

Poll ==
  /\ watch.phase = "poll"
  /\ LET due == Sorted({s \in Sessions : Due(s)}, Earlier(index))
     IN  /\ alerts' = alerts \o [i \in DOMAIN due |-> <<due[i], index[due[i]].last>>]
         /\ watch' = [watch EXCEPT !.phase = IF watch.once THEN "ended" ELSE "poll",
                                   !.seen = [s \in Sessions |->
                                     IF Due(s) THEN index[s].last ELSE @[s]]]
  /\ UNCHANGED before

Interrupt ==
  /\ watch.phase = "poll"
  /\ watch' = [watch EXCEPT !.phase = "ended"]
  /\ UNCHANGED <<alerts, before>>

WatchNext == StartWatch \/ Poll \/ Interrupt
=============================================================================
