------------------------------- MODULE Viewers -------------------------------
(***************************************************************************)
(* One reader of the session index beside everything that writes it.  The  *)
(* readers do not know of each other, so that each is looked at alone.     *)
(***************************************************************************)
EXTENDS TerminalViews, ExportAdapter, Dashboard

CONSTANTS
  Scope,        \* the sessions that occur beside each reader
  Changes       \* bound on the changes of the index beside each reader

Readers == {"tui", "watch", "export", "dashboard"}

ASSUME ViewersAssumption ==
  Scope \in [Readers -> SUBSET Sessions] /\ Changes \in [Readers -> 0 .. MaxChanges]

VARIABLE viewer

vars == <<listingVars, tuiVars, watchVars, exportVars, dashboardVars, viewer>>

Init ==
  /\ viewer \in Readers
  /\ ListingInit(Scope[viewer])
  /\ TuiInit
  /\ WatchInit
  /\ ExportInit
  /\ DashboardInit
  /\ viewer # "tui" => tui.filter = CHOOSE f \in Filters : TRUE
  /\ viewer # "watch" => watch.once /\ watch.existing
  /\ \A s \in Sessions \ Scope["export"] : rollouts[s] = "absent"
  /\ viewer # "export" => \A s \in Sessions : rollouts[s] = "absent"
  /\ viewer # "dashboard" => mode = "direct"

Next ==
  \/ /\ viewer = "tui" /\ TuiNext
     /\ UNCHANGED <<listingVars, watchVars, exportVars, dashboardVars, viewer>>
  \/ /\ viewer = "watch" /\ WatchNext
     /\ UNCHANGED <<listingVars, tuiVars, exportVars, dashboardVars, viewer>>
  \/ /\ viewer = "export" /\ ExportNext
     /\ UNCHANGED <<listingVars, tuiVars, watchVars, dashboardVars, viewer>>
  \/ /\ viewer = "dashboard" /\ DashboardNext
     /\ UNCHANGED <<listingVars, tuiVars, watchVars, exportVars, viewer>>
  \/ /\ ListingNext(Scope[viewer], Changes[viewer])
     /\ UNCHANGED <<tuiVars, watchVars, exportVars, dashboardVars, viewer>>

Spec == Init /\ [][Next]_vars
=============================================================================
