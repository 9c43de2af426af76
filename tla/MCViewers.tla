------------------------------ MODULE MCViewers ------------------------------
(* Small instances of the readers of the index. *)
EXTENDS ViewersProperties, TLC

CONSTANTS web, app

MCProject == (1 :> web) @@ (2 :> app) @@ (3 :> web)

MCFilters ==
  {[project |-> Nothing, status |-> Nothing, since |-> 0],
   [project |-> web, status |-> Nothing, since |-> 0],
   [project |-> Nothing, status |-> "done", since |-> 1]}

MCScope ==
  [tui |-> {1, 2, 3}, watch |-> {1, 2}, export |-> {1, 2}, dashboard |-> {1, 2}]

MCChanges == [tui |-> 2, watch |-> 3, export |-> 1, dashboard |-> 1]
=============================================================================
