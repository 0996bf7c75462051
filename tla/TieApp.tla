------------------------------- MODULE TieApp -------------------------------
(***************************************************************************)
(* The page of the roads: one thing of one of five kinds is selected, and  *)
(* all its details come with it.                                           *)
(***************************************************************************)
EXTENDS Panels

CONSTANT Places  \* pairs of a kind and an id

Key(s) == s.selection

Nothing == [selection |-> None]

Mount == sel' = Nothing /\ Opened(None) /\ Unmount

Selected(s) ==
  /\ sel' = s
  /\ Rendered(Key(s), view)
  /\ UNCHANGED <<screen, panel, loads, focus>>

(* A marker is tapped, or a result of the search picked. *)
Select(p) ==
  /\ MapInSight \/ SearchInSight
  /\ Selected([selection |-> p])
  /\ RevealDetail

ClearSelection == HasSelection /\ Selected(Nothing) /\ UNCHANGED folds

Selects == \E p \in Places : Select(p)

Next == Selects \/ ClearSelection \/ Panes
=============================================================================
