------------------------------- MODULE Panels -------------------------------
(***************************************************************************)
(* What the pages of the four modes share: something selected on the map,  *)
(* a panel of filters, a panel of details, and what the details have       *)
(* fetched about the selection.                                            *)
(*                                                                         *)
(* A wide screen has both panels as rails, and so has a phone on its side. *)
(* On a phone held upright a panel is a page over the map, and the two     *)
(* take turns.                                                             *)
(*                                                                         *)
(* A click, its render and its effects are one step.                       *)
(***************************************************************************)
EXTENDS Naturals, FiniteSets

CONSTANT None  \* null

VARIABLES
  screen,   \* what the two media queries say
  sel,      \* what is selected, per kind
  folds,    \* isFilterCollapsed and isDetailCollapsed
  view,     \* what the phone's one sheet shows
  lastKey,  \* the selection as it was last rendered
  browsed,  \* history: the filters were asked for over this selection
  panel,    \* what the fetched part of the details is about
  loads,    \* fetches under way for the details
  focus     \* where the page has last sent the map

vars == <<screen, sel, folds, view, lastKey, browsed, panel, loads, focus>>

Screens == {"wide", "tall", "short"}

IsMobile == screen # "wide"

AsRail == screen # "tall"

HasSelection == lastKey # None

(* Whether each panel is there; rails do not ask. *)
BrowseOpen == ~IsMobile \/ ~HasSelection \/ view = "browse"

DetailOpen == ~IsMobile \/ view = "detail"

(* Faulty: only a selection after none shows the details. *)
FaultyRendered(key, v) ==
  /\ lastKey' = key
  /\ view' = IF lastKey = None /\ key # None THEN "detail" ELSE v
  /\ browsed' = ((browsed \/ v # view) /\ key = lastKey)

(* useSheetView in a render: a new selection shows its details. *)
Rendered(key, v) ==
  /\ lastKey' = key
  /\ view' = IF key # lastKey /\ key # None THEN "detail" ELSE v
  /\ browsed' = ((browsed \/ v # view) /\ key = lastKey)

(* revealDetail, onSelectionMade *)
RevealDetail == folds' = [filter |-> folds.filter \/ IsMobile, detail |-> FALSE]

(* The element of the new list that is what the old one was, if any is.    *)
Refound(prev, next, key) ==
  IF prev # None /\ \E t \in next : key[t] = key[prev]
    THEN CHOOSE t \in next : key[t] = key[prev]
    ELSE prev

(* Faulty: the effect has no cleanup. *)
FaultyCancelled == loads

(* The cleanup of an effect that fetches: its answers will be ignored. *)
Cancelled == {[l EXCEPT !.live = FALSE] : l \in loads}

Request(id) == [of |-> id, live |-> TRUE]

(* An effect that fetches runs again, for something or for nothing. *)
Refetches(id) == loads' = Cancelled \cup (IF id = None THEN {} ELSE {Request(id)})

Answered(l, taken) ==
  /\ loads' = loads \ {l}
  /\ panel' = IF taken THEN l.of ELSE panel
  /\ UNCHANGED <<screen, sel, folds, view, lastKey, browsed, focus>>

(* Faulty: what the page has fetched for goes on. *)
FaultyUnmount == UNCHANGED loads

(* The page of a mode is left: its effects are cleaned up. *)
Unmount == loads' = {}

(* The state a page starts with; the filters are folded on a phone. *)
Opened(key) ==
  /\ folds' = [filter |-> screen' # "wide", detail |-> FALSE]
  /\ view' = "detail" /\ lastKey' = key /\ browsed' = FALSE
  /\ panel' = None /\ focus' = None

Stay == UNCHANGED <<sel, panel, loads, focus>>

Fold(p) == folds' = [folds EXCEPT ![p] = ~@]

(* onToggleCollapse of the filters: the launcher, Escape on the page, the  *)
(* sliver of a rail.                                                       *)
ToggleFilters(open) ==
  /\ (screen = "tall" => open) /\ (screen = "short" => folds.filter)
  /\ Fold("filter") /\ Rendered(lastKey, view)
  /\ Stay /\ UNCHANGED screen

(* closePanel, the button in the header of the filters on a phone. *)
CloseFilters(open) ==
  /\ IsMobile /\ (screen = "tall" => open /\ ~folds.filter)
  /\ Fold("filter")
  /\ Rendered(lastKey, IF HasSelection THEN "detail" ELSE view)
  /\ Stay /\ UNCHANGED screen

(* The row at the top of the filters. *)
BackToSelection(open) ==
  /\ IsMobile /\ HasSelection /\ (screen = "tall" => open /\ ~folds.filter)
  /\ Rendered(lastKey, "detail")
  /\ Stay /\ UNCHANGED <<screen, folds>>

(* BrowseButton, in the header of the details on a phone. *)
ShowBrowse ==
  /\ IsMobile /\ HasSelection /\ (screen = "tall" => DetailOpen)
  /\ Rendered(lastKey, "browse")
  /\ Stay /\ UNCHANGED <<screen, folds>>

(* The details fold into a sliver; a page cannot. *)
ToggleDetail ==
  /\ AsRail /\ HasSelection
  /\ Fold("detail") /\ Rendered(lastKey, view)
  /\ Stay /\ UNCHANGED screen

(* The phone is turned, or the window resized. *)
Rotate ==
  /\ screen' \in Screens \ {screen}
  /\ Rendered(lastKey, view)
  /\ Stay /\ UNCHANGED folds

(* pageUp and onMap, as Raide, Ilma and Tie have them. *)
PageUp == (HasSelection /\ DetailOpen) \/ (BrowseOpen /\ ~folds.filter)

OnMap == screen = "tall" /\ ~PageUp

(* The map can be tapped, or searched from the pill on it or from a rail:  *)
(* the page of the details covers it all, the filters leave some of it.    *)
MapInSight == screen = "tall" => ~(HasSelection /\ DetailOpen)

SearchInSight == AsRail \/ OnMap

Panes ==
  \/ ToggleFilters(BrowseOpen) \/ CloseFilters(BrowseOpen) \/ BackToSelection(BrowseOpen)
  \/ ShowBrowse \/ ToggleDetail \/ Rotate
=============================================================================
