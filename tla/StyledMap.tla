------------------------------ MODULE StyledMap ------------------------------
(***************************************************************************)
(* What the four maps of the page share: a MapLibre map whose basemap      *)
(* follows the theme of the shell, and overlays of our own that live in    *)
(* the style of that basemap and are thrown away with it.                  *)
(*                                                                         *)
(* MapLibre is modelled from its use.  setStyle asks for a style and       *)
(* returns; the style on the map stays until the new one's document has    *)
(* come.  "styledata" is announced when a style loads and on every change  *)
(* of it (a layer shown or hidden, an image added), so a listener may hear *)
(* it before the style it waits for has come.                              *)
(*                                                                         *)
(* A click, its render and its effects are one step: React runs the        *)
(* effects of a click before any other callback.                           *)
(***************************************************************************)
EXTENDS Naturals, Sequences

CONSTANTS None,      \* null, and an overlay that is not on the map
          MaxComing  \* bound: styles asked for that have not come yet

ASSUME StyledMapAssumption == MaxComing \in Nat \ {0}

VARIABLES
  theme,  \* theme of the shell; the maps' themeRef and styleThemeRef
  vis,    \* what the visitor wants to see, per key; visibilityRef
  map,    \* the map of the mode that is up
  jobs    \* what its mount effect has under way: fetches and images

vars == <<theme, vis, map, jobs>>

Themes == {"dark", "light"}

(* The mount effect is left: its timers are cleared, its map is removed,   *)
(* and what its fetches still answer finds no map.                         *)
FaultyUnmount == UNCHANGED jobs

Unmount == jobs' = {}

(* A map that has just been made, with its overlays, and for each overlay  *)
(* that can be clicked the number of times its handlers were registered.   *)
NewMap(overlays, clickable) ==
  [style  |-> None,                          \* theme of the basemap
   coming |-> <<theme>>,                     \* styles asked for
   up     |-> FALSE,                         \* "load" has been announced
   ready  |-> FALSE,                         \* styleReadyRef
   heard  |-> FALSE,                         \* somebody waits for styledata
   early  |-> FALSE,                         \* history: an old style was taken
                                             \* for the one that was asked for
   due    |-> FALSE,                         \* effects are still to run
   got    |-> {},                            \* data that refs keep over styles
   on     |-> [o \in overlays |-> None],
   bound  |-> [o \in clickable |-> 0]]

(* Faulty: nobody listens for the new style. *)
FaultySetStyle(m, t) ==
  [m EXCEPT !.coming = Append(@, t), !.ready = FALSE]

(* setStyle, and the listener that goes with it. *)
SetStyle(m, t) ==
  [m EXCEPT !.coming = Append(@, t), !.ready = FALSE, !.heard = TRUE]

(* The document of the next style is there: everything of ours is gone. *)
StyleArrives ==
  /\ map.coming # <<>>
  /\ map' = [map EXCEPT !.style = Head(map.coming),
                        !.coming = Tail(@),
                        !.early = @ /\ map.ready,
                        !.on = [o \in DOMAIN @ |-> None]]
  /\ UNCHANGED <<theme, vis, jobs>>

(* "styledata": the listener lets go; it may be about the old style. *)
Hears == map.heard /\ map.style # None

Heard == [map EXCEPT !.ready = TRUE, !.heard = FALSE, !.early = map.coming # <<>>]

(* "load", once in the life of a map. *)
Loads == ~map.up /\ map.style # None

Loaded == [map EXCEPT !.up = TRUE, !.ready = TRUE, !.early = map.coming # <<>>]

OnMap(m, o) == m.on[o] # None

(* addSource and addLayer, as drawn says, for the overlays not yet there. *)
Add(m, drawn) ==
  [m EXCEPT !.on = [o \in DOMAIN @ |-> IF o \in DOMAIN drawn /\ @[o] = None THEN drawn[o] ELSE @[o]]]

(* setLayersVisible: layers that are not on the map are left out. *)
Show(m, seen) ==
  [m EXCEPT !.on = [o \in DOMAIN @ |->
     IF @[o] = None THEN None ELSE [@[o] EXCEPT !.seen = seen[o]]]]

(* Data goes into, or leaves, the sources of some overlays. *)
Fill(m, os, full) ==
  [m EXCEPT !.on = [o \in DOMAIN @ |->
     IF o \in os /\ @[o] # None THEN [@[o] EXCEPT !.full = full] ELSE @[o]]]

(* Faulty: the handlers are registered on every install. *)
FaultyBind(m, os) ==
  [m EXCEPT !.bound = [o \in DOMAIN @ |-> IF o \in os THEN IF @[o] = 0 THEN 1 ELSE 2 ELSE @[o]]]

(* bindOnce *)
Bind(m, os) == [m EXCEPT !.bound = [o \in DOMAIN @ |-> IF o \in os THEN 1 ELSE @[o]]]

CanSwitchTheme == Len(map.coming) < MaxComing

Other(t) == IF t = "dark" THEN "light" ELSE "dark"

(* Two calls of a kind that are under way are one. *)
Start(kinds) == jobs' = jobs \cup kinds

(* The maps' part in a click on the theme button. *)
ThemeEffect ==
  /\ CanSwitchTheme
  /\ theme' = Other(theme)
  /\ map' = SetStyle(map, theme')
  /\ UNCHANGED <<vis, jobs>>
=============================================================================
