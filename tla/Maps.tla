-------------------------------- MODULE Maps --------------------------------
(***************************************************************************)
(* The maps of the four modes.  The shell mounts one mode at a time; a     *)
(* change of mode throws one map away and makes another, while the theme   *)
(* stays as it is.                                                         *)
(***************************************************************************)
EXTENDS StyledMap

CONSTANTS Watched,     \* see TieMap
          MeriToggles  \* see MeriMap

Modes == {"meri", "raide", "tie", "ilma"}

(* An overlay on the map: the theme it is drawn for, whether it is shown,  *)
(* whether its data is there.                                              *)
Overlay == [ink : Themes, seen : BOOLEAN, full : BOOLEAN]

(* The feeds of the roads, and what the sea map can switch, have names of  *)
(* their own.                                                              *)
ASSUME MapsAssumption ==
  /\ None \notin Modes \cup Overlay
  /\ \A w \in Watched : "stations" \in w /\ "images" \notin w
  /\ MeriToggles \subseteq {"ports", "sea", "aton", "cameras"}

VARIABLE mode  \* the mode that is up

Raide == INSTANCE RaideMap

Ilma == INSTANCE IlmaMap

Tie == INSTANCE TieMap

Meri == INSTANCE MeriMap

allvars == <<theme, vis, map, jobs, mode>>

Mount ==
  \/ mode' = "raide" /\ Raide!Mount
  \/ mode' = "ilma" /\ Ilma!Mount
  \/ mode' = "tie" /\ Tie!Mount
  \/ mode' = "meri" /\ Meri!Mount

(* No mode is up before the first render has mounted one. *)
Init ==
  /\ theme \in Themes
  /\ mode = None
  /\ vis = None
  /\ jobs = {}
  /\ map = None

SwitchMode == Mount /\ mode' # mode /\ UNCHANGED theme

In(k) == mode = k /\ UNCHANGED mode

Next ==
  \/ SwitchMode
  \/ In("raide") /\ Raide!Next
  \/ In("ilma") /\ Ilma!Next
  \/ In("tie") /\ Tie!Next
  \/ In("meri") /\ Meri!Next

OnLoad ==
  \/ In("raide") /\ Raide!OnLoad
  \/ In("ilma") /\ Ilma!OnLoad
  \/ In("tie") /\ Tie!OnLoad
  \/ In("meri") /\ Meri!OnLoad

OnReady ==
  \/ In("raide") /\ Raide!OnReady
  \/ In("ilma") /\ Ilma!OnReady
  \/ In("tie") /\ Tie!OnReady
  \/ In("meri") /\ Meri!OnReady

IconsLoaded == (In("raide") /\ Raide!IconsLoaded) \/ (In("ilma") /\ Ilma!IconsLoaded)

(* A timer fires for one thing of each page, for one of these of Tie's. *)
Polls(raide, ilma, tie) ==
  \/ In("raide") /\ Raide!Poll(raide)
  \/ In("ilma") /\ Ilma!Poll(ilma)
  \/ In("tie") /\ \E o \in tie : Tie!Poll(o)

Answered(raide, ilma, tie) ==
  \/ In("raide") /\ Raide!Answer(raide, TRUE)
  \/ In("ilma") /\ Ilma!Answer(ilma, TRUE)
  \/ In("tie") /\ \E o \in tie : Tie!Answer(o, TRUE)

(* What Tie polls beside its stations: one feed, for Watched has pairs. *)
Others == Tie!Feeds \ {"stations"}

(* What follows on a style, each step once. *)
Follows == OnLoad \/ OnReady \/ IconsLoaded \/ (In("meri") /\ Meri!Effects)

(* What is external comes: the events of a style, the icons' images,       *)
(* effects and frames, timers; and an endpoint asked again and again does  *)
(* not fail for ever.  What the visitor does is free.                      *)
Fairness ==
  /\ WF_allvars(Follows)
  /\ WF_allvars(In("meri") /\ Meri!Frame)
  /\ WF_allvars(Polls("stations", "airports", {"stations"}))
  /\ SF_allvars(Answered("stations", "airports", {"stations"}))
  /\ WF_allvars(Polls("trains", "aircraft", Others))
  /\ SF_allvars(Answered("trains", "aircraft", Others))

Spec == Init /\ [][Next]_allvars /\ Fairness

-----------------------------------------------------------------------------

Asked(o) ==
  CASE mode = "raide" -> Raide!Asked(o)
    [] mode = "ilma"  -> Ilma!Asked(o)
    [] mode = "tie"   -> Tie!Asked(o)
    [] mode = "meri"  -> Meri!Asked(o)

Jobs ==
  CASE mode = "raide" -> {"icons", "stations then trains", "stations", "trains"}
    [] mode = "ilma"  -> {"icons", "airports", "aircraft"}
    [] mode = "tie"   -> (DOMAIN vis \cup {"install"}) \X (Themes \cup {None})
    [] mode = "meri"  -> {}

(* Every mode has a map of its own shape, and only the fetches and images  *)
(* of the mode that is up are under way: nothing of the mode before it     *)
(* goes on after the unmount.                                              *)
TypeOK ==
  /\ theme \in Themes /\ mode \in Modes \cup {None}
  /\ mode # None =>
       /\ jobs \subseteq Jobs
       /\ map.style \in Themes \cup {None}
       /\ Len(map.coming) <= MaxComing /\ \A i \in DOMAIN map.coming : map.coming[i] \in Themes
       /\ map.got \subseteq {"airports", "aircraft"}
       /\ {map.up, map.ready, map.heard, map.early, map.due} \subseteq BOOLEAN
       /\ \A o \in DOMAIN map.on : map.on[o] \in Overlay \cup {None}
       /\ \A o \in DOMAIN map.bound : map.bound[o] \in 0..2

OnTheMap == {o \in DOMAIN map.on : OnMap(map, o)}

(* What is on the map is shown if and only if the visitor asked for it,    *)
(* whenever it was added: by the install, by an answer that was under way  *)
(* when a layer was switched off, after a change of the theme.             *)
AsAsked == mode # None /\ ~map.due => \A o \in OnTheMap : map.on[o].seen = Asked(o)

(* No overlay is drawn in the colours of one theme over the basemap of the *)
(* other, unless an old style was taken for the new one.  Roadworks and    *)
(* incidents are left out: their colour is read before the fetch, and a    *)
(* theme that changes meanwhile is not seen (Call and Settles of TieMap).  *)
InkOfBasemap ==
  mode # None /\ ~map.early =>
    \A o \in OnTheMap \ (IF mode = "tie" THEN Tie!Poi ELSE {}) : map.on[o].ink = map.style

(* However often the layers are installed, the handlers of a layer that is *)
(* on the map are registered once: one click opens one panel.              *)
BoundOnce ==
  mode # None =>
    \A o \in DOMAIN map.bound : map.bound[o] <= 1 /\ (OnMap(map, o) => map.bound[o] = 1)

(* Every overlay is on the map, and what can be seen has its data. *)
Complete ==
  /\ mode # None
  /\ OnTheMap = DOMAIN map.on
  /\ \A o \in OnTheMap : map.on[o].seen => map.on[o].full

Settled == mode # None /\ map.coming = <<>> /\ ~map.early

(* After the last change of theme or mode, all overlays come back and stay *)
(* while the visitor leaves the scene alone.                               *)
OverlaysReturn == <>[]Settled => []<>Complete
=============================================================================
