------------------------------- MODULE TieMap -------------------------------
(***************************************************************************)
(* The road map: nine feeds, each fetched by a function of its own and     *)
(* drawn in layers of its own.  The feeds other than the stations meet     *)
(* only in what installLayers starts, so a run follows a few of them at a  *)
(* time: the ones it watches.                                              *)
(*                                                                         *)
(* A fetch that is under way is the name of its feed and, for roadworks    *)
(* and incidents, the colour it was called with.                           *)
(***************************************************************************)
EXTENDS StyledMap

CONSTANT Watched  \* sets of feeds, each with the stations

Poi == {"roadworks", "incidents"}

Overlays == DOMAIN map.on

Feeds == Overlays \ {"images"}

Asked(o) == IF o = "images" THEN TRUE ELSE vis[o]

Seen == [o \in DOMAIN vis \cup {"images"} |-> Asked(o)]

Drawn(ink, o) == [p \in {o} |-> [ink |-> ink, seen |-> Asked(p), full |-> TRUE]]

Mount ==
  /\ \E w \in Watched :
       /\ map' = NewMap(w \cup {"images"}, w)
       /\ vis' = [k \in w |-> TRUE]
  /\ Unmount

(* registerMarkerIcons: drawn in the colours of the theme; images that     *)
(* survive are kept.                                                       *)
RegisterMarkerIcons(m) == Add(m, Drawn(theme, "images"))

(* installLayers has called fetchStations and waits for it. *)
Installing == <<"install", None>>

(* The colour of roadworks and incidents is read when they are called. *)
Call(o) == <<o, IF o \in Poi THEN theme ELSE None>>

(* installLayers: images at once, then stations, then all the rest. *)
Install(m) == map' = RegisterMarkerIcons(m) /\ Start({Installing})

OnLoad == Loads /\ Install(Loaded) /\ UNCHANGED <<theme, vis>>

OnReady == Hears /\ Install(Heard) /\ UNCHANGED <<theme, vis>>

(* What an answer does to the map: setData, nothing, or layers and their   *)
(* handlers, shown as visibilityRef says by now.                           *)
Draws(m, o, ink) ==
  IF OnMap(m, o) \/ ~m.ready THEN m ELSE Bind(Add(m, Drawn(ink, o)), {o})

Settles(o, ink, ok) ==
  /\ \E call \in jobs : call[1] = o /\ call[2] \in {None, ink} /\ jobs' = jobs \ {call}
  /\ map' = IF ok THEN Draws(map, o, ink) ELSE map
  /\ UNCHANGED <<theme, vis>>

(* fetchStations, called by its timer, or by the install: whether it has   *)
(* failed or not, the rest is fetched.                                     *)
FetchStations(ok) ==
  \/ Settles("stations", theme, ok)
  \/ /\ Installing \in jobs
     /\ jobs' = (jobs \ {Installing}) \cup {Call(o) : o \in Feeds \ {"stations"}}
     /\ map' = IF ok THEN Draws(map, "stations", theme) ELSE map
     /\ UNCHANGED <<theme, vis>>

(* fetchRoadworks, fetchIncidents: drawn in the colour of the call. *)
FetchPoiLayer(o, ok) == \E ink \in Themes : Settles(o, ink, ok)

(* Without a source and with a style on its way it returns before any of   *)
(* the signs' images is registered.                                        *)
FetchSpeedLimits(ok) == Settles("speedlimits", theme, ok)

FetchParking(ok) == Settles("parking", theme, ok)

FetchWeathercams(ok) == Settles("weathercams", theme, ok)

FetchCharging(ok) == Settles("charging", theme, ok)

FetchRoadWeather(ok) == Settles("weather", theme, ok)

(* Vehicles and their trails, in colours read when they are added. *)
FetchMaintenance(ok) == Settles("maintenance", theme, ok)

(* The timers registered on "load". *)
Poll(o) == map.up /\ Start({Call(o)}) /\ UNCHANGED <<theme, vis, map>>

SetVisibility(v) ==
  /\ vis' = v
  /\ map' = Show(map, Seen')
  /\ UNCHANGED <<theme, jobs>>

ToggleLayer(k) == SetVisibility([vis EXCEPT ![k] = ~@])

ShowAllLayers == SetVisibility([k \in DOMAIN vis |-> TRUE])

Answer(o, ok) ==
  \/ o = "stations" /\ FetchStations(ok)
  \/ o \in Poi /\ FetchPoiLayer(o, ok)
  \/ o = "speedlimits" /\ FetchSpeedLimits(ok)
  \/ o = "parking" /\ FetchParking(ok)
  \/ o = "weathercams" /\ FetchWeathercams(ok)
  \/ o = "charging" /\ FetchCharging(ok)
  \/ o = "weather" /\ FetchRoadWeather(ok)
  \/ o = "maintenance" /\ FetchMaintenance(ok)

Next ==
  \/ StyleArrives \/ OnLoad \/ OnReady
  \/ \E o \in Feeds, ok \in BOOLEAN : Answer(o, ok)
  \/ \E o \in Feeds : Poll(o)
  \/ ThemeEffect
  \/ \E k \in DOMAIN vis : ToggleLayer(k)
  \/ ShowAllLayers
=============================================================================
