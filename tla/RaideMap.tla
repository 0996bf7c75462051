------------------------------ MODULE RaideMap ------------------------------
(***************************************************************************)
(* The railway map: lines over the basemap's own rails, stations, trains.  *)
(* The four groups of trains are handled alike, in loops: "trains" stands  *)
(* for the layers of one of them.                                          *)
(***************************************************************************)
EXTENDS StyledMap

Keys == {"tracks", "stations", "trains"}

Asked(o) == vis[o]

Seen == [o \in Keys |-> Asked(o)]

(* Faulty: layers are added as the mounting render had them. *)
FaultyAskedNow(o) == TRUE

(* Layers are added as visibilityRef says at that moment. *)
AskedNow(o) == Asked(o)

Drawn(o) == [p \in {o} |-> [ink |-> theme, seen |-> AskedNow(p), full |-> TRUE]]

Mount ==
  /\ map' = NewMap(Keys, {"stations", "trains"})
  /\ vis' = [k \in Keys |-> TRUE]
  /\ Unmount

(* installRailLayer: needs no data, only a style that takes layers. *)
InstallRail(m) == IF m.ready /\ m.style # None THEN Add(m, Drawn("tracks")) ELSE m

(* installLayers: rails at once; then icons, then stations, then trains. *)
Install(m) == map' = InstallRail(m) /\ Start({"icons"})

OnLoad == Loads /\ Install(Loaded) /\ UNCHANGED <<theme, vis>>

OnReady == Hears /\ Install(Heard) /\ UNCHANGED <<theme, vis>>

IconsLoaded ==
  /\ "icons" \in jobs
  /\ jobs' = (jobs \ {"icons"}) \cup {"stations then trains"}
  /\ UNCHANGED <<theme, vis, map>>

(* Faulty: the layer is added whether the style takes it or not. *)
FaultyDraws(m, o) == IF OnMap(m, o) \/ m.style = None THEN m ELSE Bind(Add(m, Drawn(o)), {o})

(* The data goes into the source, or source, layers and handlers are added *)
(* unless a style is on its way.                                           *)
Draws(m, o) == IF OnMap(m, o) \/ ~m.ready THEN m ELSE Bind(Add(m, Drawn(o)), {o})

(* fetchStations settles, called by its timer or by the install: whether   *)
(* it has failed or not, trains are fetched next.                          *)
StationsAnswer(ok) ==
  /\ map' = IF ok THEN Draws(map, "stations") ELSE map
  /\ \/ "stations" \in jobs /\ jobs' = jobs \ {"stations"}
     \/ "stations then trains" \in jobs
        /\ jobs' = (jobs \ {"stations then trains"}) \cup {"trains"}
  /\ UNCHANGED <<theme, vis>>

TrainsAnswer(ok) ==
  /\ "trains" \in jobs
  /\ map' = IF ok THEN Draws(map, "trains") ELSE map
  /\ jobs' = jobs \ {"trains"}
  /\ UNCHANGED <<theme, vis>>

Fetched == {"stations", "trains"}

Answer(o, ok) ==
  (o = "stations" /\ StationsAnswer(ok)) \/ (o = "trains" /\ TrainsAnswer(ok))

(* The timers registered on "load". *)
Poll(o) == map.up /\ Start({o}) /\ UNCHANGED <<theme, vis, map>>

(* toggleLayer, showAllGroups and the effect that applies visibility. *)
SetVisibility(v) ==
  /\ vis' = v
  /\ map' = Show(map, Seen')
  /\ UNCHANGED <<theme, jobs>>

ToggleLayer(k) == SetVisibility([vis EXCEPT ![k] = ~@])

ShowAllGroups == SetVisibility([vis EXCEPT !["trains"] = TRUE])

Next ==
  \/ StyleArrives \/ OnLoad \/ OnReady \/ IconsLoaded
  \/ \E o \in Fetched, ok \in BOOLEAN : Answer(o, ok)
  \/ \E o \in Fetched : Poll(o)
  \/ ThemeEffect
  \/ \E k \in Keys : ToggleLayer(k)
  \/ ShowAllGroups
=============================================================================
