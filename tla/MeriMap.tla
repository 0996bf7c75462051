------------------------------- MODULE MeriMap -------------------------------
(***************************************************************************)
(* The sea map.  Sources and layers are created empty, as soon as a style  *)
(* is there; effects of the next render then fill them and apply what the  *)
(* page wants to see.  Vessels are drawn by a frame loop, live or out of   *)
(* one of the two replays (module Replay has the replays themselves).      *)
(***************************************************************************)
EXTENDS StyledMap

CONSTANT MeriToggles  \* of "ports", "sea", "aton", "cameras"; alike in the code

Scenes == {"live", "fleet", "track"}

Overlays == MeriToggles \cup {"live", "replay", "ring", "trail", "ghost"}

Scene == vis["scene"]

(* What the visibility effect and the scene effect say of each overlay. *)
Asked(o) ==
  CASE o = "live"   -> Scene = "live"
    [] o = "replay" -> Scene # "live"
    [] o = "ring"   -> Scene = "fleet"
    [] o = "trail"  -> Scene # "fleet"
    [] o = "ghost"  -> Scene = "track"
    [] OTHER        -> vis[o]

Seen == [o \in Overlays |-> Asked(o)]

(* One click handler, registered with the map, looks for these layers. *)
RegisterInteractions(m) == Bind(m, Overlays \ {"ring", "trail", "ghost"})

(* The settings kept by the browser say what is shown to begin with. *)
Mount ==
  /\ map' = RegisterInteractions(NewMap(Overlays, Overlays \ {"ring", "trail", "ghost"}))
  /\ \E stored \in [MeriToggles -> BOOLEAN] :
       vis' = [k \in MeriToggles \cup {"scene"} |-> IF k = "scene" THEN "live" ELSE stored[k]]
  /\ Unmount

(* A layer that is created hidden waits for the scene effect to show it. *)
Created(os) ==
  [o \in os |-> [ink |-> theme, seen |-> o \notin {"replay", "ring", "ghost"}, full |-> FALSE]]

(* Ports, buoys, sea level, waves, wind, marks of navigation, cameras. *)
MarkLayers(m) == Add(m, Created(MeriToggles))

TrailLayers(m) == Add(m, Created({"trail", "ghost"}))

VesselLayers(m) == Add(m, Created({"live"}))

ReplayLayers(m) == Add(m, Created({"replay", "ring"}))

(* setupMapContent, and the bump of styleEpoch that asks for the effects. *)
Setup(m) == [ReplayLayers(VesselLayers(TrailLayers(MarkLayers(m)))) EXCEPT !.due = TRUE]

OnLoad == Loads /\ map' = Setup(Loaded) /\ UNCHANGED <<theme, vis, jobs>>

OnReady == Hears /\ map' = Setup(Heard) /\ UNCHANGED <<theme, vis, jobs>>

(* A scene that ends clears the sources it drew into. *)
Cleared(m, s) ==
  Fill(Fill(m, IF s = "live" THEN {"replay", "ring"} ELSE {}, FALSE),
       IF s # "track" THEN {"ghost"} ELSE {}, FALSE)

(* The effects of the data: ports, buoys, sea conditions, and so on. *)
DataEffects(m) == Fill(m, MeriToggles \cup {"trail"}, TRUE)

(* The effects that depend on styleEpoch: data, visibility, scene. *)
Effects ==
  /\ map.due
  /\ map' = [Cleared(Show(DataEffects(map), Seen), Scene) EXCEPT !.due = FALSE]
  /\ UNCHANGED <<theme, vis, jobs>>

(* The frame of the live scene, of a replay of the fleet, of one vessel's. *)
LiveFrame == Scene = "live" /\ map' = Fill(map, {"live"}, TRUE)

FleetFrame == Scene = "fleet" /\ map' = Fill(map, {"replay", "ring"}, TRUE)

(* A paused track replay is drawn again when the effects have marked it    *)
(* dirty.                                                                  *)
TrackFrame ==
  /\ Scene = "track" /\ ~map.due
  /\ map' = Fill(map, {"replay", "ghost"}, TRUE)

Frame == (LiveFrame \/ FleetFrame \/ TrackFrame) /\ UNCHANGED <<theme, vis, jobs>>

ToggleLayer(k) ==
  /\ vis' = [vis EXCEPT ![k] = ~@]
  /\ map' = Show(map, Seen')
  /\ UNCHANGED <<theme, jobs>>

(* A replay begins or ends. *)
SetScene(s) ==
  /\ vis' = [vis EXCEPT !["scene"] = s]
  /\ map' = Cleared(Show(map, Seen'), s)
  /\ UNCHANGED <<theme, jobs>>

Next ==
  \/ StyleArrives \/ OnLoad \/ OnReady \/ Effects \/ Frame
  \/ ThemeEffect
  \/ \E k \in MeriToggles : ToggleLayer(k)
  \/ \E s \in Scenes : SetScene(s)
=============================================================================
