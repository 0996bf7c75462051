------------------------------- MODULE IlmaMap -------------------------------
(***************************************************************************)
(* The air traffic map.  Its overlays are added together, filled from what *)
(* has been fetched so far; the four groups of aircraft are handled alike, *)
(* in loops, and "aircraft" and "labels" stand for the layers of one.      *)
(***************************************************************************)
EXTENDS StyledMap

Keys == {"airports", "aircraft", "labels"}

Overlays == Keys \cup {"selection"}

(* applyVisibility: a label follows its group's toggle and its own; the    *)
(* selection ring and the trail cannot be switched off.                    *)
Asked(o) == CASE o = "labels"    -> vis["aircraft"] /\ vis["labels"]
              [] o = "selection" -> TRUE
              [] OTHER           -> vis[o]

Seen == [o \in Overlays |-> Asked(o)]

Mount ==
  /\ map' = NewMap(Overlays, {"airports", "aircraft"})
  /\ vis' = [k \in Keys |-> TRUE]
  /\ Unmount

Fetched == {"airports", "aircraft"}

(* Filled at once with what has been fetched so far. *)
Installed(m, os, data) ==
  Add(m, [o \in os |-> [ink |-> theme, seen |-> TRUE, full |-> data \in m.got]])

InstallAirports(m) ==
  IF OnMap(m, "airports") THEN m
  ELSE Bind(Installed(m, {"airports"}, "airports"), {"airports"})

(* The ring and the trail start empty. *)
InstallSelection(m) == Installed(m, {"selection"}, "nothing")

InstallAircraft(m) ==
  IF OnMap(m, "aircraft") THEN m
  ELSE Bind(Installed(m, {"aircraft", "labels"}, "aircraft"), {"aircraft"})

(* A frame: nothing is drawn while a style is on its way. *)
Render(m) ==
  IF m.ready THEN Fill(m, {"aircraft", "labels", "selection"}, "aircraft" \in m.got) ELSE m

InstallAll(m) ==
  Render(Show(InstallAircraft(InstallSelection(InstallAirports(m))), Seen))

OnLoad == Loads /\ map' = Loaded /\ Start({"icons"} \cup Fetched) /\ UNCHANGED <<theme, vis>>

OnReady == Hears /\ map' = Heard /\ Start({"icons"}) /\ UNCHANGED <<theme, vis>>

(* installLayers, once the icons are there: a style may be on its way. *)
IconsLoaded ==
  /\ "icons" \in jobs
  /\ jobs' = jobs \ {"icons"}
  /\ map' = IF map.ready THEN InstallAll(map) ELSE map
  /\ UNCHANGED <<theme, vis>>

FetchAircraft(ok) ==
  /\ "aircraft" \in jobs
  /\ jobs' = jobs \ {"aircraft"}
  /\ map' = IF ok THEN Render([map EXCEPT !.got = @ \cup {"aircraft"}]) ELSE map
  /\ UNCHANGED <<theme, vis>>

FetchAirports(ok) ==
  /\ "airports" \in jobs
  /\ jobs' = jobs \ {"airports"}
  /\ map' = IF ok THEN Fill([map EXCEPT !.got = @ \cup {"airports"}], {"airports"}, TRUE) ELSE map
  /\ UNCHANGED <<theme, vis>>

Answer(o, ok) == (o = "aircraft" /\ FetchAircraft(ok)) \/ (o = "airports" /\ FetchAirports(ok))

(* The timers registered on "load"; airports are fetched until they come. *)
Poll(o) ==
  /\ map.up /\ (o = "airports" => "airports" \notin map.got)
  /\ Start({o})
  /\ UNCHANGED <<theme, vis, map>>

SetVisibility(v) ==
  /\ vis' = v
  /\ map' = Show(map, Seen')
  /\ UNCHANGED <<theme, jobs>>

ToggleLayer(k) == SetVisibility([vis EXCEPT ![k] = ~@])

(* The groups of aircraft; the other two toggles are left as they are. *)
ShowAllGroups == SetVisibility([vis EXCEPT !["aircraft"] = TRUE])

Next ==
  \/ StyleArrives \/ OnLoad \/ OnReady \/ IconsLoaded
  \/ \E o \in Fetched, ok \in BOOLEAN : Answer(o, ok)
  \/ \E o \in Fetched : Poll(o)
  \/ ThemeEffect
  \/ \E k \in Keys : ToggleLayer(k)
  \/ ShowAllGroups
=============================================================================
