------------------------------- MODULE Replay -------------------------------
(***************************************************************************)
(* The two playbacks of recorded vessel movement in the browser: the       *)
(* selection of MeriApp, the hooks useVesselTrail, useTrackReplay and      *)
(* useFleetReplay, and the part of the map's animation loop that drives    *)
(* their clocks.                                                           *)
(*                                                                         *)
(* An update of React state and the render it causes are one step.  The    *)
(* effects of a render run later: at once when a click caused it           *)
(* (due = "sync"), after any other callback when a fetch or an animation   *)
(* frame did (due = "passive"), and always before the next render, which   *)
(* is why every step applies Flush to what the steps before it left.       *)
(*                                                                         *)
(* A track is known by the vessel it belongs to and by its last moment; it *)
(* starts at 0, and 0 stands for fewer than two points.  A request carries *)
(* "current" as long as its number is the value of loadIdRef.              *)
(***************************************************************************)
EXTENDS Integers, FiniteSets

CONSTANTS Vessels,   \* MMSIs a visitor can select
          Windows,   \* lengths of track history on offer
          None,      \* null
          End,       \* bound: recorded time runs from 0 to End
          MaxReqs    \* bound: fetches for a track that are under way at once

ASSUME ReplayAssumption ==
  /\ None \notin Vessels \cup (0..End)
  /\ Windows # {}
  /\ End \in Nat \ {0}
  /\ MaxReqs \in Nat \ {0}

VARIABLES
  sel,        \* selectedMmsi
  showTrail,  \* the trail is switched on
  win,        \* trailWindowSec
  trail,      \* state of useVesselTrail: whose points, and their last moment
  track,      \* state of useTrackReplay
  trackReqs,  \* its fetches of the surrounding traffic that are under way
  fleet,      \* state of useFleetReplay
  fleetReqs,  \* its fetches under way
  view,       \* what effects maintain: refs, the trail's poll, the map's clocks
  sought,     \* per playback, the moment of a seek whose nonce the map has not seen
  due,        \* effects still to run: "no", "passive" or "sync"
  wanted      \* history, per playback: it was asked for and not left since

state == <<sel, showTrail, win, trail, track, trackReqs, fleet, fleetReqs, wanted>>
vars == <<state, view, sought, due>>

Moment == 0..End

-----------------------------------------------------------------------------
(* What a render derives from the state. *)

Enabled == showTrail /\ ~fleet.active

Key == <<sel, win, Enabled>>

Points == IF showTrail /\ sel # None /\ trail.of = sel THEN trail.to ELSE 0

(* Faulty: a single point counts as a track. *)
FaultyAvailable == Enabled /\ sel # None

Available == Enabled /\ sel # None /\ Points > 0

Visible == fleet.active \/ fleet.loading \/ fleet.error

(* The controls handed to the map; None is null. *)
FleetControl == IF fleet.active THEN [to |-> fleet.to, playing |-> fleet.playing] ELSE None

TrackControl ==
  IF track.session # None /\ sel # None
  THEN [of |-> sel, points |-> Points, to |-> track.session.to, playing |-> track.playing]
  ELSE None

(* The pose the detail panel shows instead of the live one, if any. *)
PanelPose ==
  IF fleet.active
  THEN IF sel # None /\ fleet.pose = sel THEN fleet.pose ELSE None
  ELSE IF sel # None /\ track.session # None /\ track.pose = sel THEN track.pose ELSE None

(* Faulty: standing down leaves the loading flag. *)
FaultyStandDown(t) == [t EXCEPT !.session = None, !.playing = FALSE, !.pose = None, !.head = 0]

(* The playhead is not read again before the next session sets it. *)
StandDown(t) ==
  [t EXCEPT !.session = None, !.loading = FALSE, !.playing = FALSE, !.pose = None, !.head = 0]

(* Faulty: only the key is refreshed. *)
FaultyRenderTrack(t) == track' = [t EXCEPT !.key = Key']

(* The render settles t: a key that changed under it stands playback down. *)
RenderTrack(t) == track' = IF t.key = Key' THEN t ELSE [StandDown(t) EXCEPT !.key = Key']

-----------------------------------------------------------------------------
(* Effects. *)

(* The map's clock c when the control was old and is new, and a seek to ts *)
(* may be new to it: it starts with the window, and honours the seek.      *)
Reclock(c, old, new, ts) ==
  CASE new = None \/ old = None -> [now |-> 0, ended |-> FALSE]
    [] new # None /\ old # None /\ ts # None -> [now |-> ts, ended |-> FALSE]
    [] OTHER -> c

(* Whether the frame loop has a pose to report, and something to draw. *)
Restarted(v) == TrackControl # None /\ (v.track = None \/ sought.track # None)

PoseDirty(v) == Restarted(v) \/ v.poseDirty

(* Faulty: longer points alone do not ask for a frame. *)
FaultyDrawDirty(v) == Restarted(v) \/ (v.fleet # None) # (FleetControl # None) \/ v.drawDirty

DrawDirty(v) ==
  \/ Restarted(v)
  \/ TrackControl # None /\ v.track # None /\ v.track.points # TrackControl.points
  \/ (v.fleet # None) # (FleetControl # None)
  \/ v.drawDirty

(* All effects of MeriApp, the hooks and the map, on what v holds. *)
Effects(v) ==
  [v EXCEPT !.keyRef = Key,
            !.deps = <<sel, showTrail, win>>,
            !.fleet = FleetControl,
            !.fleetClock = Reclock(v.fleetClock, v.fleet, FleetControl, sought.fleet),
            !.track = TrackControl,
            !.trackClock = Reclock(v.trackClock, v.track, TrackControl, sought.track),
            !.poseDirty = PoseDirty(v),
            !.drawDirty = DrawDirty(v),
            !.drawn = IF TrackControl = None THEN None ELSE v.drawn]

Flush == view' = Effects(view)

NoSeek == [fleet |-> None, track |-> None]

RunEffects ==
  /\ due # "no"
  /\ Flush
  /\ sought' = NoSeek
  /\ due' = "no"
  /\ UNCHANGED state

(* A click: nothing comes between its render and the effects. *)
ClickSeeking(s) == due # "sync" /\ Flush /\ due' = "sync" /\ sought' = s

Click == ClickSeeking(NoSeek)

(* An answer of the network, or a report: its effects are run later. *)
AnswerSeeking(s) == due # "sync" /\ Flush /\ due' = "passive" /\ sought' = s

-----------------------------------------------------------------------------
(* MeriApp. *)

(* A vessel is picked on the map or in the search, or let go (v = None)    *)
(* for a port, a webcam or the bare map.                                   *)
SelectVessel(v) ==
  /\ Click
  /\ sel' = v
  /\ UNCHANGED <<showTrail, win, trail, fleet, fleetReqs, trackReqs, wanted>>
  /\ RenderTrack(track)

ToggleTrail ==
  /\ Click
  /\ showTrail' = ~showTrail
  /\ UNCHANGED <<sel, win, trail, fleet, fleetReqs, trackReqs, wanted>>
  /\ RenderTrack(track)

SetTrailWindow(w) ==
  /\ Click
  /\ win' = w
  /\ UNCHANGED <<sel, showTrail, trail, fleet, fleetReqs, trackReqs, wanted>>
  /\ RenderTrack(track)

-----------------------------------------------------------------------------
(* useVesselTrail: the effect for a vessel fetches at once and every 30 s, *)
(* and a fetch that is not cancelled may answer late; the points end       *)
(* anywhere, and t = 0 stands for a failure as well.                       *)
TrailAnswers(t) ==
  /\ view.deps[1] # None /\ view.deps[2]
  /\ AnswerSeeking(NoSeek)
  /\ trail' = [of |-> view.deps[1], to |-> t]
  /\ UNCHANGED <<sel, showTrail, win, fleet, fleetReqs, trackReqs, wanted>>
  /\ RenderTrack(track)

-----------------------------------------------------------------------------
(* useTrackReplay. *)

(* Faulty: leaving does not invalidate the number of the fetch. *)
FaultyStale(reqs) == reqs

Stale(reqs) == {[r EXCEPT !.tag = "stale"] : r \in reqs}

(* enter: freeze the window and fetch the traffic around it. *)
TrackEnter ==
  /\ trackReqs' = Stale(trackReqs) \cup {[tag |-> "current", key |-> Key, to |-> Points]}
  /\ RenderTrack([track EXCEPT !.loading = TRUE])

TrackOpens ==
  /\ track.session = None /\ ~track.loading /\ Available
  /\ Cardinality(trackReqs) < MaxReqs
  /\ Click
  /\ wanted' = [wanted EXCEPT !.track = TRUE]
  /\ UNCHANGED <<sel, showTrail, win, trail, fleet, fleetReqs>>
  /\ TrackEnter

(* open: both the number and the key must still be the ones it was asked   *)
(* with; a failed fetch opens the session too, without other traffic.      *)
TrackAnswers(r) ==
  /\ r \in trackReqs
  /\ trackReqs' = trackReqs \ {r}
  /\ UNCHANGED <<sel, showTrail, win, trail, fleet, fleetReqs, wanted>>
  /\ IF r.tag = "current" /\ view.keyRef = r.key
     THEN /\ AnswerSeeking([NoSeek EXCEPT !.track = 0])
          /\ RenderTrack([track EXCEPT !.session = [to |-> r.to, of |-> r.key[1], win |-> r.key[2]],
                                       !.loading = FALSE, !.playing = TRUE, !.head = 0,
                                       !.pose = None])
     ELSE UNCHANGED <<track, view, sought, due>>

TrackExit ==
  /\ track.session # None \/ track.loading
  /\ Click
  /\ trackReqs' = Stale(trackReqs)
  /\ wanted' = [wanted EXCEPT !.track = FALSE]
  /\ UNCHANGED <<sel, showTrail, win, trail, fleet, fleetReqs>>
  /\ RenderTrack(StandDown(track))

(* Faulty: play at the very end just plays. *)
FaultyStartsOver(p, to) == FALSE

(* Paused at the very end, play means start over. *)
StartsOver(p, to) == ~p.playing /\ p.head >= to

Toggled(p, to) ==
  [p EXCEPT !.playing = ~@, !.head = IF StartsOver(p, to) THEN 0 ELSE @]

TrackTogglePlay ==
  /\ track.session # None /\ Available
  /\ ClickSeeking([NoSeek EXCEPT !.track =
                     IF StartsOver(track, track.session.to) THEN 0 ELSE None])
  /\ UNCHANGED <<sel, showTrail, win, trail, fleet, fleetReqs, trackReqs, wanted>>
  /\ RenderTrack(Toggled(track, track.session.to))

TrackRestart ==
  /\ track.session # None /\ Available
  /\ ClickSeeking([NoSeek EXCEPT !.track = 0])
  /\ UNCHANGED <<sel, showTrail, win, trail, fleet, fleetReqs, trackReqs, wanted>>
  /\ RenderTrack([track EXCEPT !.head = 0, !.playing = TRUE, !.pose = None])

TrackSeek(ts) ==
  /\ track.session # None /\ ts <= track.session.to
  /\ ClickSeeking([NoSeek EXCEPT !.track = ts])
  /\ UNCHANGED <<sel, showTrail, win, trail, fleet, fleetReqs, trackReqs, wanted>>
  /\ RenderTrack([track EXCEPT !.head = ts])

-----------------------------------------------------------------------------
(* useFleetReplay. *)

FleetLoad ==
  /\ fleetReqs' = {"current"} \cup {"stale" : r \in fleetReqs}
  /\ fleet' = [fleet EXCEPT !.loading = TRUE, !.error = FALSE]
  /\ wanted' = [wanted EXCEPT !.fleet = TRUE]

(* handleEnterReplay lets the selected vessel go. *)
FleetEnter ==
  /\ Click
  /\ FleetLoad
  /\ sel' = None
  /\ UNCHANGED <<showTrail, win, trail, trackReqs>>
  /\ RenderTrack(track)

(* Another window is chosen in the bar, which is up but not loading. *)
FleetSetWindow ==
  /\ Visible /\ ~fleet.loading
  /\ Click
  /\ FleetLoad
  /\ UNCHANGED <<sel, showTrail, win, trail, trackReqs>>
  /\ RenderTrack(track)

FleetAnswers(r, to) ==
  /\ r \in fleetReqs
  /\ fleetReqs' = fleetReqs \ {r}
  /\ UNCHANGED <<sel, showTrail, win, trail, trackReqs, wanted>>
  /\ IF r = "current"
     THEN /\ AnswerSeeking([NoSeek EXCEPT !.fleet = 0])
          /\ fleet' = [fleet EXCEPT !.active = TRUE, !.loading = FALSE, !.playing = TRUE, !.to = to,
                                    !.head = 0, !.pose = None]
          /\ RenderTrack(track)
     ELSE UNCHANGED <<fleet, track, view, sought, due>>

FleetFails(r) ==
  /\ r \in fleetReqs
  /\ fleetReqs' = fleetReqs \ {r}
  /\ UNCHANGED <<sel, showTrail, win, trail, trackReqs, wanted>>
  /\ IF r = "current"
     THEN /\ AnswerSeeking(NoSeek)
          /\ fleet' = [fleet EXCEPT !.error = TRUE, !.loading = FALSE]
          /\ RenderTrack(track)
     ELSE UNCHANGED <<fleet, track, view, sought, due>>

(* The window and the playhead are not read again before an answer sets    *)
(* them.                                                                   *)
FleetExit ==
  /\ Visible
  /\ Click
  /\ fleetReqs' = {"stale" : r \in fleetReqs}
  /\ fleet' = [fleet EXCEPT !.active = FALSE, !.playing = FALSE, !.error = FALSE, !.pose = None,
                            !.to = 0, !.head = 0]
  /\ wanted' = [wanted EXCEPT !.fleet = FALSE]
  /\ UNCHANGED <<sel, showTrail, win, trail, trackReqs>>
  /\ RenderTrack(track)

FleetTogglePlay ==
  /\ fleet.active /\ ~fleet.loading /\ ~fleet.error
  /\ ClickSeeking([NoSeek EXCEPT !.fleet = IF StartsOver(fleet, fleet.to) THEN 0 ELSE None])
  /\ fleet' = Toggled(fleet, fleet.to)
  /\ UNCHANGED <<sel, showTrail, win, trail, fleetReqs, trackReqs, wanted>>
  /\ RenderTrack(track)

FleetSeek(ts) ==
  /\ fleet.active /\ ~fleet.loading /\ ~fleet.error /\ ts <= fleet.to
  /\ ClickSeeking([NoSeek EXCEPT !.fleet = ts])
  /\ fleet' = [fleet EXCEPT !.head = ts]
  /\ UNCHANGED <<sel, showTrail, win, trail, fleetReqs, trackReqs, wanted>>
  /\ RenderTrack(track)

-----------------------------------------------------------------------------
(* The animation frame.  It reads the refs, not the state: the controls as *)
(* the last effects left them.  A report is throttled, so it may or may    *)
(* not be made; the end of the window is always reported.                  *)

Runs(c, control) == control.playing /\ ~c.ended

(* Faulty: the clock starts over at the end. *)
FaultyMoved(c, control, n) ==
  IF ~Runs(c, control) THEN c ELSE [c EXCEPT !.now = IF n >= control.to THEN 0 ELSE n]

(* The clock after a frame that would take it to n. *)
Moved(c, control, n) ==
  IF ~Runs(c, control) THEN c
  ELSE IF n >= control.to THEN [c EXCEPT !.now = control.to, !.ended = TRUE]
  ELSE [c EXCEPT !.now = n]

(* What p (a hook's state) becomes by onProgress and onEnded. *)
Progressed(p, c, d, control, report) ==
  [p EXCEPT !.head = IF (report /\ control.playing) \/ (d.ended /\ ~c.ended) THEN d.now ELSE @,
            !.playing = @ /\ ~(d.ended /\ ~c.ended)]

Ahead(c, n) == n > c.now \/ n = End

FleetFrame(n, report, pose) ==
  LET c == view.fleetClock
      d == Moved(c, view.fleet, n) IN
  /\ due # "sync" /\ view.fleet # None /\ Ahead(c, n)
  /\ pose \in {None, view.deps[1]}
  /\ UNCHANGED <<sel, showTrail, win, trail, fleetReqs, trackReqs, wanted>>
  /\ fleet' = [Progressed(fleet, c, d, view.fleet, report)
                 EXCEPT !.pose = IF report THEN pose ELSE @]
  /\ IF fleet' = fleet
     THEN view' = [view EXCEPT !.fleetClock = d] /\ UNCHANGED <<due, sought, track>>
     ELSE /\ view' = Effects([view EXCEPT !.fleetClock = d])
          /\ due' = "passive" /\ sought' = NoSeek
          /\ RenderTrack(track)

(* The ghost's pose: past the points it is held for a while, then gone.    *)
GhostPoses(control, now) ==
  IF control.points = 0 THEN {None}
  ELSE IF now <= control.points THEN {control.of} ELSE {control.of, None}

TrackFrame(n, report, pose, draw) ==
  LET c == view.trackClock
      d == Moved(c, view.track, n)
      dirty == d.now # c.now
      v == [view EXCEPT !.trackClock = d,
                        !.poseDirty = (@ \/ dirty) /\ ~report,
                        !.drawDirty = (@ \/ dirty) /\ ~draw,
                        !.drawn = IF draw /\ (view.drawDirty \/ dirty)
                                  THEN [of |-> view.track.of, points |-> view.track.points, now |-> d.now]
                                  ELSE @] IN
  /\ due # "sync" /\ view.fleet = None /\ view.track # None /\ Ahead(c, n)
  /\ report => view.poseDirty \/ dirty
  /\ pose \in GhostPoses(view.track, d.now)
  /\ UNCHANGED <<sel, showTrail, win, trail, fleet, fleetReqs, trackReqs, wanted>>
  /\ LET t == [Progressed(track, c, d, view.track, report) EXCEPT !.pose = IF report THEN pose ELSE @]
     IN IF t = track
        THEN view' = v /\ UNCHANGED <<due, sought, track>>
        ELSE view' = Effects(v) /\ due' = "passive" /\ sought' = NoSeek /\ RenderTrack(t)

-----------------------------------------------------------------------------
Idle == [now |-> 0, ended |-> FALSE]

(* A linked vessel may be selected; the trail's settings were kept. *)
SelectionInit ==
  /\ sel \in Vessels \cup {None}
  /\ showTrail \in BOOLEAN
  /\ win \in Windows

FleetInit ==
  /\ fleet = [active |-> FALSE, loading |-> FALSE, error |-> FALSE, to |-> 0, head |-> 0,
              playing |-> FALSE, pose |-> None]
  /\ fleetReqs = {}

TrackInit ==
  /\ trail = [of |-> None, to |-> 0]
  /\ track = [session |-> None, loading |-> FALSE, playing |-> FALSE, head |-> 0, pose |-> None,
              key |-> <<sel, win, showTrail>>]
  /\ trackReqs = {}

(* The refs of the map and of the hooks. *)
ViewInit ==
  /\ view = [keyRef |-> <<sel, win, showTrail>>, deps |-> <<sel, showTrail, win>>,
             fleet |-> None, fleetClock |-> Idle, track |-> None, trackClock |-> Idle,
             poseDirty |-> TRUE, drawDirty |-> TRUE, drawn |-> None]
  /\ sought = NoSeek
  /\ due = "no"

Init ==
  /\ SelectionInit /\ FleetInit /\ TrackInit /\ ViewInit
  /\ wanted = [fleet |-> FALSE, track |-> FALSE]

Frame ==
  \E n \in Moment, report, draw \in BOOLEAN, pose \in Vessels \cup {None} :
    FleetFrame(n, report, pose) \/ TrackFrame(n, report, pose, draw)

Visitor ==
  \/ \E v \in Vessels \cup {None} : SelectVessel(v)
  \/ ToggleTrail
  \/ \E w \in Windows : SetTrailWindow(w)
  \/ TrackOpens \/ TrackExit \/ TrackTogglePlay \/ TrackRestart
  \/ FleetEnter \/ FleetSetWindow \/ FleetExit \/ FleetTogglePlay
  \/ \E ts \in Moment : TrackSeek(ts) \/ FleetSeek(ts)

Network ==
  \/ \E t \in Moment : TrailAnswers(t)
  \/ \E r \in trackReqs : TrackAnswers(r)
  \/ \E r \in fleetReqs : FleetFails(r) \/ \E to \in Moment \ {0} : FleetAnswers(r, to)

Next == RunEffects \/ Visitor \/ Network \/ Frame

Spec == Init /\ [][Next]_vars

-----------------------------------------------------------------------------
(* Frames run, their clock advancing; effects run; a track's fetches end.  *)
(* Nothing is assumed of the fleet's, which no property waits for.         *)
FrameAdvances ==
  \/ \E n \in Moment, pose \in {None, view.deps[1]} : FleetFrame(n, TRUE, pose)
  \/ /\ view.track # None
     /\ \E n \in Moment, report \in BOOLEAN, pose \in {None, view.track.of} :
          TrackFrame(n, report, pose, TRUE)

Fairness ==
  /\ WF_vars(RunEffects)
  /\ SF_vars(FrameAdvances)
  /\ SF_vars(\E r \in trackReqs : TrackAnswers(r))

FairSpec == Spec /\ Fairness

-----------------------------------------------------------------------------
(* Types.  A session was opened on two points at least, and so lasts.      *)
Clock == [now : Moment, ended : BOOLEAN]

TypeOK ==
  /\ sel \in Vessels \cup {None} /\ showTrail \in BOOLEAN /\ win \in Windows
  /\ trail \in [of : Vessels \cup {None}, to : Moment]
  /\ track.session \in {None} \cup [to : Moment \ {0}, of : Vessels, win : Windows]
  /\ track.loading \in BOOLEAN /\ track.playing \in BOOLEAN /\ track.head \in Moment
  /\ fleet.active \in BOOLEAN /\ fleet.loading \in BOOLEAN /\ fleet.error \in BOOLEAN
  /\ fleet.playing \in BOOLEAN /\ fleet.to \in Moment /\ fleet.head \in Moment
  /\ {track.pose, fleet.pose} \subseteq Vessels \cup {None}
  /\ fleetReqs \subseteq {"current", "stale"}
  /\ view.fleetClock \in Clock /\ view.trackClock \in Clock
  /\ due \in {"no", "passive", "sync"}

(* No answer that comes late opens a playback the visitor has left: each   *)
(* one that is on was asked for after it was last left.                    *)
OnlyWhatWasAsked ==
  /\ track.session # None => wanted.track
  /\ fleet.active => wanted.fleet

(* What plays was opened for the vessel that is selected now, under the    *)
(* window that is chosen now, however late its traffic came and whatever   *)
(* changed back and forth meanwhile.  (The points may still be the ones of *)
(* the window before: useVesselTrail tags them with the vessel only.)      *)
PlaysSelection ==
  track.session # None => track.session.of = sel /\ track.session.win = win

(* A transport that shows "playing" is never stuck behind a clock that has *)
(* latched the end of its window.                                          *)
PlayingMoves ==
  due = "no" =>
    /\ view.fleet # None /\ view.fleet.playing => ~view.fleetClock.ended
    /\ view.track # None /\ view.track.playing => ~view.trackClock.ended

(* The frame loop stops drawing a paused track; what it last drew is then  *)
(* what it would draw now.                                                 *)
OverlayFresh ==
  view.track # None /\ view.fleet = None /\ ~view.drawDirty =>
    view.drawn = [of |-> view.track.of, points |-> view.track.points, now |-> view.trackClock.now]

(* The transport bar of the fleet replay is up only from the time replay   *)
(* was asked for until it is left (useFleetReplay.ts:21-22, 122).          *)
BarIsWanted == Visible => wanted.fleet

(* "Loading" ends: by the answer, by leaving, or by standing down.         *)
LoadingEnds == track.loading ~> ~track.loading

(* Playback that is not sought ends.                                       *)
PlaybackEnds == []<>(~(fleet.active /\ fleet.playing) \/ sought.fleet # None)
=============================================================================
