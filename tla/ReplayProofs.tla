---------------------------- MODULE ReplayProofs ----------------------------
(***************************************************************************)
(* What the two playbacks keep for every set of vessels and track lengths, *)
(* however long the recorded time is and however many fetches are under    *)
(* way at once.                                                            *)
(***************************************************************************)
EXTENDS Replay, TLAPS

(* The fields of the state that the steps update.                          *)
IsTrack(t) == DOMAIN t = {"session", "loading", "playing", "head", "pose", "key"}
IsFleet(f) == DOMAIN f = {"active", "loading", "error", "to", "head", "playing", "pose"}
IsRequest(r) == DOMAIN r = {"tag", "key", "to"}
IsView(v) ==
  DOMAIN v = {"keyRef", "deps", "fleet", "fleetClock", "track", "trackClock", "poseDirty",
              "drawDirty", "drawn"}

Shape ==
  /\ IsTrack(track) /\ IsFleet(fleet) /\ IsView(view)
  /\ DOMAIN wanted = {"fleet", "track"}
  /\ \A r \in trackReqs : IsRequest(r)

-----------------------------------------------------------------------------
(* Rendering.                                                              *)

\* A render settles the track under the key of the moment: it is t, or it has
\* stood down.
LEMMA Renders ==
  ASSUME NEW t, IsTrack(t), RenderTrack(t)
  PROVE  /\ IsTrack(track') /\ track'.key = Key'
         /\ track'.session = None \/ (track'.session = t.session /\ t.key = Key')
<1>1. CASE t.key = Key'
  BY <1>1 DEF RenderTrack
<1>2. CASE t.key # Key'
  BY <1>2 DEF RenderTrack, StandDown, IsTrack
<1> QED BY <1>1, <1>2

\* The effects leave the key of the moment in keyRef, and the view its fields.
LEMMA EffectsShape ==
  ASSUME NEW v, IsView(v)
  PROVE  IsView(Effects(v)) /\ Effects(v).keyRef = Key
BY DEF Effects, IsView

-----------------------------------------------------------------------------
(* What was asked for.                                                     *)

\* A fetch that is still the latest was asked for, and so was what it opens.
Asked ==
  /\ \A r \in trackReqs : r.tag = "current" => wanted.track
  /\ track.session # None => wanted.track
  /\ "current" \in fleetReqs => wanted.fleet
  /\ fleet.active => wanted.fleet

(* What is played.                                                         *)

\* The track is settled under the key of the moment; a session belongs to that
\* key; and unless a click has just been rendered, keyRef has its vessel and
\* window.  An answer changes neither, so what it compares keyRef with holds.
Settled ==
  /\ track.key = Key
  /\ track.session # None => /\ track.session.of = track.key[1]
                             /\ track.session.win = track.key[2]
  /\ due # "sync" => view.keyRef[1] = sel /\ view.keyRef[2] = win

Inv == Shape /\ Asked /\ Settled

LEMMA InvInit == Init => Inv
BY DEF Init, SelectionInit, FleetInit, TrackInit, ViewInit, Inv, Shape, Asked, Settled,
       IsTrack, IsFleet, IsView, Key, Enabled

(* What a step leaves behind that renders t and not what it renders.       *)
RequestsAsked ==
  /\ DOMAIN wanted = {"fleet", "track"} /\ IsFleet(fleet)
  /\ \A r \in trackReqs : IsRequest(r) /\ (r.tag = "current" => wanted.track)
  /\ "current" \in fleetReqs => wanted.fleet
  /\ fleet.active => wanted.fleet

(* The effects have run since the selection last changed, or will run next. *)
KeyRefKept ==
  /\ IsView(view)
  /\ due # "sync" => view.keyRef[1] = sel /\ view.keyRef[2] = win

\* Every step but that of a frame which shows nothing new renders a track t,
\* with the key of the track and its session, or a new one of that key that
\* was asked for.
LEMMA RenderStep ==
  ASSUME RequestsAsked', KeyRefKept',
         NEW t, IsTrack(t), RenderTrack(t),
         t.session # None => /\ t.session.of = t.key[1] /\ t.session.win = t.key[2]
                             /\ wanted'.track
  PROVE  Inv'
<1>1. /\ IsTrack(track') /\ track'.key = Key'
      /\ track'.session = None \/ (track'.session = t.session /\ t.key = Key')
  BY Renders
<1>2. Shape'
  BY <1>1 DEF Shape, RequestsAsked, KeyRefKept
<1>3. Asked'
  BY <1>1 DEF Asked, RequestsAsked
<1>4. Settled'
  BY <1>1 DEF Settled, KeyRefKept
<1> QED BY <1>2, <1>3, <1>4 DEF Inv

LEMMA InvParts ==
  ASSUME Inv
  PROVE  /\ RequestsAsked /\ KeyRefKept /\ IsTrack(track)
         /\ track.session # None => /\ track.session.of = track.key[1]
                                    /\ track.session.win = track.key[2]
                                    /\ wanted.track
BY DEF Inv, Shape, Asked, Settled, RequestsAsked, KeyRefKept

\* After a click nothing is said of keyRef until the effects have run; after an
\* answer, which leaves vessel and window alone, it has both.
LEMMA EffectsKeep ==
  ASSUME Inv, NEW s
  PROVE  /\ ClickSeeking(s) => KeyRefKept'
         /\ AnswerSeeking(s) /\ UNCHANGED <<sel, win>> => KeyRefKept'
<1>1. IsView(Effects(view)) /\ Effects(view).keyRef = Key
  BY EffectsShape DEF Inv, Shape
<1> QED BY <1>1 DEF ClickSeeking, AnswerSeeking, Flush, KeyRefKept, Key

-----------------------------------------------------------------------------
(* The visitor.                                                            *)

\* A selection, or a setting of the trail.
LEMMA SelectionStep ==
  ASSUME Inv, (\E v \in Vessels \cup {None} : SelectVessel(v)) \/ ToggleTrail
              \/ (\E w \in Windows : SetTrailWindow(w))
  PROVE  Inv'
<1>1. Click /\ RenderTrack(track) /\ UNCHANGED <<fleet, fleetReqs, trackReqs, wanted>>
  BY DEF SelectVessel, ToggleTrail, SetTrailWindow
<1>2. RequestsAsked'
  BY <1>1, InvParts DEF RequestsAsked
<1> QED BY <1>1, <1>2, InvParts, EffectsKeep, RenderStep DEF Click

\* A playback that is on is paused, restarted or scrubbed.
LEMMA TransportStep ==
  ASSUME Inv, TrackTogglePlay \/ TrackRestart \/ (\E ts \in Moment : TrackSeek(ts) \/ FleetSeek(ts))
              \/ FleetTogglePlay
  PROVE  Inv'
<1>1. ASSUME NEW s, NEW t, ClickSeeking(s), RenderTrack(t), IsTrack(t),
             t.session = track.session, t.key = track.key,
             UNCHANGED <<fleetReqs, trackReqs, wanted>>,
             IsFleet(fleet'), fleet'.active = fleet.active
      PROVE  Inv'
  <2>1. RequestsAsked'
    BY <1>1, InvParts DEF RequestsAsked
  <2> QED BY <1>1, <2>1, InvParts, EffectsKeep, RenderStep
<1>2. IsTrack(track) /\ IsFleet(fleet)
  BY DEF Inv, Shape
<1>3. CASE TrackTogglePlay
  <2> DEFINE t == Toggled(track, track.session.to)
  <2>1. IsTrack(t) /\ t.session = track.session /\ t.key = track.key
    BY <1>2 DEF Toggled, IsTrack
  <2> HIDE DEF t
  <2> QED BY <1>1, <1>2, <1>3, <2>1 DEF TrackTogglePlay, t
<1>4. CASE TrackRestart
  <2> DEFINE t == [track EXCEPT !.head = 0, !.playing = TRUE, !.pose = None]
  <2>1. IsTrack(t) /\ t.session = track.session /\ t.key = track.key
    BY <1>2 DEF IsTrack
  <2>2. RenderTrack(t)
    BY <1>4 DEF TrackRestart
  <2> HIDE DEF t
  <2> QED BY <1>1, <1>2, <1>4, <2>1, <2>2 DEF TrackRestart
<1>5. ASSUME NEW ts \in Moment, TrackSeek(ts) PROVE Inv'
  <2> DEFINE t == [track EXCEPT !.head = ts]
  <2>1. IsTrack(t) /\ t.session = track.session /\ t.key = track.key
    BY <1>2 DEF IsTrack
  <2>2. RenderTrack(t)
    BY <1>5 DEF TrackSeek
  <2> HIDE DEF t
  <2> QED BY <1>1, <1>2, <1>5, <2>1, <2>2 DEF TrackSeek
<1>6. ASSUME NEW ts \in Moment, FleetSeek(ts) PROVE Inv'
  <2>1. IsFleet(fleet') /\ fleet'.active = fleet.active
    BY <1>2, <1>6 DEF FleetSeek, IsFleet
  <2> QED BY <1>1, <1>2, <1>6, <2>1 DEF FleetSeek
<1>7. CASE FleetTogglePlay
  <2>1. IsFleet(fleet') /\ fleet'.active = fleet.active
    BY <1>2, <1>7 DEF FleetTogglePlay, Toggled, IsFleet
  <2> QED BY <1>1, <1>2, <1>7, <2>1 DEF FleetTogglePlay
<1> QED BY <1>3, <1>4, <1>5, <1>6, <1>7

\* A playback is asked for: its fetch is the latest, those before are stale.
LEMMA EnterStep ==
  ASSUME Inv, TrackOpens \/ FleetEnter \/ FleetSetWindow
  PROVE  Inv'
<1>1. CASE TrackOpens
  <2> DEFINE t == [track EXCEPT !.loading = TRUE]
             new == [tag |-> "current", key |-> Key, to |-> Points]
  <2>1. /\ Click /\ RenderTrack(t) /\ UNCHANGED <<fleet, fleetReqs>>
        /\ wanted' = [wanted EXCEPT !.track = TRUE]
        /\ trackReqs' = Stale(trackReqs) \cup {new}
    BY <1>1 DEF TrackOpens, TrackEnter
  <2>2. IsTrack(t) /\ t.session = track.session /\ t.key = track.key
    BY DEF Inv, Shape, IsTrack
  <2>3. /\ DOMAIN wanted' = {"fleet", "track"}
        /\ wanted'.track = TRUE /\ wanted'.fleet = wanted.fleet
    BY <2>1 DEF Inv, Shape
  <2>4. \A r \in trackReqs' : IsRequest(r)
    BY <2>1 DEF Inv, Shape, Stale, IsRequest
  <2>5. RequestsAsked'
    BY <2>1, <2>3, <2>4, InvParts DEF RequestsAsked
  <2> HIDE DEF t
  <2> QED BY <2>1, <2>2, <2>3, <2>5, InvParts, EffectsKeep, RenderStep DEF Click
<1>2. CASE FleetEnter \/ FleetSetWindow
  <2>1. Click /\ FleetLoad /\ RenderTrack(track) /\ UNCHANGED trackReqs
    BY <1>2 DEF FleetEnter, FleetSetWindow
  <2>2. /\ DOMAIN wanted' = {"fleet", "track"}
        /\ wanted'.fleet = TRUE /\ wanted'.track = wanted.track
        /\ IsFleet(fleet')
    BY <2>1 DEF FleetLoad, Inv, Shape, IsFleet
  <2>3. RequestsAsked'
    BY <2>1, <2>2, InvParts DEF RequestsAsked
  <2> QED BY <2>1, <2>2, <2>3, InvParts, EffectsKeep, RenderStep DEF Click
<1> QED BY <1>1, <1>2

\* A playback is left: no fetch of it is the latest any more.
LEMMA ExitStep ==
  ASSUME Inv, TrackExit \/ FleetExit
  PROVE  Inv'
<1>1. CASE TrackExit
  <2> DEFINE t == StandDown(track)
  <2>1. /\ Click /\ RenderTrack(t) /\ UNCHANGED <<fleet, fleetReqs>>
        /\ wanted' = [wanted EXCEPT !.track = FALSE]
        /\ trackReqs' = Stale(trackReqs)
    BY <1>1 DEF TrackExit
  <2>2. IsTrack(t) /\ t.session = None
    BY DEF Inv, Shape, IsTrack, StandDown
  <2>3. DOMAIN wanted' = {"fleet", "track"} /\ wanted'.fleet = wanted.fleet
    BY <2>1 DEF Inv, Shape
  <2>4. \A r \in trackReqs' : IsRequest(r) /\ r.tag = "stale"
    BY <2>1 DEF Inv, Shape, Stale, IsRequest
  <2>5. RequestsAsked'
    BY <2>1, <2>3, <2>4, InvParts DEF RequestsAsked
  <2> HIDE DEF t
  <2> QED BY <2>1, <2>2, <2>5, EffectsKeep, RenderStep DEF Click
<1>2. CASE FleetExit
  <2>1. /\ Click /\ RenderTrack(track) /\ UNCHANGED trackReqs
        /\ "current" \notin fleetReqs'
    BY <1>2 DEF FleetExit
  <2>2. /\ DOMAIN wanted' = {"fleet", "track"} /\ wanted'.track = wanted.track
        /\ IsFleet(fleet') /\ fleet'.active = FALSE
    BY <1>2 DEF FleetExit, Inv, Shape, IsFleet
  <2>3. RequestsAsked'
    BY <2>1, <2>2, InvParts DEF RequestsAsked
  <2> QED BY <2>1, <2>2, <2>3, InvParts, EffectsKeep, RenderStep DEF Click
<1> QED BY <1>1, <1>2

-----------------------------------------------------------------------------
(* The network.                                                            *)

\* The traffic around a track: a late answer is dropped, and one that is still
\* wanted opens the session of the vessel and window it was asked for, which
\* are the ones of now.
LEMMA TrackAnswerStep ==
  ASSUME Inv, NEW r \in trackReqs, TrackAnswers(r)
  PROVE  Inv'
<1>1. /\ trackReqs' = trackReqs \ {r}
      /\ UNCHANGED <<sel, showTrail, win, fleet, fleetReqs, wanted>>
  BY DEF TrackAnswers
<1>2. RequestsAsked'
  BY <1>1, InvParts DEF RequestsAsked
<1>3. CASE r.tag = "current" /\ view.keyRef = r.key
  <2> DEFINE s == [NoSeek EXCEPT !.track = 0]
             t == [track EXCEPT !.session = [to |-> r.to, of |-> r.key[1], win |-> r.key[2]],
                                !.loading = FALSE, !.playing = TRUE, !.head = 0, !.pose = None]
  <2>1. AnswerSeeking(s) /\ RenderTrack(t)
    BY <1>3 DEF TrackAnswers
  <2>2. /\ IsTrack(t) /\ t.key = track.key
        /\ t.session.of = r.key[1] /\ t.session.win = r.key[2]
    BY DEF Inv, Shape, IsTrack
  <2>3. due # "sync"
    BY <2>1 DEF AnswerSeeking
  <2>4. r.key[1] = track.key[1] /\ r.key[2] = track.key[2]
    BY <1>3, <2>3 DEF Inv, Settled, Key
  <2>5. wanted'.track
    BY <1>1, <1>3 DEF Inv, Asked
  <2> HIDE DEF t, s
  <2> QED BY <1>1, <1>2, <2>1, <2>2, <2>4, <2>5, EffectsKeep, RenderStep
<1>4. CASE UNCHANGED <<track, view, sought, due>>
  <2>1. RequestsAsked
    BY InvParts
  <2> QED BY <1>1, <1>2, <1>4 DEF Inv, Shape, Asked, Settled, RequestsAsked, Key, Enabled
<1> QED BY <1>3, <1>4 DEF TrackAnswers

\* Points of the trail, and what the fleet's fetches bring.
LEMMA OtherAnswerStep ==
  ASSUME Inv, (\E t \in Moment : TrailAnswers(t))
              \/ \E r \in fleetReqs : FleetFails(r) \/ \E to \in Moment \ {0} : FleetAnswers(r, to)
  PROVE  Inv'
<1>1. ASSUME NEW s, AnswerSeeking(s), RenderTrack(track), RequestsAsked',
             UNCHANGED <<sel, win, wanted>>
      PROVE  Inv'
  BY <1>1, InvParts, EffectsKeep, RenderStep
<1>2. ASSUME NEW t \in Moment, TrailAnswers(t) PROVE Inv'
  <2>1. RequestsAsked'
    BY <1>2, InvParts DEF TrailAnswers, RequestsAsked
  <2> QED BY <1>1, <1>2, <2>1 DEF TrailAnswers
<1>3. ASSUME NEW r \in fleetReqs, UNCHANGED <<trackReqs, wanted>>, fleetReqs' = fleetReqs \ {r},
             UNCHANGED <<sel, showTrail, win, fleet, track, view, sought, due>>
      PROVE  Inv'
  BY <1>3 DEF Inv, Shape, Asked, Settled, Key, Enabled
<1>4. ASSUME NEW r \in fleetReqs, FleetFails(r) PROVE Inv'
  <2>1. CASE r = "current"
    <3>1. IsFleet(fleet') /\ fleet'.active = fleet.active
      BY <1>4, <2>1 DEF FleetFails, Inv, Shape, IsFleet
    <3>2. RequestsAsked'
      BY <1>4, <3>1, InvParts DEF FleetFails, RequestsAsked
    <3> QED BY <1>1, <1>4, <2>1, <3>2 DEF FleetFails
  <2>2. CASE r # "current"
    BY <1>3, <1>4, <2>2 DEF FleetFails
  <2> QED BY <2>1, <2>2
<1>5. ASSUME NEW r \in fleetReqs, NEW to \in Moment \ {0}, FleetAnswers(r, to) PROVE Inv'
  <2>1. CASE r = "current"
    <3>1. IsFleet(fleet') /\ wanted.fleet
      BY <1>5, <2>1 DEF FleetAnswers, Inv, Shape, Asked, IsFleet
    <3>2. RequestsAsked'
      BY <1>5, <3>1, InvParts DEF FleetAnswers, RequestsAsked
    <3> QED BY <1>1, <1>5, <2>1, <3>2 DEF FleetAnswers
  <2>2. CASE r # "current"
    BY <1>3, <1>5, <2>2 DEF FleetAnswers
  <2> QED BY <2>1, <2>2
<1> QED BY <1>2, <1>4, <1>5

-----------------------------------------------------------------------------
(* The frames and the effects.                                             *)

LEMMA FrameStep ==
  ASSUME Inv, NEW n \in Moment, NEW report \in BOOLEAN, NEW draw \in BOOLEAN,
         NEW pose \in Vessels \cup {None},
         FleetFrame(n, report, pose) \/ TrackFrame(n, report, pose, draw)
  PROVE  Inv'
<1>1. ASSUME NEW v, IsView(v), v.keyRef = view.keyRef, view' = v,
             due' = due,
             UNCHANGED <<sel, showTrail, win, fleet, fleetReqs, trackReqs, wanted, track>>
      PROVE  Inv'
  BY <1>1 DEF Inv, Shape, Asked, Settled, Key, Enabled
<1>2. ASSUME NEW v, IsView(v), view' = Effects(v), UNCHANGED <<sel, win, trackReqs, fleetReqs, wanted>>,
             IsFleet(fleet'), fleet'.active = fleet.active,
             NEW t, IsTrack(t), t.session = track.session, t.key = track.key, RenderTrack(t)
      PROVE  Inv'
  <2>1. RequestsAsked'
    BY <1>2, InvParts DEF RequestsAsked
  <2>2. KeyRefKept'
    BY <1>2, EffectsShape DEF KeyRefKept, Key
  <2> QED BY <1>2, <2>1, <2>2, InvParts, RenderStep
<1>3. CASE FleetFrame(n, report, pose)
  <2> DEFINE d == Moved(view.fleetClock, view.fleet, n)
             v == [view EXCEPT !.fleetClock = d]
  <2>1. IsView(v) /\ v.keyRef = view.keyRef
    BY DEF Inv, Shape, IsView
  <2>2. /\ fleet' = [Progressed(fleet, view.fleetClock, d, view.fleet, report)
                       EXCEPT !.pose = IF report THEN pose ELSE @]
        /\ UNCHANGED <<sel, showTrail, win, fleetReqs, trackReqs, wanted>>
        /\ \/ fleet' = fleet /\ view' = v /\ UNCHANGED <<due, track>>
           \/ view' = Effects(v) /\ RenderTrack(track)
    BY <1>3 DEF FleetFrame
  <2>3. IsFleet(fleet') /\ fleet'.active = fleet.active
    BY <2>2 DEF Inv, Shape, IsFleet, Progressed
  <2> HIDE DEF v, d
  <2>4. CASE fleet' = fleet /\ view' = v /\ UNCHANGED <<due, track>>
    BY <1>1, <2>1, <2>2, <2>4
  <2>5. CASE view' = Effects(v) /\ RenderTrack(track)
    BY <1>2, <2>1, <2>2, <2>3, <2>5, InvParts
  <2> QED BY <2>2, <2>4, <2>5
<1>4. CASE TrackFrame(n, report, pose, draw)
  <2> DEFINE d == Moved(view.trackClock, view.track, n)
             dirty == d.now # view.trackClock.now
             v == [view EXCEPT !.trackClock = d,
                               !.poseDirty = (@ \/ dirty) /\ ~report,
                               !.drawDirty = (@ \/ dirty) /\ ~draw,
                               !.drawn = IF draw /\ (view.drawDirty \/ dirty)
                                         THEN [of |-> view.track.of, points |-> view.track.points,
                                               now |-> d.now]
                                         ELSE @]
             t == [Progressed(track, view.trackClock, d, view.track, report)
                     EXCEPT !.pose = IF report THEN pose ELSE @]
  <2>1. IsView(v) /\ v.keyRef = view.keyRef
    BY DEF Inv, Shape, IsView
  <2>2. IsTrack(t) /\ t.session = track.session /\ t.key = track.key
    BY DEF Inv, Shape, IsTrack, Progressed
  <2>3. /\ UNCHANGED <<sel, showTrail, win, fleet, fleetReqs, trackReqs, wanted>>
        /\ \/ view' = v /\ UNCHANGED <<due, track>>
           \/ view' = Effects(v) /\ RenderTrack(t)
    BY <1>4 DEF TrackFrame
  <2>4. IsFleet(fleet') /\ fleet'.active = fleet.active
    BY <2>3 DEF Inv, Shape
  <2> HIDE DEF v, d, dirty, t
  <2>5. CASE view' = v /\ UNCHANGED <<due, track>>
    BY <1>1, <2>1, <2>3, <2>5
  <2>6. CASE view' = Effects(v) /\ RenderTrack(t)
    BY <1>2, <2>1, <2>2, <2>3, <2>4, <2>6
  <2> QED BY <2>3, <2>5, <2>6
<1> QED BY <1>3, <1>4

LEMMA EffectsStep ==
  ASSUME Inv, RunEffects
  PROVE  Inv'
<1>1. view' = Effects(view) /\ UNCHANGED state
  BY DEF RunEffects, Flush
<1>2. IsView(view') /\ view'.keyRef = Key
  BY <1>1, EffectsShape DEF Inv, Shape
<1> QED BY <1>1, <1>2 DEF Inv, Shape, Asked, Settled, Key, Enabled, state

-----------------------------------------------------------------------------
LEMMA InvStep == Inv /\ [Next]_vars => Inv'
<1> SUFFICES ASSUME Inv, [Next]_vars PROVE Inv'
  OBVIOUS
<1>1. CASE RunEffects
  BY <1>1, EffectsStep
<1>2. CASE Visitor
  BY <1>2, SelectionStep, TransportStep, EnterStep, ExitStep DEF Visitor
<1>3. CASE Network
  BY <1>3, TrackAnswerStep, OtherAnswerStep DEF Network
<1>4. CASE Frame
  BY <1>4, FrameStep DEF Frame
<1>5. CASE UNCHANGED vars
  BY <1>5 DEF Inv, Shape, Asked, Settled, Key, Enabled, vars, state
<1> QED BY <1>1, <1>2, <1>3, <1>4, <1>5 DEF Next

LEMMA InvHolds == Spec => []Inv
BY InvInit, InvStep, PTL DEF Spec

\* No answer that comes late opens a playback the visitor has left
\* (useTrackReplay.ts:160-199, useFleetReplay.ts:78-129).
THEOREM OnlyWhatWasAskedHolds == Spec => []OnlyWhatWasAsked
<1>1. Inv => OnlyWhatWasAsked
  BY DEF Inv, Asked, OnlyWhatWasAsked
<1> QED BY <1>1, InvHolds, PTL

\* What plays was opened for the vessel that is selected now, under the window
\* that is chosen now (useTrackReplay.ts:131-175).
THEOREM PlaysSelectionHolds == Spec => []PlaysSelection
<1>1. Inv => PlaysSelection
  BY DEF Inv, Settled, PlaysSelection, Key
<1> QED BY <1>1, InvHolds, PTL

-----------------------------------------------------------------------------
(* The clocks.                                                             *)

IsClock(c) == DOMAIN c = {"now", "ended"}

\* A clock fits the playback it drives, whose hook is in state p: unless a seek
\* is about to move it, it runs to the same end; and when it has latched that
\* end, the hook knows: it is paused there, and play will start it over.
Fits(c, control, seek, on, p, to) ==
  (control # None /\ on /\ seek = None) =>
    /\ control.to = to
    /\ c.ended => c.now = to /\ p.head >= to /\ ~p.playing

FleetFits(v, p) == Fits(v.fleetClock, v.fleet, sought.fleet, fleet.active, p, fleet.to)
TrackFits(v, p) ==
  Fits(v.trackClock, v.track, sought.track, track.session # None, p, track.session.to)

Clocks ==
  /\ IsClock(view.fleetClock) /\ IsClock(view.trackClock)
  /\ fleet.to \in Int /\ trail.to \in Int
  /\ track.session # None => track.session.to \in Int
  /\ \A r \in trackReqs : r.to \in Int
  /\ FleetFits(view, fleet) /\ TrackFits(view, track)
  /\ due = "no" => view.fleet = FleetControl /\ view.track = TrackControl /\ sought = NoSeek

\* The effects mirror the controls and honour the seeks: the clocks they leave
\* fit with no seek pending.
LEMMA EffectsFit ==
  ASSUME NEW v, IsView(v), IsClock(v.fleetClock), IsClock(v.trackClock),
         NEW p, FleetFits(v, p), NEW q, TrackFits(v, q)
  PROVE  /\ IsClock(Effects(v).fleetClock) /\ IsClock(Effects(v).trackClock)
         /\ Effects(v).fleet = FleetControl /\ Effects(v).track = TrackControl
         /\ Fits(Effects(v).fleetClock, FleetControl, None, fleet.active, p, fleet.to)
         /\ Fits(Effects(v).trackClock, TrackControl, None, track.session # None, q, track.session.to)
<1>1. /\ Effects(v).fleet = FleetControl /\ Effects(v).track = TrackControl
      /\ Effects(v).fleetClock = Reclock(v.fleetClock, v.fleet, FleetControl, sought.fleet)
      /\ Effects(v).trackClock = Reclock(v.trackClock, v.track, TrackControl, sought.track)
  BY DEF Effects, IsView
<1>2. ASSUME NEW c, IsClock(c), NEW old, NEW new, NEW ts PROVE IsClock(Reclock(c, old, new, ts))
  BY <1>2 DEF Reclock, IsClock
<1>3. fleet.active /\ FleetControl # None => FleetControl.to = fleet.to
  BY DEF FleetControl
<1>4. TrackControl # None => TrackControl.to = track.session.to
  BY DEF TrackControl
<1>5. IsClock(Effects(v).fleetClock) /\ IsClock(Effects(v).trackClock)
  BY <1>1, <1>2
<1>6. Fits(Effects(v).fleetClock, FleetControl, None, fleet.active, p, fleet.to)
  <2> DEFINE d == Reclock(v.fleetClock, v.fleet, FleetControl, sought.fleet)
  <2>1. FleetControl # None /\ d.ended => v.fleet # None /\ sought.fleet = None /\ d = v.fleetClock
    BY DEF Reclock
  <2> QED BY <1>1, <1>3, <2>1 DEF Fits, FleetFits
<1>7. Fits(Effects(v).trackClock, TrackControl, None, track.session # None, q, track.session.to)
  <2> DEFINE d == Reclock(v.trackClock, v.track, TrackControl, sought.track)
  <2>1. TrackControl # None /\ d.ended => v.track # None /\ sought.track = None /\ d = v.trackClock
    BY DEF Reclock
  <2> QED BY <1>1, <1>4, <2>1 DEF Fits, TrackFits
<1> QED BY <1>1, <1>5, <1>6, <1>7

\* What a step may do to the state q of a hook from state p, with seek: the end
\* of the window stays, and paused at the end stays paused at the end.
Tame(p, q, seek, on, to, on2, to2) ==
  (seek = None /\ on2) =>
    /\ on /\ to2 = to
    /\ (p.head >= to /\ ~p.playing) => (q.head >= to2 /\ ~q.playing)

\* A step whose render follows the effects of the one before.
LEMMA TameStep ==
  ASSUME Inv, Inv', Clocks,
         view' = Effects(view), due' # "no",
         fleet'.to \in Int, trail'.to \in Int, \A r \in trackReqs' : r.to \in Int,
         Tame(fleet, fleet', sought'.fleet, fleet.active, fleet.to, fleet'.active, fleet'.to),
         NEW t, IsTrack(t), RenderTrack(t), t.session # None => t.session.to \in Int,
         Tame(track, t, sought'.track, track.session # None, track.session.to,
              t.session # None, t.session.to)
  PROVE  Clocks'
<1>1. /\ IsClock(view'.fleetClock) /\ IsClock(view'.trackClock)
      /\ view'.fleet = FleetControl /\ view'.track = TrackControl
      /\ Fits(view'.fleetClock, view'.fleet, None, fleet.active, fleet, fleet.to)
      /\ Fits(view'.trackClock, view'.track, None, track.session # None, track, track.session.to)
  BY EffectsFit DEF Inv, Shape, Clocks
<1>2. track' = t \/ track'.session = None
  BY DEF RenderTrack, StandDown, IsTrack
<1>3. track'.session # None => track'.session.to \in Int
  BY <1>2
<1>4. FleetFits(view, fleet)'
  BY <1>1 DEF Fits, FleetFits, Tame
<1>5. TrackFits(view, track)'
  <2>1. CASE track'.session = None
    BY <2>1 DEF Fits, TrackFits
  <2>2. CASE track' = t
    BY <1>1, <2>2 DEF Fits, TrackFits, Tame
  <2> QED BY <1>2, <2>1, <2>2
<1> QED BY <1>1, <1>3, <1>4, <1>5 DEF Clocks

\* A step that renders the track as it is, or with its head and transport
\* changed, and leaves the rest of both playbacks alone.
LEMMA ClickTame ==
  ASSUME Inv, Inv', Clocks, NEW s, ClickSeeking(s) \/ AnswerSeeking(s),
         UNCHANGED trail, \A r \in trackReqs' : r.to \in Int,
         fleet'.active = fleet.active /\ fleet'.to = fleet.to,
         s.fleet = None => ((fleet.head >= fleet.to /\ ~fleet.playing) =>
                             (fleet'.head >= fleet'.to /\ ~fleet'.playing)),
         NEW t, IsTrack(t), RenderTrack(t), t.session = track.session,
         s.track = None =>
           ((track.session # None /\ track.head >= track.session.to /\ ~track.playing) =>
              (t.head >= track.session.to /\ ~t.playing))
  PROVE  Clocks'
<1>1. view' = Effects(view) /\ due' # "no" /\ sought' = s
  BY DEF ClickSeeking, AnswerSeeking, Flush
<1>2. fleet'.to \in Int /\ trail'.to \in Int /\ (t.session # None => t.session.to \in Int)
  BY DEF Clocks
<1>3. Tame(fleet, fleet', sought'.fleet, fleet.active, fleet.to, fleet'.active, fleet'.to)
  BY <1>1 DEF Tame
<1>4. Tame(track, t, sought'.track, track.session # None, track.session.to,
           t.session # None, t.session.to)
  BY <1>1 DEF Tame
<1> QED BY <1>1, <1>2, <1>3, <1>4, TameStep

\* Play, restart and scrub: what moves a playback away from a latched end asks
\* for a seek.
LEMMA TransportClocks ==
  ASSUME Inv, Inv', Clocks,
         TrackTogglePlay \/ TrackRestart \/ (\E ts \in Moment : TrackSeek(ts) \/ FleetSeek(ts))
         \/ FleetTogglePlay
  PROVE  Clocks'
<1>1. /\ IsTrack(track) /\ IsFleet(fleet) /\ \A r \in trackReqs : r.to \in Int
      /\ 0 # None /\ \A ts \in Moment : ts # None
  BY ReplayAssumption DEF Inv, Shape, Clocks, Moment
<1>2. CASE TrackTogglePlay
  <2> DEFINE t == Toggled(track, track.session.to)
             s == [NoSeek EXCEPT !.track = IF StartsOver(track, track.session.to) THEN 0 ELSE None]
  <2>1. IsTrack(t) /\ t.session = track.session
    BY <1>1 DEF Toggled, IsTrack
  <2>2. s.track = None => ~StartsOver(track, track.session.to)
    BY <1>1 DEF NoSeek
  <2>3. ClickSeeking(s) /\ RenderTrack(t) /\ UNCHANGED <<trail, fleet, trackReqs>>
    BY <1>2 DEF TrackTogglePlay
  <2> HIDE DEF t, s
  <2> QED BY <1>1, <2>1, <2>2, <2>3, ClickTame DEF StartsOver
<1>3. CASE TrackRestart
  <2> DEFINE t == [track EXCEPT !.head = 0, !.playing = TRUE, !.pose = None]
             s == [NoSeek EXCEPT !.track = 0]
  <2>1. IsTrack(t) /\ t.session = track.session
    BY <1>1 DEF IsTrack
  <2>2. s.track # None
    BY <1>1 DEF NoSeek
  <2>3. ClickSeeking(s) /\ RenderTrack(t) /\ UNCHANGED <<trail, fleet, trackReqs>>
    BY <1>3 DEF TrackRestart
  <2> HIDE DEF t, s
  <2> QED BY <1>1, <2>1, <2>2, <2>3, ClickTame
<1>4. ASSUME NEW ts \in Moment, TrackSeek(ts) PROVE Clocks'
  <2> DEFINE t == [track EXCEPT !.head = ts]
             s == [NoSeek EXCEPT !.track = ts]
  <2>1. IsTrack(t) /\ t.session = track.session
    BY <1>1 DEF IsTrack
  <2>2. s.track # None
    BY <1>1 DEF NoSeek
  <2>3. ClickSeeking(s) /\ RenderTrack(t) /\ UNCHANGED <<trail, fleet, trackReqs>>
    BY <1>4 DEF TrackSeek
  <2> HIDE DEF t, s
  <2> QED BY <1>1, <2>1, <2>2, <2>3, ClickTame
<1>5. ASSUME NEW ts \in Moment, FleetSeek(ts) PROVE Clocks'
  <2> DEFINE s == [NoSeek EXCEPT !.fleet = ts]
  <2>1. fleet'.active = fleet.active /\ fleet'.to = fleet.to
    BY <1>1, <1>5 DEF FleetSeek, IsFleet
  <2>2. s.fleet # None
    BY <1>1 DEF NoSeek
  <2>3. ClickSeeking(s) /\ RenderTrack(track) /\ UNCHANGED <<trail, trackReqs>>
    BY <1>5 DEF FleetSeek
  <2> HIDE DEF s
  <2> QED BY <1>1, <2>1, <2>2, <2>3, ClickTame
<1>6. CASE FleetTogglePlay
  <2> DEFINE s == [NoSeek EXCEPT !.fleet = IF StartsOver(fleet, fleet.to) THEN 0 ELSE None]
  <2>1. fleet'.active = fleet.active /\ fleet'.to = fleet.to
    BY <1>1, <1>6 DEF FleetTogglePlay, Toggled, IsFleet
  <2>2. s.fleet = None => ~StartsOver(fleet, fleet.to)
    BY <1>1 DEF NoSeek
  <2>3. ClickSeeking(s) /\ RenderTrack(track) /\ UNCHANGED <<trail, trackReqs>>
    BY <1>6 DEF FleetTogglePlay
  <2> HIDE DEF s
  <2> QED BY <1>1, <2>1, <2>2, <2>3, ClickTame DEF StartsOver
<1> QED BY <1>2, <1>3, <1>4, <1>5, <1>6

\* Every other click.
LEMMA ClickClocks ==
  ASSUME Inv, Inv', Clocks,
         (\E v \in Vessels \cup {None} : SelectVessel(v)) \/ ToggleTrail
         \/ (\E w \in Windows : SetTrailWindow(w))
         \/ TrackOpens \/ TrackExit \/ FleetEnter \/ FleetSetWindow \/ FleetExit
  PROVE  Clocks'
<1>1. IsTrack(track) /\ IsFleet(fleet) /\ \A r \in trackReqs : r.to \in Int
  BY DEF Inv, Shape, Clocks
<1>2. CASE (\E v \in Vessels \cup {None} : SelectVessel(v)) \/ ToggleTrail
           \/ (\E w \in Windows : SetTrailWindow(w))
  <2>1. Click /\ RenderTrack(track) /\ UNCHANGED <<trail, fleet, trackReqs>>
    BY <1>2 DEF SelectVessel, ToggleTrail, SetTrailWindow
  <2> QED BY <1>1, <2>1, ClickTame DEF Click
<1>3. CASE TrackOpens
  <2> DEFINE t == [track EXCEPT !.loading = TRUE]
  <2>1. Points \in Int
    BY DEF Points, Clocks
  <2>2. \A r \in trackReqs' : r.to \in Int
    BY <1>1, <1>3, <2>1 DEF TrackOpens, TrackEnter, Stale, Inv, Shape, IsRequest
  <2>3. Click /\ RenderTrack(t) /\ UNCHANGED <<trail, fleet>>
    BY <1>3 DEF TrackOpens, TrackEnter
  <2>4. IsTrack(t) /\ t.session = track.session /\ t.head = track.head /\ t.playing = track.playing
    BY <1>1 DEF IsTrack
  <2> HIDE DEF t
  <2> QED BY <2>2, <2>3, <2>4, ClickTame DEF Click
<1>4. CASE TrackExit
  <2> DEFINE t == StandDown(track)
  <2>1. /\ Click /\ RenderTrack(t) /\ UNCHANGED <<trail, fleet>>
        /\ trackReqs' = Stale(trackReqs)
    BY <1>4 DEF TrackExit
  <2>2. \A r \in trackReqs' : r.to \in Int
    BY <1>1, <2>1 DEF Stale, Inv, Shape, IsRequest
  <2>3. IsTrack(t) /\ t.session = None
    BY <1>1 DEF StandDown, IsTrack
  <2>4. Tame(fleet, fleet', sought'.fleet, fleet.active, fleet.to, fleet'.active, fleet'.to)
    BY <2>1 DEF Tame
  <2>5. Tame(track, t, sought'.track, track.session # None, track.session.to,
             t.session # None, t.session.to)
    BY <2>3 DEF Tame
  <2>6. view' = Effects(view) /\ due' # "no" /\ fleet'.to \in Int /\ trail'.to \in Int
    BY <2>1 DEF Click, ClickSeeking, Flush, Clocks
  <2> HIDE DEF t
  <2> QED BY <2>1, <2>2, <2>3, <2>4, <2>5, <2>6, TameStep
<1>5. CASE FleetEnter \/ FleetSetWindow
  <2>1. Click /\ FleetLoad /\ RenderTrack(track) /\ UNCHANGED <<trail, trackReqs>>
    BY <1>5 DEF FleetEnter, FleetSetWindow
  <2>2. /\ fleet'.active = fleet.active /\ fleet'.to = fleet.to
        /\ fleet'.head = fleet.head /\ fleet'.playing = fleet.playing
    BY <1>1, <2>1 DEF FleetLoad, IsFleet
  <2> QED BY <1>1, <2>1, <2>2, ClickTame DEF Click
<1>6. CASE FleetExit
  <2>1. Click /\ RenderTrack(track) /\ UNCHANGED <<trail, trackReqs>>
    BY <1>6 DEF FleetExit
  <2>2. fleet'.active = FALSE /\ fleet'.to = 0
    BY <1>1, <1>6 DEF FleetExit, IsFleet
  <2>3. Tame(fleet, fleet', sought'.fleet, fleet.active, fleet.to, fleet'.active, fleet'.to)
    BY <2>2 DEF Tame
  <2>4. Tame(track, track, sought'.track, track.session # None, track.session.to,
             track.session # None, track.session.to)
    BY DEF Tame
  <2>5. view' = Effects(view) /\ due' # "no" /\ fleet'.to \in Int /\ trail'.to \in Int
    BY <2>1, <2>2 DEF Click, ClickSeeking, Flush, Clocks
  <2>6. track.session # None => track.session.to \in Int
    BY DEF Clocks
  <2> QED BY <1>1, <2>1, <2>3, <2>4, <2>5, <2>6, TameStep
<1> QED BY <1>2, <1>3, <1>4, <1>5, <1>6

\* A step that leaves what the clocks are compared with alone.
LEMMA SameClocks ==
  ASSUME Clocks, UNCHANGED <<sel, showTrail, trail, track, fleet, view, sought, due>>,
         \A r \in trackReqs' : r.to \in Int
  PROVE  Clocks'
BY DEF Clocks, FleetFits, TrackFits, Fits, FleetControl, TrackControl, Points

\* An answer that starts a playback starts its clock with a seek.
LEMMA AnswerClocks ==
  ASSUME Inv, Inv', Clocks, Network
  PROVE  Clocks'
<1>1. /\ IsTrack(track) /\ IsFleet(fleet) /\ \A r \in trackReqs : r.to \in Int
      /\ 0 # None /\ \A ts \in Moment : ts \in Int
  BY ReplayAssumption DEF Inv, Shape, Clocks, Moment
<1>t. /\ track.session # None => track.session.to \in Int
      /\ Tame(track, track, sought'.track, track.session # None, track.session.to,
              track.session # None, track.session.to)
  BY DEF Clocks, Tame
<1>2. ASSUME NEW t \in Moment, TrailAnswers(t) PROVE Clocks'
  <2>1. /\ AnswerSeeking(NoSeek) /\ RenderTrack(track) /\ UNCHANGED <<fleet, trackReqs>>
        /\ trail'.to = t
    BY <1>2 DEF TrailAnswers
  <2>2. Tame(fleet, fleet', sought'.fleet, fleet.active, fleet.to, fleet'.active, fleet'.to)
    BY <2>1 DEF Tame
  <2>3. view' = Effects(view) /\ due' # "no" /\ fleet'.to \in Int /\ trail'.to \in Int
    BY <1>1, <2>1 DEF AnswerSeeking, Flush, Clocks
  <2> QED BY <1>1, <1>t, <2>1, <2>2, <2>3, TameStep
<1>3. ASSUME NEW r \in trackReqs, TrackAnswers(r) PROVE Clocks'
  <2>1. UNCHANGED <<sel, showTrail, trail, fleet>> /\ \A q \in trackReqs' : q.to \in Int
    BY <1>1, <1>3 DEF TrackAnswers
  <2>2. CASE r.tag = "current" /\ view.keyRef = r.key
    <3> DEFINE s == [NoSeek EXCEPT !.track = 0]
               t == [track EXCEPT !.session = [to |-> r.to, of |-> r.key[1], win |-> r.key[2]],
                                  !.loading = FALSE, !.playing = TRUE, !.head = 0, !.pose = None]
    <3>1. AnswerSeeking(s) /\ RenderTrack(t)
      BY <1>3, <2>2 DEF TrackAnswers
    <3>2. IsTrack(t) /\ t.session.to \in Int /\ s.track # None
      BY <1>1 DEF IsTrack, NoSeek
    <3> HIDE DEF t, s
    <3>3. view' = Effects(view) /\ due' # "no" /\ sought' = s
          /\ fleet'.to \in Int /\ trail'.to \in Int
      BY <2>1, <3>1 DEF AnswerSeeking, Flush, Clocks
    <3>4. Tame(track, t, sought'.track, track.session # None, track.session.to,
               t.session # None, t.session.to)
      BY <3>2, <3>3 DEF Tame
    <3>5. Tame(fleet, fleet', sought'.fleet, fleet.active, fleet.to, fleet'.active, fleet'.to)
      BY <2>1 DEF Tame
    <3> QED BY <2>1, <3>1, <3>2, <3>3, <3>4, <3>5, TameStep
  <2>3. CASE UNCHANGED <<track, view, sought, due>>
    BY <2>1, <2>3, SameClocks
  <2> QED BY <1>3, <2>2, <2>3 DEF TrackAnswers
<1>4. ASSUME NEW r \in fleetReqs, FleetFails(r) PROVE Clocks'
  <2>1. UNCHANGED <<sel, showTrail, trail, trackReqs>>
    BY <1>4 DEF FleetFails
  <2>2. CASE r = "current"
    <3>1. AnswerSeeking(NoSeek) /\ RenderTrack(track)
      BY <1>4, <2>2 DEF FleetFails
    <3>2. /\ fleet'.active = fleet.active /\ fleet'.to = fleet.to
          /\ fleet'.head = fleet.head /\ fleet'.playing = fleet.playing
      BY <1>1, <1>4, <2>2 DEF FleetFails, IsFleet
    <3> QED BY <1>1, <2>1, <3>1, <3>2, ClickTame
  <2>3. CASE r # "current"
    BY <1>1, <1>4, <2>1, <2>3, SameClocks DEF FleetFails
  <2> QED BY <2>2, <2>3
<1>5. ASSUME NEW r \in fleetReqs, NEW to \in Moment \ {0}, FleetAnswers(r, to) PROVE Clocks'
  <2>1. UNCHANGED <<sel, showTrail, trail, trackReqs>>
    BY <1>5 DEF FleetAnswers
  <2>2. CASE r = "current"
    <3> DEFINE s == [NoSeek EXCEPT !.fleet = 0]
    <3>1. AnswerSeeking(s) /\ RenderTrack(track)
      BY <1>5, <2>2 DEF FleetAnswers
    <3>2. fleet'.to = to /\ s.fleet # None
      BY <1>1, <1>5, <2>2 DEF FleetAnswers, IsFleet, NoSeek
    <3> HIDE DEF s
    <3>3. view' = Effects(view) /\ due' # "no" /\ sought' = s
          /\ fleet'.to \in Int /\ trail'.to \in Int
      BY <1>1, <2>1, <3>1, <3>2 DEF AnswerSeeking, Flush, Clocks
    <3>4. Tame(fleet, fleet', sought'.fleet, fleet.active, fleet.to, fleet'.active, fleet'.to)
      BY <3>2, <3>3 DEF Tame
    <3> QED BY <1>1, <1>t, <2>1, <3>1, <3>3, <3>4, TameStep
  <2>3. CASE r # "current"
    BY <1>1, <1>5, <2>1, <2>3, SameClocks DEF FleetAnswers
  <2> QED BY <2>2, <2>3
<1> QED BY <1>2, <1>3, <1>4, <1>5 DEF Network

\* A frame that takes a clock to its end pauses the hook there.
LEMMA MovedFits ==
  ASSUME NEW c, IsClock(c), NEW control, NEW n \in Int, NEW p, NEW q, NEW report,
         NEW seek, NEW on, NEW to \in Int, Fits(c, control, seek, on, p, to), control # None,
         q.head = Progressed(p, c, Moved(c, control, n), control, report).head,
         q.playing = Progressed(p, c, Moved(c, control, n), control, report).playing,
         "head" \in DOMAIN p, "playing" \in DOMAIN p
  PROVE  /\ IsClock(Moved(c, control, n))
         /\ Fits(Moved(c, control, n), control, seek, on, q, to)
<1> DEFINE d == Moved(c, control, n)
<1>1. /\ IsClock(d)
      /\ d.ended /\ ~c.ended => d.now = control.to
      /\ c.ended => d = c
  BY DEF Moved, Runs, IsClock
<1>2. Progressed(p, c, d, control, report).head =
        IF (report /\ control.playing) \/ (d.ended /\ ~c.ended) THEN d.now ELSE p.head
  BY DEF Progressed
<1>3. Progressed(p, c, d, control, report).playing = (p.playing /\ ~(d.ended /\ ~c.ended))
  BY DEF Progressed
<1>4. q.head = d.now \/ (q.head = p.head /\ ~(d.ended /\ ~c.ended))
  BY <1>2
<1>5. q.playing => p.playing /\ ~(d.ended /\ ~c.ended)
  BY <1>3
<1> HIDE DEF d
<1>6. ASSUME on, seek = None, d.ended PROVE d.now = to /\ q.head >= to /\ ~q.playing
  <2>1. control.to = to /\ (c.ended => c.now = to /\ p.head >= to /\ ~p.playing)
    BY <1>6 DEF Fits
  <2>2. CASE c.ended
    <3>1. d = c /\ c.now = to /\ p.head >= to /\ ~p.playing
      BY <1>1, <2>1, <2>2
    <3>2. ~q.playing
      BY <1>5, <3>1
    <3>3. q.head >= to
      BY <1>4, <3>1
    <3> QED BY <3>1, <3>2, <3>3
  <2>3. CASE ~c.ended
    <3>1. d.now = to
      BY <1>1, <1>6, <2>1, <2>3
    <3>2. ~q.playing
      BY <1>5, <1>6, <2>3
    <3>3. q.head >= to
      BY <1>4, <1>6, <2>3, <3>1
    <3> QED BY <3>1, <3>2, <3>3
  <2> QED BY <2>2, <2>3
<1>7. on /\ seek = None => control.to = to
  BY DEF Fits
<1> QED BY <1>1, <1>6, <1>7 DEF Fits, d

\* A frame that shows something new: the effects it runs first see the clocks
\* it has moved, and the hook it reports to.
LEMMA FrameEffects ==
  ASSUME Inv, Inv', Clocks,
         NEW v, IsView(v), IsClock(v.fleetClock), IsClock(v.trackClock), view' = Effects(v),
         due' = "passive", sought' = NoSeek, UNCHANGED <<trail, trackReqs>>,
         fleet'.active = fleet.active, fleet'.to = fleet.to, FleetFits(v, fleet'),
         NEW t, IsTrack(t), RenderTrack(t), t.session = track.session, TrackFits(v, t)
  PROVE  Clocks'
<1>1. /\ IsClock(view'.fleetClock) /\ IsClock(view'.trackClock)
      /\ view'.fleet = FleetControl /\ view'.track = TrackControl
      /\ Fits(view'.fleetClock, view'.fleet, None, fleet.active, fleet', fleet.to)
      /\ Fits(view'.trackClock, view'.track, None, track.session # None, t, track.session.to)
  BY EffectsFit
<1>2. track' = t \/ track'.session = None
  BY DEF RenderTrack, StandDown, IsTrack
<1>3. FleetFits(view, fleet)'
  BY <1>1 DEF FleetFits, Fits
<1>4. TrackFits(view, track)'
  BY <1>1, <1>2 DEF TrackFits, Fits
<1>5. fleet'.to \in Int /\ trail'.to \in Int /\ \A r \in trackReqs' : r.to \in Int
  BY DEF Clocks
<1>6. track'.session # None => track'.session.to \in Int
  BY <1>2 DEF Clocks
<1> QED BY <1>1, <1>3, <1>4, <1>5, <1>6 DEF Clocks

LEMMA FleetFrameClocks ==
  ASSUME Inv, Inv', Clocks, NEW n \in Moment, NEW report \in BOOLEAN, NEW pose,
         FleetFrame(n, report, pose)
  PROVE  Clocks'
<1> DEFINE d == Moved(view.fleetClock, view.fleet, n)
           v == [view EXCEPT !.fleetClock = d]
<1>1. /\ IsTrack(track) /\ IsFleet(fleet) /\ IsView(view)
      /\ n \in Int /\ fleet.to \in Int
      /\ track.session # None => track.session.to \in Int
      /\ IsClock(view.fleetClock) /\ IsClock(view.trackClock)
  BY ReplayAssumption DEF Inv, Shape, Clocks, Moment
<1>2. /\ view.fleet # None
      /\ UNCHANGED <<sel, showTrail, win, trail, trackReqs>>
      /\ fleet' = [Progressed(fleet, view.fleetClock, d, view.fleet, report)
                     EXCEPT !.pose = IF report THEN pose ELSE @]
      /\ \/ fleet' = fleet /\ view' = v /\ UNCHANGED <<due, sought, track>>
         \/ view' = Effects(v) /\ due' = "passive" /\ sought' = NoSeek /\ RenderTrack(track)
  BY DEF FleetFrame
<1>3. /\ fleet'.active = fleet.active /\ fleet'.to = fleet.to
      /\ fleet'.head = Progressed(fleet, view.fleetClock, d, view.fleet, report).head
      /\ fleet'.playing = Progressed(fleet, view.fleetClock, d, view.fleet, report).playing
  BY <1>1, <1>2 DEF IsFleet, Progressed
<1>4. IsClock(d) /\ Fits(d, view.fleet, sought.fleet, fleet.active, fleet', fleet.to)
  <2>1. Fits(view.fleetClock, view.fleet, sought.fleet, fleet.active, fleet, fleet.to)
    BY DEF Clocks, FleetFits
  <2> QED BY <1>1, <1>2, <1>3, <2>1, MovedFits DEF IsFleet
<1>5. /\ IsView(v) /\ v.fleetClock = d /\ v.trackClock = view.trackClock
      /\ v.fleet = view.fleet /\ v.track = view.track
  BY <1>1 DEF IsView
<1> HIDE DEF v, d
<1>6. FleetFits(v, fleet') /\ TrackFits(v, track)
  BY <1>4, <1>5 DEF Clocks, FleetFits, TrackFits
<1>7. CASE fleet' = fleet /\ view' = v /\ UNCHANGED <<due, sought, track>>
  <2>1. FleetControl' = FleetControl /\ TrackControl' = TrackControl
    BY <1>2, <1>7 DEF FleetControl, TrackControl, Points
  <2>2. FleetFits(view, fleet)' /\ TrackFits(view, track)'
    BY <1>6, <1>7 DEF FleetFits, TrackFits
  <2> QED BY <1>1, <1>2, <1>4, <1>5, <1>7, <2>1, <2>2 DEF Clocks
<1>8. CASE view' = Effects(v) /\ due' = "passive" /\ sought' = NoSeek /\ RenderTrack(track)
  BY <1>1, <1>2, <1>3, <1>4, <1>5, <1>6, <1>8, FrameEffects
<1> QED BY <1>2, <1>7, <1>8

LEMMA TrackFrameClocks ==
  ASSUME Inv, Inv', Clocks, NEW n \in Moment, NEW report \in BOOLEAN, NEW draw \in BOOLEAN,
         NEW pose, TrackFrame(n, report, pose, draw)
  PROVE  Clocks'
<1> DEFINE d == Moved(view.trackClock, view.track, n)
           dirty == d.now # view.trackClock.now
           v == [view EXCEPT !.trackClock = d,
                             !.poseDirty = (@ \/ dirty) /\ ~report,
                             !.drawDirty = (@ \/ dirty) /\ ~draw,
                             !.drawn = IF draw /\ (view.drawDirty \/ dirty)
                                       THEN [of |-> view.track.of, points |-> view.track.points,
                                             now |-> d.now]
                                       ELSE @]
           t == [Progressed(track, view.trackClock, d, view.track, report)
                   EXCEPT !.pose = IF report THEN pose ELSE @]
<1>1. /\ IsTrack(track) /\ IsFleet(fleet) /\ IsView(view)
      /\ n \in Int /\ fleet.to \in Int
      /\ track.session # None => track.session.to \in Int
      /\ IsClock(view.fleetClock) /\ IsClock(view.trackClock)
  BY ReplayAssumption DEF Inv, Shape, Clocks, Moment
<1>2. /\ view.track # None
      /\ UNCHANGED <<sel, showTrail, win, trail, fleet, trackReqs>>
      /\ \/ t = track /\ view' = v /\ UNCHANGED <<due, sought, track>>
         \/ view' = Effects(v) /\ due' = "passive" /\ sought' = NoSeek /\ RenderTrack(t)
  BY DEF TrackFrame
<1>3. /\ IsTrack(t) /\ t.session = track.session
      /\ t.head = Progressed(track, view.trackClock, d, view.track, report).head
      /\ t.playing = Progressed(track, view.trackClock, d, view.track, report).playing
  BY <1>1 DEF IsTrack, Progressed
<1>4. /\ IsClock(d)
      /\ track.session # None => Fits(d, view.track, sought.track, TRUE, t, track.session.to)
  <2>1. track.session # None =>
          Fits(view.trackClock, view.track, sought.track, TRUE, track, track.session.to)
    BY DEF Clocks, TrackFits, Fits
  <2>2. IsClock(d)
    BY <1>1 DEF Moved, IsClock
  <2> HIDE DEF t
  <2> QED BY <1>1, <1>2, <1>3, <2>1, <2>2, MovedFits DEF IsTrack
<1>5. /\ IsView(v) /\ v.trackClock = d /\ v.fleetClock = view.fleetClock
      /\ v.fleet = view.fleet /\ v.track = view.track
  BY <1>1 DEF IsView
<1> HIDE DEF v, d, dirty, t
<1>6. FleetFits(v, fleet) /\ TrackFits(v, t)
  BY <1>4, <1>5 DEF Clocks, FleetFits, TrackFits, Fits
<1>7. CASE t = track /\ view' = v /\ UNCHANGED <<due, sought, track>>
  <2>1. FleetControl' = FleetControl /\ TrackControl' = TrackControl
    BY <1>2, <1>7 DEF FleetControl, TrackControl, Points
  <2>2. FleetFits(view, fleet)' /\ TrackFits(view, track)'
    BY <1>2, <1>6, <1>7 DEF FleetFits, TrackFits
  <2> QED BY <1>1, <1>2, <1>4, <1>5, <1>7, <2>1, <2>2 DEF Clocks
<1>8. CASE view' = Effects(v) /\ due' = "passive" /\ sought' = NoSeek /\ RenderTrack(t)
  <2>1. FleetFits(v, fleet')
    BY <1>2, <1>6
  <2> QED BY <1>1, <1>2, <1>3, <1>4, <1>5, <1>6, <1>8, <2>1, FrameEffects
<1> QED BY <1>2, <1>7, <1>8

LEMMA EffectsClocks ==
  ASSUME Inv, Clocks, RunEffects
  PROVE  Clocks'
<1>1. view' = Effects(view) /\ UNCHANGED state /\ sought' = NoSeek
  BY DEF RunEffects, Flush
<1>2. /\ IsClock(view'.fleetClock) /\ IsClock(view'.trackClock)
      /\ view'.fleet = FleetControl /\ view'.track = TrackControl
      /\ Fits(view'.fleetClock, view'.fleet, None, fleet.active, fleet, fleet.to)
      /\ Fits(view'.trackClock, view'.track, None, track.session # None, track, track.session.to)
  BY <1>1, EffectsFit DEF Inv, Shape, Clocks
<1>3. FleetControl' = FleetControl /\ TrackControl' = TrackControl
  BY <1>1 DEF FleetControl, TrackControl, Points, state
<1>4. FleetFits(view, fleet)' /\ TrackFits(view, track)'
  BY <1>1, <1>2 DEF FleetFits, TrackFits, Fits, NoSeek, state
<1> QED BY <1>1, <1>2, <1>3, <1>4 DEF Clocks, state

LEMMA ClocksStep == Inv /\ Inv' /\ Clocks /\ [Next]_vars => Clocks'
<1> SUFFICES ASSUME Inv, Inv', Clocks, [Next]_vars PROVE Clocks'
  OBVIOUS
<1>1. CASE RunEffects
  BY <1>1, EffectsClocks
<1>2. CASE Visitor
  BY <1>2, TransportClocks, ClickClocks DEF Visitor
<1>3. CASE Network
  BY <1>3, AnswerClocks
<1>4. CASE Frame
  BY <1>4, FleetFrameClocks, TrackFrameClocks DEF Frame
<1>5. CASE UNCHANGED vars
  <2>1. \A r \in trackReqs' : r.to \in Int
    BY <1>5 DEF Clocks, vars, state
  <2> QED BY <1>5, <2>1, SameClocks DEF vars, state
<1> QED BY <1>1, <1>2, <1>3, <1>4, <1>5 DEF Next

\* A transport that shows "playing" is never stuck behind a clock that has
\* latched the end of its window (Map.tsx:508-526, 625-678, useTrackReplay.ts:223-242).
THEOREM PlayingMovesHolds == Spec => []PlayingMoves
<1>1. Init => Clocks
  BY DEF Init, SelectionInit, FleetInit, TrackInit, ViewInit, Idle, Clocks, FleetFits, TrackFits,
         Fits, IsClock, FleetControl, TrackControl
<1>2. Clocks => PlayingMoves
  <2> SUFFICES ASSUME Clocks, due = "no"
               PROVE  /\ view.fleet # None /\ view.fleet.playing => ~view.fleetClock.ended
                      /\ view.track # None /\ view.track.playing => ~view.trackClock.ended
    BY DEF PlayingMoves
  <2>1. view.fleet = FleetControl /\ view.track = TrackControl
        /\ sought.fleet = None /\ sought.track = None
    BY DEF Clocks, NoSeek
  <2>2. view.fleet # None => fleet.active /\ view.fleet.playing = fleet.playing
    BY <2>1 DEF FleetControl
  <2>3. view.track # None => track.session # None /\ view.track.playing = track.playing
    BY <2>1 DEF TrackControl
  <2> QED BY <2>1, <2>2, <2>3 DEF Clocks, FleetFits, TrackFits, Fits
<1>3. Inv /\ Clocks /\ [Next]_vars => (Inv /\ Clocks)'
  BY InvStep, ClocksStep
<1>4. Spec => [](Inv /\ Clocks)
  BY InvInit, <1>1, <1>3, PTL DEF Spec
<1> QED BY <1>2, <1>4, PTL

-----------------------------------------------------------------------------
(* The drawing.                                                            *)

\* What was last drawn is what the view would draw now, unless it says that a
\* frame is wanted.
Fresh(v) ==
  v.track # None /\ ~v.drawDirty =>
    v.drawn = [of |-> v.track.of, points |-> v.track.points, now |-> v.trackClock.now]

\* A session the map knows of, unless a seek is about to announce another one,
\* is about the vessel whose points the map holds.
Mirrored(v) ==
  v.track # None /\ track.session # None /\ sought.track = None => v.track.of = track.session.of

Drawing == Fresh(view) /\ Mirrored(view)

\* The effects ask for a frame whenever what is to be drawn changes.
LEMMA EffectsFresh ==
  ASSUME Settled, NEW v, IsView(v), Fresh(v), Mirrored(v)
  PROVE  /\ Fresh(Effects(v))
         /\ Effects(v).track # None => track.session # None /\ Effects(v).track.of = sel
<1>1. /\ Effects(v).track = TrackControl /\ Effects(v).drawDirty = DrawDirty(v)
      /\ Effects(v).trackClock = Reclock(v.trackClock, v.track, TrackControl, sought.track)
      /\ Effects(v).drawn = IF TrackControl = None THEN None ELSE v.drawn
  BY DEF Effects, IsView
<1>2. TrackControl # None => /\ track.session # None /\ sel # None /\ TrackControl.of = sel
  BY DEF TrackControl
<1>3. ASSUME TrackControl # None, ~DrawDirty(v)
      PROVE  /\ v.track # None /\ sought.track = None /\ ~v.drawDirty
             /\ v.track.points = TrackControl.points
  BY <1>3 DEF DrawDirty, Restarted
<1>4. ASSUME TrackControl # None, ~DrawDirty(v)
      PROVE  Reclock(v.trackClock, v.track, TrackControl, sought.track) = v.trackClock
  BY <1>3, <1>4 DEF Reclock
<1>5. ASSUME TrackControl # None, ~DrawDirty(v) PROVE v.track.of = TrackControl.of
  BY <1>2, <1>3, <1>5 DEF Mirrored, Settled, Key
<1>6. Fresh(Effects(v))
  BY <1>1, <1>3, <1>4, <1>5 DEF Fresh
<1> QED BY <1>1, <1>2, <1>6

\* A step whose render follows the effects of the one before: a session that
\* is not the one the map knows of comes with a seek.
LEMMA DrawingStep ==
  ASSUME Inv, Drawing,
         NEW v, IsView(v), Fresh(v), v.track = view.track, view' = Effects(v),
         NEW t, IsTrack(t), RenderTrack(t),
         t.session = None \/ t.session = track.session \/ sought'.track # None
  PROVE  Drawing'
<1>1. Mirrored(v)
  BY DEF Drawing, Mirrored
<1>2. /\ Fresh(view')
      /\ view'.track # None => track.session # None /\ view'.track.of = sel
  BY <1>1, EffectsFresh DEF Inv
<1>3. track'.session = None \/ track'.session = t.session
  BY Renders
<1>4. track.session # None => track.session.of = sel
  BY DEF Inv, Settled, Key
<1>5. Mirrored(view)'
  BY <1>2, <1>3, <1>4 DEF Mirrored
<1> QED BY <1>2, <1>5 DEF Drawing, Fresh

LEMMA SameDrawing ==
  ASSUME Drawing, UNCHANGED <<view, track, sought>>
  PROVE  Drawing'
BY DEF Drawing, Fresh, Mirrored

LEMMA VisitorDrawing ==
  ASSUME Inv, Drawing, Visitor
  PROVE  Drawing'
<1>0. IsTrack(track) /\ IsView(view) /\ Fresh(view)
  BY DEF Inv, Shape, Drawing
<1>1. ASSUME NEW s, ClickSeeking(s), NEW t, IsTrack(t), RenderTrack(t),
             t.session = None \/ t.session = track.session
      PROVE  Drawing'
  BY <1>0, <1>1, DrawingStep DEF ClickSeeking, Flush
<1>2. CASE Click /\ RenderTrack(track)
  BY <1>0, <1>1, <1>2 DEF Click
<1>3. CASE TrackOpens
  <2> DEFINE t == [track EXCEPT !.loading = TRUE]
  <2>1. IsTrack(t) /\ t.session = track.session
    BY <1>0 DEF IsTrack
  <2>2. Click /\ RenderTrack(t)
    BY <1>3 DEF TrackOpens, TrackEnter
  <2> HIDE DEF t
  <2> QED BY <1>1, <2>1, <2>2 DEF Click
<1>4. CASE TrackExit
  <2> DEFINE t == StandDown(track)
  <2>1. IsTrack(t) /\ t.session = None
    BY <1>0 DEF StandDown, IsTrack
  <2>2. Click /\ RenderTrack(t)
    BY <1>4 DEF TrackExit
  <2> HIDE DEF t
  <2> QED BY <1>1, <2>1, <2>2 DEF Click
<1>5. CASE TrackTogglePlay
  <2> DEFINE t == Toggled(track, track.session.to)
  <2>1. IsTrack(t) /\ t.session = track.session
    BY <1>0 DEF Toggled, IsTrack
  <2>2. (\E s : ClickSeeking(s)) /\ RenderTrack(t)
    BY <1>5 DEF TrackTogglePlay
  <2> HIDE DEF t
  <2> QED BY <1>1, <2>1, <2>2
<1>6. CASE TrackRestart
  <2> DEFINE t == [track EXCEPT !.head = 0, !.playing = TRUE, !.pose = None]
  <2>1. IsTrack(t) /\ t.session = track.session
    BY <1>0 DEF IsTrack
  <2>2. (\E s : ClickSeeking(s)) /\ RenderTrack(t)
    BY <1>6 DEF TrackRestart
  <2> HIDE DEF t
  <2> QED BY <1>1, <2>1, <2>2
<1>7. ASSUME NEW ts \in Moment, TrackSeek(ts) PROVE Drawing'
  <2> DEFINE t == [track EXCEPT !.head = ts]
  <2>1. IsTrack(t) /\ t.session = track.session
    BY <1>0 DEF IsTrack
  <2>2. (\E s : ClickSeeking(s)) /\ RenderTrack(t)
    BY <1>7 DEF TrackSeek
  <2> HIDE DEF t
  <2> QED BY <1>1, <2>1, <2>2
<1>8. CASE (\E s : ClickSeeking(s)) /\ RenderTrack(track)
  BY <1>0, <1>1, <1>8
<1>9. ASSUME NEW ts \in Moment, FleetSeek(ts) PROVE Drawing'
  <2>1. (\E s : ClickSeeking(s)) /\ RenderTrack(track)
    BY <1>9 DEF FleetSeek
  <2> QED BY <1>8, <2>1
<1>10. CASE FleetTogglePlay
  <2>1. (\E s : ClickSeeking(s)) /\ RenderTrack(track)
    BY <1>10 DEF FleetTogglePlay
  <2> QED BY <1>8, <2>1
<1>11. ASSUME \/ \E v \in Vessels \cup {None} : SelectVessel(v)
              \/ ToggleTrail
              \/ \E w \in Windows : SetTrailWindow(w)
              \/ FleetEnter \/ FleetSetWindow \/ FleetExit
       PROVE  Click /\ RenderTrack(track)
  BY <1>11 DEF SelectVessel, ToggleTrail, SetTrailWindow, FleetEnter, FleetSetWindow, FleetExit
<1> QED BY <1>2, <1>3, <1>4, <1>5, <1>6, <1>7, <1>9, <1>10, <1>11 DEF Visitor

\* A session that an answer opens is announced to the map with a seek.
LEMMA NetworkDrawing ==
  ASSUME Inv, Drawing, Network
  PROVE  Drawing'
<1>0. IsTrack(track) /\ IsView(view) /\ Fresh(view) /\ 0 # None
  BY ReplayAssumption DEF Inv, Shape, Drawing
<1>1. ASSUME NEW s, AnswerSeeking(s), RenderTrack(track) PROVE Drawing'
  BY <1>0, <1>1, DrawingStep DEF AnswerSeeking, Flush
<1>2. ASSUME NEW t \in Moment, TrailAnswers(t) PROVE Drawing'
  BY <1>1, <1>2 DEF TrailAnswers
<1>3. ASSUME NEW r \in trackReqs, TrackAnswers(r) PROVE Drawing'
  <2>1. CASE r.tag = "current" /\ view.keyRef = r.key
    <3> DEFINE s == [NoSeek EXCEPT !.track = 0]
               t == [track EXCEPT !.session = [to |-> r.to, of |-> r.key[1], win |-> r.key[2]],
                                  !.loading = FALSE, !.playing = TRUE, !.head = 0, !.pose = None]
    <3>1. AnswerSeeking(s) /\ RenderTrack(t)
      BY <1>3, <2>1 DEF TrackAnswers
    <3>2. IsTrack(t) /\ s.track # None
      BY <1>0 DEF IsTrack, NoSeek
    <3> HIDE DEF t, s
    <3> QED BY <1>0, <3>1, <3>2, DrawingStep DEF AnswerSeeking, Flush
  <2>2. CASE UNCHANGED <<track, view, sought, due>>
    BY <2>2, SameDrawing
  <2> QED BY <1>3, <2>1, <2>2 DEF TrackAnswers
<1>4. ASSUME NEW r \in fleetReqs, FleetFails(r) PROVE Drawing'
  <2>1. (\E s : AnswerSeeking(s) /\ RenderTrack(track)) \/ UNCHANGED <<view, track, sought>>
    BY <1>4 DEF FleetFails
  <2> QED BY <1>1, <2>1, SameDrawing
<1>5. ASSUME NEW r \in fleetReqs, NEW to \in Moment \ {0}, FleetAnswers(r, to) PROVE Drawing'
  <2>1. (\E s : AnswerSeeking(s) /\ RenderTrack(track)) \/ UNCHANGED <<view, track, sought>>
    BY <1>5 DEF FleetAnswers
  <2> QED BY <1>1, <2>1, SameDrawing
<1> QED BY <1>2, <1>3, <1>4, <1>5 DEF Network

\* A frame draws what its clock has come to, or leaves the mark that asks for a
\* frame as it finds it.
LEMMA FrameDrawing ==
  ASSUME Inv, Drawing, NEW n \in Moment, NEW report \in BOOLEAN, NEW draw \in BOOLEAN,
         NEW pose, FleetFrame(n, report, pose) \/ TrackFrame(n, report, pose, draw)
  PROVE  Drawing'
<1>0. IsTrack(track) /\ IsView(view) /\ Fresh(view) /\ Mirrored(view)
  BY DEF Inv, Shape, Drawing
<1>1. ASSUME NEW v, IsView(v), Fresh(v), v.track = view.track, view' = v,
             UNCHANGED <<track, sought>>
      PROVE  Drawing'
  BY <1>0, <1>1 DEF Drawing, Mirrored, Fresh
<1>2. CASE FleetFrame(n, report, pose)
  <2> DEFINE d == Moved(view.fleetClock, view.fleet, n)
             v == [view EXCEPT !.fleetClock = d]
  <2>1. /\ IsView(v) /\ v.track = view.track /\ v.drawDirty = view.drawDirty
        /\ v.drawn = view.drawn /\ v.trackClock = view.trackClock
    BY <1>0 DEF IsView
  <2>2. \/ view' = v /\ UNCHANGED <<track, sought>>
        \/ view' = Effects(v) /\ RenderTrack(track)
    BY <1>2 DEF FleetFrame
  <2> HIDE DEF v, d
  <2>3. Fresh(v)
    BY <1>0, <2>1 DEF Fresh
  <2> QED BY <1>0, <1>1, <2>1, <2>2, <2>3, DrawingStep
<1>3. CASE TrackFrame(n, report, pose, draw)
  <2> DEFINE d == Moved(view.trackClock, view.track, n)
             dirty == d.now # view.trackClock.now
             now == [of |-> view.track.of, points |-> view.track.points, now |-> d.now]
             v == [view EXCEPT !.trackClock = d,
                               !.poseDirty = (@ \/ dirty) /\ ~report,
                               !.drawDirty = (@ \/ dirty) /\ ~draw,
                               !.drawn = IF draw /\ (view.drawDirty \/ dirty) THEN now ELSE @]
             t == [Progressed(track, view.trackClock, d, view.track, report)
                     EXCEPT !.pose = IF report THEN pose ELSE @]
  <2>1. /\ IsView(v) /\ v.track = view.track /\ v.trackClock = d
        /\ v.drawDirty = ((view.drawDirty \/ dirty) /\ ~draw)
        /\ v.drawn = IF draw /\ (view.drawDirty \/ dirty) THEN now ELSE view.drawn
    BY <1>0 DEF IsView
  <2>2. IsTrack(t) /\ t.session = track.session
    BY <1>0 DEF IsTrack, Progressed
  <2>3. \/ view' = v /\ UNCHANGED <<track, sought>>
        \/ view' = Effects(v) /\ RenderTrack(t)
    BY <1>3 DEF TrackFrame
  <2> HIDE DEF v, d, t
  <2>4. Fresh(v)
    BY <1>0, <2>1 DEF Fresh
  <2> QED BY <1>0, <1>1, <2>1, <2>2, <2>3, <2>4, DrawingStep
<1> QED BY <1>2, <1>3

LEMMA DrawingKept == Inv /\ Drawing /\ [Next]_vars => Drawing'
<1> SUFFICES ASSUME Inv, Drawing, [Next]_vars PROVE Drawing'
  OBVIOUS
<1>1. CASE RunEffects
  <2>1. view' = Effects(view) /\ UNCHANGED track /\ IsView(view) /\ Fresh(view) /\ Mirrored(view)
    BY <1>1 DEF RunEffects, Flush, state, Inv, Shape, Drawing
  <2>2. /\ Fresh(view')
        /\ view'.track # None => track.session # None /\ view'.track.of = sel
    BY <2>1, EffectsFresh DEF Inv
  <2>3. track.session # None => track.session.of = sel
    BY DEF Inv, Settled, Key
  <2> QED BY <2>1, <2>2, <2>3 DEF Drawing, Mirrored, Fresh
<1>2. CASE Visitor
  BY <1>2, VisitorDrawing
<1>3. CASE Network
  BY <1>3, NetworkDrawing
<1>4. CASE Frame
  BY <1>4, FrameDrawing DEF Frame
<1>5. CASE UNCHANGED vars
  BY <1>5, SameDrawing DEF vars, state
<1> QED BY <1>1, <1>2, <1>3, <1>4, <1>5 DEF Next

\* The frame loop stops drawing a paused track, and what it last drew is then what
\* it would draw now: the points and the clock of the vessel that is replayed.
THEOREM OverlayFreshHolds == Spec => []OverlayFresh
<1>1. Init => Drawing
  BY DEF Init, ViewInit, Drawing, Fresh, Mirrored
<1>2. Spec => [](Inv /\ Drawing)
  BY InvInit, InvStep, <1>1, DrawingKept, PTL DEF Spec
<1>3. Drawing => OverlayFresh
  BY DEF Drawing, Fresh, OverlayFresh
<1> QED BY <1>2, <1>3, PTL

-----------------------------------------------------------------------------
(* Types.                                                                  *)

SelTypes ==
  /\ sel \in Vessels \cup {None} /\ showTrail \in BOOLEAN /\ win \in Windows
  /\ trail \in [of : Vessels \cup {None}, to : Moment]

TrackTypes(t) ==
  /\ t.session \in {None} \cup [to : Moment \ {0}, of : Vessels, win : Windows]
  /\ t.loading \in BOOLEAN /\ t.playing \in BOOLEAN /\ t.head \in Moment
  /\ t.pose \in Vessels \cup {None}

FleetTypes(f) ==
  /\ f.active \in BOOLEAN /\ f.loading \in BOOLEAN /\ f.error \in BOOLEAN
  /\ f.playing \in BOOLEAN /\ f.to \in Moment /\ f.head \in Moment
  /\ f.pose \in Vessels \cup {None}

\* A fetch for a track was made for a vessel with points.
ReqTypes ==
  /\ fleetReqs \subseteq {"current", "stale"}
  /\ \A r \in trackReqs : /\ r.to \in Moment \ {0}
                          /\ r.key[1] \in Vessels /\ r.key[2] \in Windows

SeekTypes(s) == s.fleet \in {None} \cup Moment /\ s.track \in {None} \cup Moment

\* What the frames and the poll of the trail read of the view.
ViewTypes(v) ==
  /\ v.fleetClock \in Clock /\ v.trackClock \in Clock
  /\ v.deps[1] \in Vessels \cup {None}
  /\ v.fleet # None => v.fleet.to \in Moment
  /\ v.track # None => v.track.to \in Moment

Types ==
  /\ SelTypes /\ TrackTypes(track) /\ FleetTypes(fleet) /\ ReqTypes
  /\ SeekTypes(sought) /\ ViewTypes(view) /\ due \in {"no", "passive", "sync"}

LEMMA ZeroIsMoment == 0 \in Moment /\ Moment \subseteq Int /\ None \notin Moment
BY ReplayAssumption DEF Moment

LEMMA EffectsTypes ==
  ASSUME Types, NEW v, IsView(v), ViewTypes(v)
  PROVE  ViewTypes(Effects(v))
<1>1. /\ Effects(v).fleet = FleetControl /\ Effects(v).track = TrackControl
      /\ Effects(v).deps = <<sel, showTrail, win>>
      /\ Effects(v).fleetClock = Reclock(v.fleetClock, v.fleet, FleetControl, sought.fleet)
      /\ Effects(v).trackClock = Reclock(v.trackClock, v.track, TrackControl, sought.track)
  BY DEF Effects, IsView
<1>2. ASSUME NEW c \in Clock, NEW old, NEW new, NEW ts \in {None} \cup Moment
      PROVE  Reclock(c, old, new, ts) \in Clock
  BY ZeroIsMoment DEF Reclock, Clock
<1>3. Effects(v).fleetClock \in Clock /\ Effects(v).trackClock \in Clock
  BY <1>1, <1>2 DEF Types, SeekTypes, ViewTypes
<1>4. FleetControl # None => FleetControl.to \in Moment
  BY DEF FleetControl, Types, FleetTypes
<1>5. TrackControl # None => TrackControl.to \in Moment
  BY DEF TrackControl, Types, TrackTypes
<1> QED BY <1>1, <1>3, <1>4, <1>5 DEF ViewTypes, Types, SelTypes

\* A step whose render follows the effects of the one before.
LEMMA TypesStep ==
  ASSUME Types, NEW v, IsView(v), ViewTypes(v), view' = Effects(v),
         SelTypes', FleetTypes(fleet'), ReqTypes', SeekTypes(sought'),
         due' \in {"no", "passive", "sync"},
         NEW t, IsTrack(t), TrackTypes(t), RenderTrack(t)
  PROVE  Types'
<1>1. ViewTypes(view')
  BY EffectsTypes
<1>2. TrackTypes(track')
  BY ZeroIsMoment DEF RenderTrack, StandDown, IsTrack, TrackTypes
<1> QED BY <1>1, <1>2 DEF Types, ViewTypes, TrackTypes, FleetTypes, SeekTypes, Clock, Moment

\* A click or an answer.
LEMMA CallTypes ==
  ASSUME Inv, Types, NEW s, ClickSeeking(s) \/ AnswerSeeking(s), SeekTypes(s),
         SelTypes', FleetTypes(fleet'), ReqTypes',
         NEW t, IsTrack(t), TrackTypes(t), RenderTrack(t)
  PROVE  Types'
<1>1. /\ view' = Effects(view) /\ sought' = s /\ due' \in {"no", "passive", "sync"}
      /\ IsView(view) /\ ViewTypes(view)
  BY DEF ClickSeeking, AnswerSeeking, Flush, Inv, Shape, Types
<1> QED BY <1>1, TypesStep

LEMMA NoSeekTypes ==
  /\ SeekTypes(NoSeek)
  /\ \A ts \in {None} \cup Moment : /\ SeekTypes([NoSeek EXCEPT !.fleet = ts])
                                    /\ SeekTypes([NoSeek EXCEPT !.track = ts])
BY DEF SeekTypes, NoSeek

\* What is toggled stays of its type.
LEMMA ToggledTypes ==
  ASSUME NEW to
  PROVE  /\ IsTrack(track) /\ TrackTypes(track) =>
              IsTrack(Toggled(track, to)) /\ TrackTypes(Toggled(track, to))
         /\ IsFleet(fleet) /\ FleetTypes(fleet) => FleetTypes(Toggled(fleet, to))
<1> USE ZeroIsMoment
<1>1. ASSUME IsTrack(track), TrackTypes(track)
      PROVE  IsTrack(Toggled(track, to)) /\ TrackTypes(Toggled(track, to))
  BY <1>1 DEF Toggled, IsTrack, TrackTypes
<1>2. ASSUME IsFleet(fleet), FleetTypes(fleet) PROVE FleetTypes(Toggled(fleet, to))
  BY <1>2 DEF Toggled, IsFleet, FleetTypes
<1> QED BY <1>1, <1>2

LEMMA TransportTypes ==
  ASSUME Inv, Types,
         TrackTogglePlay \/ TrackRestart \/ (\E ts \in Moment : TrackSeek(ts) \/ FleetSeek(ts))
         \/ FleetTogglePlay
  PROVE  Types'
<1>0. /\ IsTrack(track) /\ IsFleet(fleet) /\ TrackTypes(track) /\ FleetTypes(fleet)
      /\ 0 \in Moment
  BY ZeroIsMoment DEF Inv, Shape, Types
<1>1. ASSUME UNCHANGED <<sel, showTrail, win, trail, fleetReqs, trackReqs>>
      PROVE  SelTypes' /\ ReqTypes'
  BY <1>1 DEF Types, SelTypes, ReqTypes, Moment
<1>2. CASE TrackTogglePlay
  <2> DEFINE ts == IF StartsOver(track, track.session.to) THEN 0 ELSE None
             t == Toggled(track, track.session.to)
             s == [NoSeek EXCEPT !.track = ts]
  <2>1. ts \in {None} \cup Moment
    BY <1>0
  <2>2. SeekTypes(s) /\ IsTrack(t) /\ TrackTypes(t)
    BY <1>0, <2>1, NoSeekTypes, ToggledTypes
  <2>3. /\ ClickSeeking(s) /\ RenderTrack(t) /\ FleetTypes(fleet')
        /\ UNCHANGED <<sel, showTrail, win, trail, fleetReqs, trackReqs>>
    BY <1>0, <1>2 DEF TrackTogglePlay
  <2> HIDE DEF s, t
  <2> QED BY <1>1, <2>2, <2>3, CallTypes
<1>3. CASE TrackRestart
  <2> DEFINE t == [track EXCEPT !.head = 0, !.playing = TRUE, !.pose = None]
             s == [NoSeek EXCEPT !.track = 0]
  <2>1. SeekTypes(s)
    BY <1>0, NoSeekTypes
  <2>2. IsTrack(t) /\ TrackTypes(t)
    BY <1>0 DEF IsTrack, TrackTypes
  <2>3. /\ ClickSeeking(s) /\ RenderTrack(t) /\ FleetTypes(fleet')
        /\ UNCHANGED <<sel, showTrail, win, trail, fleetReqs, trackReqs>>
    BY <1>0, <1>3 DEF TrackRestart
  <2> HIDE DEF s, t
  <2> QED BY <1>1, <2>1, <2>2, <2>3, CallTypes
<1>4. ASSUME NEW ts \in Moment, TrackSeek(ts) PROVE Types'
  <2> DEFINE t == [track EXCEPT !.head = ts]
             s == [NoSeek EXCEPT !.track = ts]
  <2>1. SeekTypes(s)
    BY NoSeekTypes
  <2>2. IsTrack(t) /\ TrackTypes(t)
    BY <1>0 DEF IsTrack, TrackTypes
  <2>3. /\ ClickSeeking(s) /\ RenderTrack(t) /\ FleetTypes(fleet')
        /\ UNCHANGED <<sel, showTrail, win, trail, fleetReqs, trackReqs>>
    BY <1>0, <1>4 DEF TrackSeek
  <2> HIDE DEF s, t
  <2> QED BY <1>1, <2>1, <2>2, <2>3, CallTypes
<1>5. ASSUME NEW ts \in Moment, FleetSeek(ts) PROVE Types'
  <2> DEFINE s == [NoSeek EXCEPT !.fleet = ts]
  <2>1. SeekTypes(s)
    BY NoSeekTypes
  <2>2. FleetTypes(fleet')
    BY <1>0, <1>5 DEF FleetSeek, IsFleet, FleetTypes
  <2>3. /\ ClickSeeking(s) /\ RenderTrack(track)
        /\ UNCHANGED <<sel, showTrail, win, trail, fleetReqs, trackReqs>>
    BY <1>5 DEF FleetSeek
  <2> HIDE DEF s
  <2> QED BY <1>0, <1>1, <2>1, <2>2, <2>3, CallTypes
<1>6. CASE FleetTogglePlay
  <2> DEFINE ts == IF StartsOver(fleet, fleet.to) THEN 0 ELSE None
             s == [NoSeek EXCEPT !.fleet = ts]
  <2>1. ts \in {None} \cup Moment
    BY <1>0
  <2>2. SeekTypes(s) /\ FleetTypes(Toggled(fleet, fleet.to))
    BY <1>0, <2>1, NoSeekTypes, ToggledTypes
  <2>3. /\ ClickSeeking(s) /\ RenderTrack(track) /\ fleet' = Toggled(fleet, fleet.to)
        /\ UNCHANGED <<sel, showTrail, win, trail, fleetReqs, trackReqs>>
    BY <1>6 DEF FleetTogglePlay
  <2>4. FleetTypes(fleet')
    BY <2>2, <2>3
  <2> HIDE DEF s
  <2> QED BY <1>0, <1>1, <2>2, <2>3, <2>4, CallTypes
<1> QED BY <1>2, <1>3, <1>4, <1>5, <1>6

LEMMA ClickTypes ==
  ASSUME Inv, Types,
         (\E v \in Vessels \cup {None} : SelectVessel(v)) \/ ToggleTrail
         \/ (\E w \in Windows : SetTrailWindow(w))
         \/ TrackOpens \/ TrackExit \/ FleetEnter \/ FleetSetWindow \/ FleetExit
  PROVE  Types'
<1>0. /\ IsTrack(track) /\ IsFleet(fleet) /\ TrackTypes(track) /\ FleetTypes(fleet)
      /\ SelTypes /\ ReqTypes /\ 0 \in Moment
  BY ZeroIsMoment DEF Inv, Shape, Types
<1>1. ASSUME Click, SelTypes', FleetTypes(fleet'), ReqTypes',
             NEW t, IsTrack(t), TrackTypes(t), RenderTrack(t)
      PROVE  Types'
  BY <1>1, NoSeekTypes, CallTypes DEF Click
<1>2. CASE (\E v \in Vessels \cup {None} : SelectVessel(v)) \/ ToggleTrail
           \/ (\E w \in Windows : SetTrailWindow(w))
  <2>1. Click /\ RenderTrack(track) /\ UNCHANGED <<trail, fleet, fleetReqs, trackReqs>>
    BY <1>2 DEF SelectVessel, ToggleTrail, SetTrailWindow
  <2>2. sel' \in Vessels \cup {None} /\ showTrail' \in BOOLEAN /\ win' \in Windows
    BY <1>0, <1>2 DEF SelectVessel, ToggleTrail, SetTrailWindow, SelTypes
  <2>3. SelTypes' /\ ReqTypes' /\ FleetTypes(fleet')
    BY <1>0, <2>1, <2>2 DEF SelTypes, ReqTypes, Moment
  <2> QED BY <1>0, <1>1, <2>1, <2>3
<1>3. CASE TrackOpens
  <2> DEFINE t == [track EXCEPT !.loading = TRUE]
             new == [tag |-> "current", key |-> Key, to |-> Points]
  <2>1. /\ Click /\ RenderTrack(t) /\ Available
        /\ trackReqs' = Stale(trackReqs) \cup {new}
        /\ UNCHANGED <<sel, showTrail, win, trail, fleet, fleetReqs>>
    BY <1>3 DEF TrackOpens, TrackEnter
  <2>2. IsTrack(t) /\ TrackTypes(t)
    BY <1>0 DEF IsTrack, TrackTypes
  <2>3. Points \in Moment \ {0} /\ sel \in Vessels /\ win \in Windows
    BY <1>0, <2>1, ZeroIsMoment DEF Available, Points, SelTypes
  <2>4. new.to \in Moment \ {0} /\ new.key[1] \in Vessels /\ new.key[2] \in Windows
    BY <2>3 DEF Key
  <2>5. \A r \in Stale(trackReqs) : /\ r.to \in Moment \ {0}
                                    /\ r.key[1] \in Vessels /\ r.key[2] \in Windows
    BY <1>0 DEF Stale, ReqTypes, Inv, Shape, IsRequest
  <2> HIDE DEF t, new
  <2>6. SelTypes' /\ ReqTypes' /\ FleetTypes(fleet')
    BY <1>0, <2>1, <2>4, <2>5 DEF SelTypes, ReqTypes, Moment
  <2> QED BY <1>1, <2>1, <2>2, <2>6
<1>4. CASE TrackExit
  <2> DEFINE t == StandDown(track)
  <2>1. /\ Click /\ RenderTrack(t) /\ trackReqs' = Stale(trackReqs)
        /\ UNCHANGED <<sel, showTrail, win, trail, fleet, fleetReqs>>
    BY <1>4 DEF TrackExit
  <2>2. IsTrack(t) /\ TrackTypes(t)
    BY <1>0 DEF StandDown, IsTrack, TrackTypes
  <2>3. \A r \in Stale(trackReqs) : /\ r.to \in Moment \ {0}
                                    /\ r.key[1] \in Vessels /\ r.key[2] \in Windows
    BY <1>0 DEF Stale, ReqTypes, Inv, Shape, IsRequest
  <2> HIDE DEF t
  <2>4. SelTypes' /\ ReqTypes' /\ FleetTypes(fleet')
    BY <1>0, <2>1, <2>3 DEF SelTypes, ReqTypes, Moment
  <2> QED BY <1>1, <2>1, <2>2, <2>4
<1>5. CASE FleetEnter \/ FleetSetWindow
  <2>1. /\ Click /\ FleetLoad /\ RenderTrack(track) /\ sel' \in {sel, None}
        /\ UNCHANGED <<showTrail, win, trail, trackReqs>>
    BY <1>5 DEF FleetEnter, FleetSetWindow
  <2>2. FleetTypes(fleet')
    BY <1>0, <2>1 DEF FleetLoad, IsFleet, FleetTypes
  <2>3. fleetReqs' \subseteq {"current", "stale"}
    BY <2>1 DEF FleetLoad
  <2>4. SelTypes' /\ ReqTypes'
    BY <1>0, <2>1, <2>3 DEF SelTypes, ReqTypes, Moment
  <2> QED BY <1>0, <1>1, <2>1, <2>2, <2>4
<1>6. CASE FleetExit
  <2>1. /\ Click /\ RenderTrack(track) /\ fleetReqs' \subseteq {"stale"}
        /\ UNCHANGED <<sel, showTrail, win, trail, trackReqs>>
    BY <1>6 DEF FleetExit
  <2>2. FleetTypes(fleet')
    BY <1>0, <1>6 DEF FleetExit, IsFleet, FleetTypes
  <2>3. SelTypes' /\ ReqTypes'
    BY <1>0, <2>1 DEF SelTypes, ReqTypes, Moment
  <2> QED BY <1>0, <1>1, <2>1, <2>2, <2>3
<1> QED BY <1>2, <1>3, <1>4, <1>5, <1>6

\* An answer opens a track of the type that was asked for, or changes nothing but
\* what is under way.
LEMMA NetworkTypes ==
  ASSUME Inv, Types, Network
  PROVE  Types'
<1>0. /\ IsTrack(track) /\ IsFleet(fleet) /\ TrackTypes(track) /\ FleetTypes(fleet)
      /\ SelTypes /\ ReqTypes /\ ViewTypes(view) /\ 0 \in Moment
  BY ZeroIsMoment DEF Inv, Shape, Types
<1>1. ASSUME UNCHANGED <<sel, showTrail, win, trail>> PROVE SelTypes'
  BY <1>0, <1>1 DEF SelTypes, Moment
<1>2. ASSUME fleetReqs' \subseteq fleetReqs, trackReqs' \subseteq trackReqs PROVE ReqTypes'
  BY <1>0, <1>2 DEF ReqTypes, Moment
<1>3. ASSUME SelTypes', ReqTypes', UNCHANGED <<fleet, track, view, sought, due>>
      PROVE  Types'
  BY <1>3 DEF Types, TrackTypes, FleetTypes, SeekTypes, ViewTypes, Clock, Moment
<1>4. ASSUME NEW t \in Moment, TrailAnswers(t) PROVE Types'
  <2>1. /\ AnswerSeeking(NoSeek) /\ RenderTrack(track) /\ trail' = [of |-> view.deps[1], to |-> t]
        /\ UNCHANGED <<sel, showTrail, win, fleet, fleetReqs, trackReqs>>
    BY <1>4 DEF TrailAnswers
  <2>2. SelTypes'
    BY <1>0, <2>1 DEF SelTypes, ViewTypes, Moment
  <2>3. ReqTypes' /\ FleetTypes(fleet')
    BY <1>0, <1>2, <2>1
  <2> QED BY <1>0, <2>1, <2>2, <2>3, NoSeekTypes, CallTypes
<1>5. ASSUME NEW r \in trackReqs, TrackAnswers(r) PROVE Types'
  <2>1. /\ trackReqs' = trackReqs \ {r}
        /\ UNCHANGED <<sel, showTrail, win, trail, fleet, fleetReqs>>
    BY <1>5 DEF TrackAnswers
  <2>2. SelTypes' /\ ReqTypes' /\ FleetTypes(fleet')
    BY <1>0, <1>1, <1>2, <2>1
  <2>3. CASE r.tag = "current" /\ view.keyRef = r.key
    <3> DEFINE s == [NoSeek EXCEPT !.track = 0]
               u == [to |-> r.to, of |-> r.key[1], win |-> r.key[2]]
               t == [track EXCEPT !.session = u, !.loading = FALSE, !.playing = TRUE, !.head = 0,
                                  !.pose = None]
    <3>1. AnswerSeeking(s) /\ RenderTrack(t)
      BY <1>5, <2>3 DEF TrackAnswers
    <3>2. SeekTypes(s)
      BY <1>0, NoSeekTypes
    <3>3. u \in [to : Moment \ {0}, of : Vessels, win : Windows]
      BY <1>0 DEF ReqTypes
    <3> HIDE DEF u
    <3>4. IsTrack(t) /\ TrackTypes(t)
      BY <1>0, <3>3 DEF IsTrack, TrackTypes
    <3> HIDE DEF s, t
    <3> QED BY <2>2, <3>1, <3>2, <3>4, CallTypes
  <2>4. CASE UNCHANGED <<track, view, sought, due>>
    BY <1>3, <2>1, <2>2, <2>4
  <2> QED BY <1>5, <2>3, <2>4 DEF TrackAnswers
<1>6. ASSUME NEW r \in fleetReqs, FleetFails(r) PROVE Types'
  <2>1. fleetReqs' = fleetReqs \ {r} /\ UNCHANGED <<sel, showTrail, win, trail, trackReqs>>
    BY <1>6 DEF FleetFails
  <2>2. SelTypes' /\ ReqTypes'
    BY <1>1, <1>2, <2>1
  <2>3. CASE r = "current"
    <3>1. /\ AnswerSeeking(NoSeek) /\ RenderTrack(track)
          /\ fleet' = [fleet EXCEPT !.error = TRUE, !.loading = FALSE]
      BY <1>6, <2>3 DEF FleetFails
    <3>2. FleetTypes(fleet')
      BY <1>0, <3>1 DEF IsFleet, FleetTypes
    <3> QED BY <1>0, <2>2, <3>1, <3>2, NoSeekTypes, CallTypes
  <2>4. CASE UNCHANGED <<fleet, track, view, sought, due>>
    BY <1>3, <2>2, <2>4
  <2> QED BY <1>6, <2>3, <2>4 DEF FleetFails
<1>7. ASSUME NEW r \in fleetReqs, NEW to \in Moment \ {0}, FleetAnswers(r, to) PROVE Types'
  <2>1. fleetReqs' = fleetReqs \ {r} /\ UNCHANGED <<sel, showTrail, win, trail, trackReqs>>
    BY <1>7 DEF FleetAnswers
  <2>2. SelTypes' /\ ReqTypes'
    BY <1>1, <1>2, <2>1
  <2>3. CASE r = "current"
    <3> DEFINE s == [NoSeek EXCEPT !.fleet = 0]
    <3>1. /\ AnswerSeeking(s) /\ RenderTrack(track)
          /\ fleet' = [fleet EXCEPT !.active = TRUE, !.loading = FALSE, !.playing = TRUE,
                                    !.to = to, !.head = 0, !.pose = None]
      BY <1>7, <2>3 DEF FleetAnswers
    <3>2. SeekTypes(s)
      BY <1>0, NoSeekTypes
    <3>3. FleetTypes(fleet')
      BY <1>0, <3>1 DEF IsFleet, FleetTypes
    <3> HIDE DEF s
    <3> QED BY <1>0, <2>2, <3>1, <3>2, <3>3, CallTypes
  <2>4. CASE UNCHANGED <<fleet, track, view, sought, due>>
    BY <1>3, <2>2, <2>4
  <2> QED BY <1>7, <2>3, <2>4 DEF FleetAnswers
<1> QED BY <1>4, <1>5, <1>6, <1>7 DEF Network

\* A clock stays within the recorded time, and the playhead it is reported to.
LEMMA MovedTypes ==
  ASSUME NEW c \in Clock, NEW control, control.to \in Moment, NEW n \in Moment
  PROVE  Moved(c, control, n) \in Clock
BY DEF Moved, Clock

LEMMA TrackProgressTypes ==
  ASSUME IsTrack(track), TrackTypes(track),
         NEW c, NEW d \in Clock, NEW control, NEW report, NEW pose \in Vessels \cup {None},
         NEW t, t = [Progressed(track, c, d, control, report)
                       EXCEPT !.pose = IF report THEN pose ELSE @]
  PROVE  IsTrack(t) /\ TrackTypes(t)
BY DEF Progressed, Clock, IsTrack, TrackTypes

LEMMA FleetProgressTypes ==
  ASSUME IsFleet(fleet), FleetTypes(fleet),
         NEW c, NEW d \in Clock, NEW control, NEW report, NEW pose \in Vessels \cup {None},
         NEW f, f = [Progressed(fleet, c, d, control, report)
                       EXCEPT !.pose = IF report THEN pose ELSE @]
  PROVE  FleetTypes(f)
BY DEF Progressed, Clock, IsFleet, FleetTypes

LEMMA FrameTypes ==
  ASSUME Inv, Types, NEW n \in Moment, NEW report \in BOOLEAN, NEW draw \in BOOLEAN,
         NEW pose \in Vessels \cup {None},
         FleetFrame(n, report, pose) \/ TrackFrame(n, report, pose, draw)
  PROVE  Types'
<1>0. /\ IsTrack(track) /\ IsFleet(fleet) /\ TrackTypes(track) /\ FleetTypes(fleet)
      /\ IsView(view) /\ ViewTypes(view) /\ SeekTypes(sought)
      /\ due \in {"no", "passive", "sync"}
  BY DEF Inv, Shape, Types
<1>1. UNCHANGED <<sel, showTrail, win, trail, fleetReqs, trackReqs>>
  BY DEF FleetFrame, TrackFrame
<1>2. SelTypes' /\ ReqTypes'
  BY <1>1 DEF Types, SelTypes, ReqTypes, Moment
<1>3. ASSUME NEW v, ViewTypes(v), view' = v, UNCHANGED <<due, sought, track, fleet>>
      PROVE  Types'
  BY <1>0, <1>2, <1>3 DEF Types, TrackTypes, FleetTypes, SeekTypes, ViewTypes, Clock, Moment
<1>4. ASSUME NEW v, IsView(v), ViewTypes(v), view' = Effects(v), due' = "passive",
             sought' = NoSeek, FleetTypes(fleet'),
             NEW t, IsTrack(t), TrackTypes(t), RenderTrack(t)
      PROVE  Types'
  BY <1>2, <1>4, NoSeekTypes, TypesStep
<1>5. CASE FleetFrame(n, report, pose)
  <2> DEFINE d == Moved(view.fleetClock, view.fleet, n)
             v == [view EXCEPT !.fleetClock = d]
  <2>1. /\ view.fleet # None
        /\ fleet' = [Progressed(fleet, view.fleetClock, d, view.fleet, report)
                       EXCEPT !.pose = IF report THEN pose ELSE @]
        /\ \/ fleet' = fleet /\ view' = v /\ UNCHANGED <<due, sought, track>>
           \/ view' = Effects(v) /\ due' = "passive" /\ sought' = NoSeek /\ RenderTrack(track)
    BY <1>5 DEF FleetFrame
  <2>2. d \in Clock
    BY <1>0, <2>1, MovedTypes DEF ViewTypes
  <2> HIDE DEF d
  <2>3. FleetTypes(fleet')
    BY <1>0, <2>1, <2>2, FleetProgressTypes
  <2>4. IsView(v) /\ ViewTypes(v)
    BY <1>0, <2>2 DEF IsView, ViewTypes
  <2> HIDE DEF v
  <2> QED BY <1>0, <1>3, <1>4, <2>1, <2>3, <2>4
<1>6. CASE TrackFrame(n, report, pose, draw)
  <2> DEFINE d == Moved(view.trackClock, view.track, n)
             dirty == d.now # view.trackClock.now
             now == [of |-> view.track.of, points |-> view.track.points, now |-> d.now]
             v == [view EXCEPT !.trackClock = d,
                               !.poseDirty = (@ \/ dirty) /\ ~report,
                               !.drawDirty = (@ \/ dirty) /\ ~draw,
                               !.drawn = IF draw /\ (view.drawDirty \/ dirty) THEN now ELSE @]
             t == [Progressed(track, view.trackClock, d, view.track, report)
                     EXCEPT !.pose = IF report THEN pose ELSE @]
  <2>1. /\ view.track # None /\ UNCHANGED fleet
        /\ \/ view' = v /\ UNCHANGED <<due, sought, track>>
           \/ view' = Effects(v) /\ due' = "passive" /\ sought' = NoSeek /\ RenderTrack(t)
    BY <1>6 DEF TrackFrame
  <2>2. d \in Clock
    BY <1>0, <2>1, MovedTypes DEF ViewTypes
  <2> HIDE DEF d, dirty, now
  <2>3. IsTrack(t) /\ TrackTypes(t)
    BY <1>0, <2>2, TrackProgressTypes
  <2>4. IsView(v) /\ ViewTypes(v)
    BY <1>0, <2>2 DEF IsView, ViewTypes
  <2> HIDE DEF v, t
  <2>5. FleetTypes(fleet')
    BY <1>0, <2>1
  <2> QED BY <1>3, <1>4, <2>1, <2>3, <2>4, <2>5
<1> QED BY <1>5, <1>6

LEMMA TypesInit == Init => Types
BY ZeroIsMoment, ReplayAssumption
   DEF Init, SelectionInit, FleetInit, TrackInit, ViewInit, Types, SelTypes, TrackTypes,
       FleetTypes, ReqTypes, SeekTypes, ViewTypes, Clock, Idle, NoSeek

LEMMA TypesKept == Inv /\ Types /\ [Next]_vars => Types'
<1> SUFFICES ASSUME Inv, Types, [Next]_vars PROVE Types'
  OBVIOUS
<1>1. CASE RunEffects
  <2>1. /\ view' = Effects(view) /\ sought' = NoSeek /\ due' = "no" /\ UNCHANGED state
        /\ IsView(view) /\ ViewTypes(view)
    BY <1>1 DEF RunEffects, Flush, Inv, Shape, Types
  <2>2. ViewTypes(view') /\ SeekTypes(sought')
    BY <2>1, EffectsTypes, NoSeekTypes
  <2> QED BY <2>1, <2>2 DEF Types, SelTypes, TrackTypes, FleetTypes, ReqTypes, SeekTypes,
                            ViewTypes, Clock, Moment, state
<1>2. CASE Visitor
  BY <1>2, ClickTypes, TransportTypes DEF Visitor
<1>3. CASE Network
  BY <1>3, NetworkTypes
<1>4. CASE Frame
  BY <1>4, FrameTypes DEF Frame
<1>5. CASE UNCHANGED vars
  BY <1>5 DEF Types, SelTypes, TrackTypes, FleetTypes, ReqTypes, SeekTypes, ViewTypes, Clock,
              Moment, vars, state
<1> QED BY <1>1, <1>2, <1>3, <1>4, <1>5 DEF Next

\* Every part of the two playbacks has its type; a session lasts, for it was opened
\* on points that end after they start, and no clock leaves the recorded time.
THEOREM ReplayTypeCorrect == Spec => []TypeOK
<1>1. Spec => [](Inv /\ Types)
  BY InvInit, InvStep, TypesInit, TypesKept, PTL DEF Spec
<1>2. Types => TypeOK
  BY DEF Types, SelTypes, TrackTypes, FleetTypes, ReqTypes, ViewTypes, TypeOK
<1> QED BY <1>1, <1>2, PTL
=============================================================================
