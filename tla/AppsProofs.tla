----------------------------- MODULE AppsProofs -----------------------------
(***************************************************************************)
(* What the shell and its four pages keep, for all sets of things that can *)
(* be selected.                                                            *)
(***************************************************************************)
EXTENDS Apps, FiniteSetTheorems, TLAPS

(* Each page in its own terms.  What it has rendered last is what is       *)
(* selected now; what its details show, or may still take from a fetch, is *)
(* about that.                                                             *)
RaideInv ==
  /\ sel \in [train : Raide!Trains \cup {None}, station : Stations \cup {None}]
  /\ sel.train = None \/ sel.station = None
  /\ lastKey = Raide!Key(sel)
  /\ panel \in ({"station"} \X Stations) \cup {None}
  /\ panel = None \/ panel = <<"station", sel.station>>
  /\ loads \subseteq [of : {"station"} \X Stations, live : BOOLEAN]
  /\ \A l \in loads : l.live => l.of = <<"station", sel.station>>
  /\ url \notin Vessels

\* Trails are not cancelled: their answers are compared with the selection.
IlmaInv ==
  /\ sel \in [aircraft : Aircraft \cup {None}, airport : Airports \cup {None}]
  /\ sel.aircraft = None \/ sel.airport = None
  /\ lastKey = Ilma!Key(sel)
  /\ panel \in ({"aircraft"} \X Aircraft) \cup {None}
  /\ panel = None \/ panel = <<"aircraft", sel.aircraft>>
  /\ loads \subseteq [of : {"aircraft"} \X Aircraft, live : BOOLEAN]
  /\ url \notin Vessels

TieInv ==
  /\ sel \in [selection : Places \cup {None}]
  /\ lastKey = Tie!Key(sel)
  /\ panel = None /\ loads = {}
  /\ url \notin Vessels

MeriSel ==
  [vessel : Vessels \cup {None}, port : Ports \cup {None}, webcam : Webcams \cup {None}]

MeriOne(s) ==
  \/ s.port = None /\ s.webcam = None
  \/ s.vessel = None /\ s.webcam = None
  \/ s.vessel = None /\ s.port = None

MeriFetchable == ({"vessel"} \X Vessels) \cup ({"port"} \X Ports)

Ship == [page : BOOLEAN, fleet : SUBSET Vessels, replay : BOOLEAN,
         pose : Vessels \cup {None}, link : Vessels \cup {None}]

\* A selected vessel that is not on display is rendered as no selection.
MeriInv ==
  /\ sel \in MeriSel /\ MeriOne(sel)
  /\ ship \in Ship
  /\ lastKey = Meri!Key(sel, ship)
  /\ panel \in MeriFetchable \cup {None}
  /\ panel = None \/ panel = lastKey
  /\ loads \subseteq [of : MeriFetchable, live : BOOLEAN]
  /\ \A l \in loads : l.live => l.of = lastKey
  /\ url = sel.vessel

Folds == [filter : BOOLEAN, detail : BOOLEAN]

Views == {"detail", "browse"}

(* The shell, and the page that is up. *)
AppInv ==
  /\ screen \in Screens /\ url \in Urls
  /\ view \in Views /\ browsed \in BOOLEAN
  /\ mode \in Modes \cup {None} /\ saved \in Modes \cup {None}
  /\ mode # None => folds \in Folds /\ saved = mode
  /\ mode = "raide" => RaideInv
  /\ mode = "ilma" => IlmaInv
  /\ mode = "tie" => TieInv
  /\ mode = "meri" => MeriInv

-----------------------------------------------------------------------------
(* Rendering.                                                              *)

\* A page renders with the sheet left where it is or turned to one side.
Render == \E v \in Views : Rendered(lastKey', v)

\* What every step of a page does to what the pages share.
PageStep ==
  /\ screen' \in Screens /\ folds' \in Folds
  /\ Render \/ UNCHANGED <<view, lastKey, browsed>>

LEMMA RenderTypes ==
  ASSUME view \in Views, browsed \in BOOLEAN, PageStep
  PROVE  view' \in Views /\ browsed' \in BOOLEAN
BY DEF PageStep, Render, Rendered, Views

\* Panes, as each page has it: a panel is folded or turned to, and nothing
\* else happens.
PanesStep == PageStep /\ UNCHANGED <<sel, lastKey, panel, loads, focus>>

LEMMA RaidePanes ==
  ASSUME screen \in Screens, folds \in Folds, view \in Views, Raide!Panes
  PROVE  PanesStep
BY DEF Raide!Panes, Raide!ToggleFilters, Raide!CloseFilters, Raide!BackToSelection,
       Raide!ShowBrowse, Raide!ToggleDetail, Raide!Rotate, Raide!Fold, Raide!Stay,
       Raide!Rendered, Raide!Screens, Screens, Folds, Views, PanesStep, PageStep, Render, Rendered

LEMMA IlmaPanes ==
  ASSUME screen \in Screens, folds \in Folds, view \in Views, Ilma!Panes
  PROVE  PanesStep
BY DEF Ilma!Panes, Ilma!ToggleFilters, Ilma!CloseFilters, Ilma!BackToSelection,
       Ilma!ShowBrowse, Ilma!ToggleDetail, Ilma!Rotate, Ilma!Fold, Ilma!Stay,
       Ilma!Rendered, Ilma!Screens, Screens, Folds, Views, PanesStep, PageStep, Render, Rendered

LEMMA TiePanes ==
  ASSUME screen \in Screens, folds \in Folds, view \in Views, Tie!Panes
  PROVE  PanesStep
BY DEF Tie!Panes, Tie!ToggleFilters, Tie!CloseFilters, Tie!BackToSelection,
       Tie!ShowBrowse, Tie!ToggleDetail, Tie!Rotate, Tie!Fold, Tie!Stay,
       Tie!Rendered, Tie!Screens, Screens, Folds, Views, PanesStep, PageStep, Render, Rendered

-----------------------------------------------------------------------------
(* The page of the trains.                                                 *)

\* A train found again in a later answer is the train that was selected.
LEMMA RaideRefound ==
  ASSUME NEW t \in Raide!Trains \cup {None}, NEW next \in SUBSET Raide!Trains
  PROVE  Raide!Refound(t, next, [x \in Raide!Trains |-> Raide!TrainKey(x)]) \in {t}
<1> DEFINE K == [x \in Raide!Trains |-> Raide!TrainKey(x)]
<1>1. ASSUME NEW x \in Raide!Trains, NEW y \in Raide!Trains, K[x] = K[y] PROVE x = y
  BY <1>1 DEF Raide!Trains, Raide!TrainKey
<1>2. CASE t # None /\ \E x \in next : K[x] = K[t]
  BY <1>1, <1>2 DEF Raide!Refound
<1> QED BY <1>2 DEF Raide!Refound

LEMMA RaideCancelled ==
  ASSUME RaideInv
  PROVE  /\ Raide!Cancelled \subseteq [of : {"station"} \X Stations, live : BOOLEAN]
         /\ \A l \in Raide!Cancelled : ~l.live
<1>1. ASSUME NEW l \in loads
      PROVE  /\ [l EXCEPT !.live = FALSE] \in [of : {"station"} \X Stations, live : BOOLEAN]
             /\ ~[l EXCEPT !.live = FALSE].live
  BY DEF RaideInv
<1> QED BY <1>1 DEF Raide!Cancelled

LEMMA RaideStep ==
  ASSUME screen \in Screens, folds \in Folds, view \in Views, RaideInv, Raide!Next, UNCHANGED url
  PROVE  PageStep /\ RaideInv'
<1> DEFINE Loads == [of : {"station"} \X Stations, live : BOOLEAN]
<1>c. Raide!Cancelled \subseteq Loads /\ \A l \in Raide!Cancelled : ~l.live
  BY RaideCancelled
<1>s. \A key : Raide!Rendered(key, view) => lastKey' = key /\ Render
  BY DEF Raide!Rendered, Render, Rendered
<1>f. Raide!RevealDetail => folds' \in Folds
  BY DEF Raide!RevealDetail, Raide!IsMobile, Folds
<1>1. CASE Raide!Panes
  BY <1>1, RaidePanes DEF PanesStep, RaideInv
<1>2. ASSUME NEW t \in Raide!Trains, Raide!SelectTrain(t) PROVE PageStep /\ RaideInv'
  <2>1. /\ sel' = [train |-> t, station |-> None] /\ panel' = None
        /\ loads' = Raide!Cancelled /\ screen' = screen
        /\ Raide!Rendered(Raide!Key(sel'), view) /\ Raide!RevealDetail
    BY <1>2 DEF Raide!SelectTrain, Raide!Selected, Raide!Nothing, Raide!Refetches
  <2> QED BY <1>c, <1>s, <1>f, <2>1 DEF PageStep, RaideInv
<1>3. ASSUME NEW s \in Stations, Raide!SelectStation(s) PROVE PageStep /\ RaideInv'
  <2>1. /\ sel' = [train |-> None, station |-> s] /\ panel' = None /\ screen' = screen
        /\ Raide!Rendered(Raide!Key(sel'), view) /\ Raide!RevealDetail
    BY <1>3 DEF Raide!SelectStation, Raide!Selected, Raide!Nothing
  <2> DEFINE r == [of |-> <<"station", s>>, live |-> TRUE]
  <2>2. loads' \subseteq Raide!Cancelled \cup {r} \/ (loads' = loads /\ s = sel.station)
    BY <1>3 DEF Raide!SelectStation, Raide!Refetches, Raide!Request
  <2>3. r \in Loads /\ r.of = <<"station", s>>
    OBVIOUS
  <2> HIDE DEF r, Loads
  <2>4. loads' \subseteq Loads /\ \A l \in loads' : l.live => l.of = <<"station", s>>
    BY <1>c, <2>2, <2>3 DEF RaideInv, Loads
  <2> QED BY <1>s, <1>f, <2>1, <2>4 DEF PageStep, RaideInv, Loads
<1>4. CASE Raide!ClearSelection
  <2>1. /\ sel' = [train |-> None, station |-> None] /\ panel' = None
        /\ loads' = Raide!Cancelled /\ UNCHANGED <<screen, folds>>
        /\ Raide!Rendered(Raide!Key(sel'), view)
    BY <1>4 DEF Raide!ClearSelection, Raide!Selected, Raide!Nothing, Raide!Refetches
  <2> QED BY <1>c, <1>s, <2>1 DEF PageStep, RaideInv
<1>5. ASSUME NEW next \in SUBSET Raide!Trains, Raide!OnTrainsUpdate(next)
      PROVE  PageStep /\ RaideInv'
  <2>1. /\ sel' = sel /\ UNCHANGED <<screen, folds, panel, loads>>
        /\ Raide!Rendered(Raide!Key(sel'), view)
    BY <1>5, RaideRefound DEF Raide!OnTrainsUpdate, RaideInv
  <2> QED BY <1>s, <2>1 DEF PageStep, RaideInv
<1>6. CASE Raide!RefreshBoard
  <2> DEFINE r == [of |-> <<"station", sel.station>>, live |-> TRUE]
  <2>1. /\ loads' = loads \cup {r} /\ sel.station # None
        /\ UNCHANGED <<screen, sel, folds, view, lastKey, browsed, panel>>
    BY <1>6 DEF Raide!RefreshBoard, Raide!Request
  <2>2. r \in Loads /\ r.of = <<"station", sel.station>>
    BY <2>1 DEF RaideInv
  <2> HIDE DEF r
  <2> QED BY <2>1, <2>2 DEF PageStep, RaideInv
<1>7. ASSUME NEW l \in loads, NEW ok \in BOOLEAN, Raide!BoardAnswers(l, ok)
      PROVE  PageStep /\ RaideInv'
  BY <1>7 DEF Raide!BoardAnswers, Raide!Answered, PageStep, RaideInv
<1> QED BY <1>1, <1>2, <1>3, <1>4, <1>5, <1>6, <1>7 DEF Raide!Next, Raide!Selects, Raide!Answers

-----------------------------------------------------------------------------
(* The page of the aircraft.                                               *)

IlmaSel == [aircraft : Aircraft \cup {None}, airport : Airports \cup {None}]

LEMMA IlmaFetch ==
  ASSUME loads \subseteq [of : {"aircraft"} \X Aircraft, live : BOOLEAN],
         NEW a \in Aircraft \cup {None}, Ilma!FetchTrail(a)
  PROVE  loads' \subseteq [of : {"aircraft"} \X Aircraft, live : BOOLEAN]
<1> DEFINE r == [of |-> <<"aircraft", a>>, live |-> TRUE]
<1>1. a # None => r \in [of : {"aircraft"} \X Aircraft, live : BOOLEAN]
  OBVIOUS
<1>2. loads' = loads \/ (a # None /\ loads' = loads \cup {r})
  BY DEF Ilma!FetchTrail, Ilma!Request
<1> QED BY <1>1, <1>2

\* A selection keeps the trail only of the aircraft it is about.
LEMMA IlmaSelected ==
  ASSUME IlmaInv, NEW s \in IlmaSel, s.aircraft = None \/ s.airport = None,
         Ilma!Selected(s), UNCHANGED url
  PROVE  IlmaInv' /\ screen' = screen /\ (view \in Views => Render)
<1>1. /\ sel' = s /\ screen' = screen
      /\ Ilma!Rendered(Ilma!Key(s), view)
      /\ \/ s.aircraft = sel.aircraft /\ UNCHANGED <<panel, loads>>
         \/ panel' = None /\ Ilma!FetchTrail(s.aircraft)
  BY DEF Ilma!Selected
<1>2. lastKey' = Ilma!Key(s) /\ (view \in Views => Render)
  BY <1>1 DEF Ilma!Rendered, Render, Rendered
<1>3. s.aircraft \in Aircraft \cup {None}
  BY DEF IlmaSel
<1>4. loads' \subseteq [of : {"aircraft"} \X Aircraft, live : BOOLEAN]
  BY <1>1, <1>3, IlmaFetch DEF IlmaInv
<1> QED BY <1>1, <1>2, <1>4 DEF IlmaInv, IlmaSel

LEMMA IlmaPicks ==
  ASSUME IlmaInv, Ilma!Selects
  PROVE  \E s \in IlmaSel : /\ s.aircraft = None \/ s.airport = None
                            /\ Ilma!Selected(s) /\ Ilma!RevealDetail
<1>1. ASSUME NEW a \in Aircraft, Ilma!SelectAircraft(a) \/ Ilma!SearchAircraft(a)
      PROVE  Ilma!Picked([aircraft |-> a, airport |-> None])
  BY <1>1 DEF Ilma!SelectAircraft, Ilma!SearchAircraft, Ilma!Nothing
<1>2. ASSUME NEW p \in Airports, Ilma!SelectAirport(p) \/ Ilma!SearchAirport(p)
      PROVE  Ilma!Picked([aircraft |-> None, airport |-> p])
  BY <1>2 DEF Ilma!SelectAirport, Ilma!SearchAirport, Ilma!Nothing
<1>3. ASSUME NEW a \in Aircraft PROVE [aircraft |-> a, airport |-> None] \in IlmaSel
  BY DEF IlmaSel
<1>4. ASSUME NEW p \in Airports PROVE [aircraft |-> None, airport |-> p] \in IlmaSel
  BY DEF IlmaSel
<1>5. CASE \E a \in Aircraft : Ilma!SelectAircraft(a) \/ Ilma!SearchAircraft(a)
  <2> PICK a \in Aircraft : Ilma!SelectAircraft(a) \/ Ilma!SearchAircraft(a)
    BY <1>5
  <2> QED BY <1>1, <1>3 DEF Ilma!Picked
<1>6. CASE \E p \in Airports : Ilma!SelectAirport(p) \/ Ilma!SearchAirport(p)
  <2> PICK p \in Airports : Ilma!SelectAirport(p) \/ Ilma!SearchAirport(p)
    BY <1>6
  <2> QED BY <1>2, <1>4 DEF Ilma!Picked
<1> QED BY <1>5, <1>6 DEF Ilma!Selects

\* The aircraft found again in a later answer is the selected one.
LEMMA IlmaRefound ==
  ASSUME NEW a \in Aircraft \cup {None}, NEW next \in SUBSET Aircraft
  PROVE  Ilma!Refound(a, next, [x \in Aircraft |-> x]) = a
<1> DEFINE K == [x \in Aircraft |-> x]
<1>1. CASE a # None /\ \E x \in next : K[x] = K[a]
  BY <1>1 DEF Ilma!Refound
<1> QED BY <1>1 DEF Ilma!Refound

LEMMA IlmaStep ==
  ASSUME screen \in Screens, folds \in Folds, view \in Views, IlmaInv, Ilma!Next, UNCHANGED url
  PROVE  PageStep /\ IlmaInv'
<1>1. CASE Ilma!Panes
  BY <1>1, IlmaPanes DEF PanesStep, IlmaInv
<1>2. CASE Ilma!Selects
  <2>1. Ilma!RevealDetail => folds' \in Folds
    BY DEF Ilma!RevealDetail, Ilma!IsMobile, Folds
  <2> QED BY <1>2, <2>1, IlmaPicks, IlmaSelected DEF PageStep
<1>3. CASE Ilma!ClearSelection
  <2>1. Ilma!Selected([aircraft |-> None, airport |-> None]) /\ UNCHANGED folds
    BY <1>3 DEF Ilma!ClearSelection, Ilma!Nothing
  <2>2. [aircraft |-> None, airport |-> None] \in IlmaSel
    BY DEF IlmaSel
  <2> QED BY <2>1, <2>2, IlmaSelected DEF PageStep
<1>4. ASSUME NEW next \in SUBSET Aircraft, Ilma!OnAircraftUpdate(next)
      PROVE  PageStep /\ IlmaInv'
  <2>1. /\ sel' = sel /\ UNCHANGED <<screen, folds, panel, loads>>
        /\ Ilma!Rendered(Ilma!Key(sel'), view)
    BY <1>4, IlmaRefound DEF Ilma!OnAircraftUpdate, IlmaInv
  <2>2. lastKey' = Ilma!Key(sel') /\ Render
    BY <2>1 DEF Ilma!Rendered, Render, Rendered
  <2> QED BY <2>1, <2>2 DEF PageStep, IlmaInv
<1>5. CASE Ilma!PollTrail
  <2>1. UNCHANGED <<screen, sel, folds, view, lastKey, browsed, panel>>
    BY <1>5 DEF Ilma!PollTrail
  <2>2. loads' \subseteq [of : {"aircraft"} \X Aircraft, live : BOOLEAN]
    BY <1>5, IlmaFetch DEF Ilma!PollTrail, IlmaInv
  <2> QED BY <2>1, <2>2 DEF PageStep, IlmaInv
<1>6. ASSUME NEW l \in loads, NEW ok \in BOOLEAN, Ilma!TrailAnswers(l, ok)
      PROVE  PageStep /\ IlmaInv'
  BY <1>6 DEF Ilma!TrailAnswers, Ilma!Answered, PageStep, IlmaInv
<1> QED BY <1>1, <1>2, <1>3, <1>4, <1>5, <1>6 DEF Ilma!Next, Ilma!Answers

-----------------------------------------------------------------------------
(* The page of the roads.                                                  *)

LEMMA TieStep ==
  ASSUME screen \in Screens, folds \in Folds, view \in Views, TieInv, Tie!Next, UNCHANGED url
  PROVE  PageStep /\ TieInv'
<1>1. CASE Tie!Panes
  BY <1>1, TiePanes DEF PanesStep, TieInv
<1>2. ASSUME NEW p \in Places \cup {None}, Tie!Selected([selection |-> p]) PROVE TieInv' /\ Render
  BY <1>2 DEF Tie!Selected, Tie!Rendered, TieInv, Render, Rendered
<1>3. ASSUME NEW p \in Places, Tie!Select(p) PROVE PageStep /\ TieInv'
  <2>1. folds' \in Folds
    BY <1>3 DEF Tie!Select, Tie!RevealDetail, Tie!IsMobile, Folds
  <2> QED BY <1>2, <1>3, <2>1 DEF Tie!Select, Tie!Selected, PageStep
<1>4. CASE Tie!ClearSelection
  BY <1>2, <1>4 DEF Tie!ClearSelection, Tie!Nothing, Tie!Selected, PageStep
<1> QED BY <1>1, <1>3, <1>4 DEF Tie!Next, Tie!Selects

-----------------------------------------------------------------------------
(* The page of the ships.                                                  *)

LEMMA MeriKeyIs ==
  ASSUME NEW s, MeriOne(s), NEW sh
  PROVE  Meri!Key(s, sh) = IF Meri!Displayed(s, sh) THEN <<"vessel", s.vessel>>
                           ELSE IF s.port # None THEN <<"port", s.port>>
                           ELSE IF s.webcam # None THEN <<"webcam", s.webcam>>
                           ELSE None
<1>1. Meri!Displayed(s, sh) => s.vessel # None
  BY DEF Meri!Displayed
<1>2. CASE Meri!Displayed(s, sh)
  BY <1>1, <1>2, Zenon DEF Meri!Key, MeriOne
<1>3. CASE ~Meri!Displayed(s, sh)
  BY <1>3, Zenon DEF Meri!Key, MeriOne
<1> QED BY <1>2, <1>3

\* Of the ship a key depends on what the replay and the stream have.
LEMMA MeriKeySame ==
  ASSUME NEW s, MeriOne(s), NEW sh, NEW th,
         th.replay = sh.replay, th.pose = sh.pose, th.fleet = sh.fleet
  PROVE  Meri!Key(s, th) = Meri!Key(s, sh)
BY MeriKeyIs DEF Meri!Displayed

LEMMA MeriCancelled ==
  ASSUME MeriInv
  PROVE  /\ Meri!Cancelled \subseteq [of : MeriFetchable, live : BOOLEAN]
         /\ \A l \in Meri!Cancelled : ~l.live
<1>1. ASSUME NEW l \in loads
      PROVE  /\ [l EXCEPT !.live = FALSE] \in [of : MeriFetchable, live : BOOLEAN]
             /\ ~[l EXCEPT !.live = FALSE].live
  BY DEF MeriInv
<1> QED BY <1>1 DEF Meri!Cancelled

\* The popups fetch about what is rendered, and keep only what was fetched
\* about it.
LEMMA MeriPopups ==
  ASSUME MeriInv, NEW s \in MeriSel, MeriOne(s), NEW sh,
         Meri!Popups(Meri!Key(s, sh), sh)
  PROVE  /\ panel' \in MeriFetchable \cup {None}
         /\ panel' = None \/ panel' = Meri!Key(s, sh)
         /\ loads' \subseteq [of : MeriFetchable, live : BOOLEAN]
         /\ \A l \in loads' : l.live => l.of = Meri!Key(s, sh)
<1> DEFINE key == Meri!Key(s, sh)
           wanted == IF key = None \/ key[1] = "webcam" \/ (key[1] = "vessel" /\ sh.replay)
                       THEN None ELSE key
           Loads == [of : MeriFetchable, live : BOOLEAN]
           r == [of |-> key, live |-> TRUE]
<1>1. \/ key # lastKey /\ panel' = None /\ Meri!Refetches(wanted)
      \/ key = lastKey /\ panel' = panel /\ (Meri!Refetches(wanted) \/ loads' = loads)
  BY DEF Meri!Popups
<1>2. wanted # None => wanted = key /\ key \in MeriFetchable
  <2>1. key \in MeriFetchable \cup {None} \/ key[1] = "webcam"
    BY MeriKeyIs DEF MeriFetchable, MeriSel, Meri!Displayed
  <2> HIDE DEF key
  <2> QED BY <2>1
<1>3. Meri!Refetches(wanted) => loads' = Meri!Cancelled \/ (loads' = Meri!Cancelled \cup {r} /\ wanted # None)
  BY <1>2 DEF Meri!Refetches, Meri!Request
<1>4. wanted # None => r \in Loads /\ r.of = key
  BY <1>2
<1>5. Meri!Cancelled \subseteq Loads /\ \A l \in Meri!Cancelled : ~l.live
  BY MeriCancelled
<1>6. panel \in MeriFetchable \cup {None} /\ (panel = None \/ panel = lastKey)
      /\ loads \subseteq Loads /\ \A l \in loads : l.live => l.of = lastKey
  BY DEF MeriInv
<1> HIDE DEF key, wanted, r, Loads
<1>7. panel' \in MeriFetchable \cup {None} /\ (panel' = None \/ panel' = key)
  BY <1>1, <1>6
<1>8. loads' \subseteq Loads /\ \A l \in loads' : l.live => l.of = key
  BY <1>1, <1>3, <1>4, <1>5, <1>6
<1> QED BY <1>7, <1>8 DEF key, Loads

\* A render with this selection and these data.
LEMMA MeriRenders ==
  ASSUME MeriInv, NEW s \in MeriSel, MeriOne(s), NEW sh \in Ship, NEW v \in Views,
         Meri!Renders(s, sh, v)
  PROVE  MeriInv' /\ Render /\ screen' = screen
<1>1. /\ sel' = s /\ Meri!Rendered(Meri!Key(s, sh), v) /\ Meri!Popups(Meri!Key(s, sh), sh)
      /\ url' = IF s.vessel = sel.vessel THEN url ELSE s.vessel
      /\ screen' = screen
      /\ ship' = [sh EXCEPT !.link = IF @ # s.vessel \/ @ \in sh.fleet THEN None ELSE @]
  BY DEF Meri!Renders, Meri!Settled
<1>2. /\ ship' \in Ship
      /\ ship'.replay = sh.replay /\ ship'.pose = sh.pose /\ ship'.fleet = sh.fleet
  BY <1>1 DEF Ship
<1>3. lastKey' = Meri!Key(s, sh) /\ Render
  BY <1>1 DEF Meri!Rendered, Render, Rendered
<1>4. Meri!Key(s, ship') = Meri!Key(s, sh)
  BY <1>2, MeriKeySame
<1>5. url' = s.vessel
  BY <1>1 DEF MeriInv
<1>6. /\ panel' \in MeriFetchable \cup {None}
      /\ panel' = None \/ panel' = Meri!Key(s, sh)
      /\ loads' \subseteq [of : MeriFetchable, live : BOOLEAN]
      /\ \A l \in loads' : l.live => l.of = Meri!Key(s, sh)
  BY <1>1, MeriPopups
<1> HIDE DEF MeriOne
<1> QED BY <1>1, <1>2, <1>3, <1>4, <1>5, <1>6 DEF MeriInv

\* What a selection, a close, a replay and the stream have in common.
MeriRender ==
  \E s \in MeriSel, sh \in Ship :
    /\ MeriOne(s) /\ Meri!Renders(s, sh, view)
    /\ Meri!RevealDetail \/ UNCHANGED folds

LEMMA MeriSelects ==
  ASSUME MeriInv,
         \/ \E m \in Vessels : Meri!HandleSelectVessel(m)
         \/ \E p \in Ports : Meri!HandleSelectPort(p)
         \/ \E w \in Webcams : Meri!HandleSelectWebcam(w)
  PROVE  MeriRender
<1>1. ASSUME NEW s \in MeriSel, MeriOne(s), Meri!Selected(s) PROVE MeriRender
  <2>1. [ship EXCEPT !.page = @ /\ ~Meri!IsMobile] \in Ship
    BY DEF MeriInv, Ship, Meri!IsMobile
  <2> QED BY <1>1, <2>1 DEF Meri!Selected, MeriRender
<1>2. ASSUME NEW m \in Vessels, Meri!HandleSelectVessel(m) PROVE MeriRender
  <2> DEFINE s == [vessel |-> m, port |-> None, webcam |-> None]
  <2>1. Meri!Selected(s)
    BY <1>2 DEF Meri!HandleSelectVessel, Meri!Vessel, Meri!Nothing
  <2>2. s \in MeriSel /\ MeriOne(s)
    BY DEF MeriSel, MeriOne
  <2> QED BY <1>1, <2>1, <2>2
<1>3. ASSUME NEW p \in Ports, Meri!HandleSelectPort(p) PROVE MeriRender
  <2> DEFINE s == [vessel |-> None, port |-> p, webcam |-> None]
  <2>1. Meri!Selected(s)
    BY <1>3 DEF Meri!HandleSelectPort, Meri!Nothing
  <2>2. s \in MeriSel /\ MeriOne(s)
    BY DEF MeriSel, MeriOne
  <2> QED BY <1>1, <2>1, <2>2
<1>4. ASSUME NEW w \in Webcams, Meri!HandleSelectWebcam(w) PROVE MeriRender
  <2> DEFINE s == [vessel |-> None, port |-> None, webcam |-> w]
  <2>1. Meri!Selected(s)
    BY <1>4 DEF Meri!HandleSelectWebcam, Meri!Nothing
  <2>2. s \in MeriSel /\ MeriOne(s)
    BY DEF MeriSel, MeriOne
  <2> QED BY <1>1, <2>1, <2>2
<1> QED BY <1>2, <1>3, <1>4

LEMMA MeriCloses ==
  ASSUME MeriInv,
         \/ Meri!HandleBackgroundClick \/ Meri!HandleCloseVessel \/ Meri!HandleClosePort
         \/ Meri!HandleCloseWebcam \/ Meri!HandleEnterReplay
  PROVE  MeriRender
<1>1. ship \in Ship /\ [ship EXCEPT !.page = FALSE] \in Ship
  BY DEF MeriInv, Ship
<1>2. sel \in MeriSel /\ MeriOne(sel)
  BY DEF MeriInv
<1>3. CASE Meri!HandleBackgroundClick
  <2> DEFINE s == [vessel |-> None, port |-> None, webcam |-> None]
  <2>1. Meri!Renders(s, ship, view) /\ UNCHANGED folds
    BY <1>3 DEF Meri!HandleBackgroundClick, Meri!Nothing
  <2>2. s \in MeriSel /\ MeriOne(s)
    BY DEF MeriSel, MeriOne
  <2> HIDE DEF s
  <2> QED BY <1>1, <2>1, <2>2 DEF MeriRender
<1>4. CASE Meri!HandleCloseVessel
  <2>1. [sel EXCEPT !.vessel = None] \in MeriSel /\ MeriOne([sel EXCEPT !.vessel = None])
    BY <1>2 DEF MeriSel, MeriOne
  <2> QED BY <1>1, <1>4, <2>1 DEF Meri!HandleCloseVessel, MeriRender
<1>5. CASE Meri!HandleClosePort
  <2>1. [sel EXCEPT !.port = None] \in MeriSel /\ MeriOne([sel EXCEPT !.port = None])
    BY <1>2 DEF MeriSel, MeriOne
  <2> QED BY <1>1, <1>5, <2>1 DEF Meri!HandleClosePort, MeriRender
<1>6. CASE Meri!HandleCloseWebcam
  <2>1. [sel EXCEPT !.webcam = None] \in MeriSel /\ MeriOne([sel EXCEPT !.webcam = None])
    BY <1>2 DEF MeriSel, MeriOne
  <2> QED BY <1>1, <1>6, <2>1 DEF Meri!HandleCloseWebcam, MeriRender
<1>7. CASE Meri!HandleEnterReplay
  <2> DEFINE s == [sel EXCEPT !.vessel = None, !.port = None]
  <2>1. s \in MeriSel /\ MeriOne(s)
    BY <1>2 DEF MeriSel, MeriOne
  <2>2. Meri!Renders(s, ship, view) /\ UNCHANGED folds
    BY <1>7 DEF Meri!HandleEnterReplay
  <2> HIDE DEF s
  <2> QED BY <1>1, <2>1, <2>2 DEF MeriRender
<1> QED BY <1>3, <1>4, <1>5, <1>6, <1>7

LEMMA MeriUpdates ==
  ASSUME MeriInv,
         \/ Meri!OpenVesselPage \/ Meri!CloseVesselPage
         \/ \E fleet \in SUBSET Vessels : Meri!HandleMessage(fleet)
         \/ \E on \in BOOLEAN, pose \in Vessels \cup {None} : Meri!FleetReplays(on, pose)
  PROVE  MeriRender
<1>1. sel \in MeriSel /\ MeriOne(sel)
  BY DEF MeriInv
<1>2. ASSUME NEW sh \in Ship, Meri!Renders(sel, sh, view), UNCHANGED folds PROVE MeriRender
  BY <1>1, <1>2 DEF MeriRender
<1>3. ASSUME NEW b \in BOOLEAN, NEW f \in SUBSET Vessels, NEW p \in Vessels \cup {None}
      PROVE  /\ [ship EXCEPT !.page = b] \in Ship /\ [ship EXCEPT !.fleet = f] \in Ship
             /\ [ship EXCEPT !.replay = b, !.pose = p] \in Ship
  BY DEF MeriInv, Ship
<1>4. CASE Meri!OpenVesselPage \/ Meri!CloseVesselPage
  BY <1>2, <1>3, <1>4 DEF Meri!OpenVesselPage, Meri!CloseVesselPage
<1>5. ASSUME NEW f \in SUBSET Vessels, Meri!HandleMessage(f) PROVE MeriRender
  BY <1>2, <1>3, <1>5 DEF Meri!HandleMessage
<1>6. ASSUME NEW on \in BOOLEAN, NEW pose \in Vessels \cup {None}, Meri!FleetReplays(on, pose)
      PROVE MeriRender
  BY <1>2, <1>3, <1>6 DEF Meri!FleetReplays
<1> QED BY <1>4, <1>5, <1>6

LEMMA MeriPanesStep ==
  ASSUME screen \in Screens, folds \in Folds, view \in Views, Meri!MeriPanes
  PROVE  PanesStep /\ UNCHANGED <<ship, url>>
BY DEF Meri!MeriPanes, Meri!ToggleFilters, Meri!CloseFilters, Meri!BackToSelection,
       Meri!ShowBrowse, Meri!ToggleDetail, Meri!Rotate, Meri!Fold, Meri!Stay,
       Meri!Rendered, Meri!Screens, Screens, Folds, Views, PanesStep, PageStep, Render, Rendered

LEMMA MeriStep ==
  ASSUME screen \in Screens, folds \in Folds, view \in Views, MeriInv, Meri!Next
  PROVE  PageStep /\ MeriInv'
<1>1. CASE Meri!MeriPanes
  BY <1>1, MeriPanesStep DEF PanesStep, MeriInv
<1>2. CASE MeriRender
  <2>1. Meri!RevealDetail => folds' \in Folds
    BY DEF Meri!RevealDetail, Meri!IsMobile, Folds
  <2>2. MeriInv' /\ Render /\ screen' = screen
    BY <1>2, MeriRenders DEF MeriRender
  <2> QED BY <1>2, <2>1, <2>2 DEF MeriRender, PageStep
<1>3. ASSUME NEW l \in loads, NEW ok \in BOOLEAN, Meri!PopupAnswers(l, ok)
      PROVE  PageStep /\ MeriInv'
  BY <1>3 DEF Meri!PopupAnswers, Meri!Answered, PageStep, MeriInv
<1> QED BY <1>1, <1>2, <1>3, MeriSelects, MeriCloses, MeriUpdates DEF Meri!Next, Meri!Answers

-----------------------------------------------------------------------------
(* The shell.                                                              *)

\* A page starts with nothing on display, and Meri with the vessel of the link.
LEMMA MeriMounts ==
  ASSUME screen' \in Screens, NEW u \in Urls, Meri!Mount(u)
  PROVE  /\ MeriInv' /\ url' \in Urls /\ sel'.vessel = Meri!InitialLinkedVessel(u)
         /\ folds' \in Folds /\ view' = "detail" /\ browsed' = FALSE
<1> DEFINE m == Meri!InitialLinkedVessel(u)
<1>1. m \in Vessels \cup {None}
  BY DEF Meri!InitialLinkedVessel
<1>2. /\ sel' = [vessel |-> m, port |-> None, webcam |-> None]
      /\ ship' = [page |-> FALSE, fleet |-> {}, replay |-> FALSE, pose |-> None, link |-> m]
      /\ url' = m /\ loads' = {} /\ panel' = None /\ lastKey' = None
      /\ view' = "detail" /\ browsed' = FALSE
      /\ folds' = [filter |-> screen' # "wide", detail |-> FALSE]
  BY DEF Meri!Mount, Meri!Vessel, Meri!Nothing, Meri!Opened, Meri!Unmount
<1> HIDE DEF m
<1>3. sel' \in MeriSel /\ MeriOne(sel') /\ ship' \in Ship
  BY <1>1, <1>2 DEF MeriSel, MeriOne, Ship
<1>4. ~Meri!Displayed(sel', ship')
  BY <1>2 DEF Meri!Displayed
<1>5. Meri!Key(sel', ship') = None
  BY <1>2, <1>3, <1>4, MeriKeyIs
<1>6. MeriInv'
  BY <1>2, <1>3, <1>5 DEF MeriInv
<1> QED BY <1>1, <1>2, <1>6 DEF Folds, Urls, m

LEMMA NothingKeys ==
  /\ Raide!Key([train |-> None, station |-> None]) = None
  /\ Ilma!Key([aircraft |-> None, airport |-> None]) = None
  /\ Tie!Key([selection |-> None]) = None
<1>1. Raide!Key([train |-> None, station |-> None]) = None
  BY Zenon DEF Raide!Key
<1>2. Ilma!Key([aircraft |-> None, airport |-> None]) = None
  BY Zenon DEF Ilma!Key
<1> QED BY <1>1, <1>2 DEF Tie!Key

LEMMA Mounts ==
  ASSUME screen' \in Screens, NEW k \in Modes, NEW u \in Urls, Mount(k, u),
         k # "meri" => u \notin Vessels
  PROVE  /\ AppInv' /\ mode' = k /\ view' = "detail"
         /\ k = "meri" => sel'.vessel = Meri!InitialLinkedVessel(u)
<1>1. mode' = k /\ saved' = k
  BY DEF Mount
<1>2. CASE k = "meri"
  <2>1. Meri!Mount(u)
    BY <1>2 DEF Mount
  <2> QED BY <1>1, <1>2, <2>1, MeriMounts DEF AppInv, Views
<1>3. CASE k # "meri"
  <2>1. url' = u /\ u \notin Vessels
    BY <1>3 DEF Mount
  <2>2. CASE k = "raide"
    <3>1. /\ sel' = [train |-> None, station |-> None] /\ lastKey' = None
          /\ loads' = {} /\ panel' = None /\ view' = "detail" /\ browsed' = FALSE
          /\ folds' = [filter |-> screen' # "wide", detail |-> FALSE]
      BY <2>2 DEF Mount, Raide!Mount, Raide!Nothing, Raide!Opened, Raide!Unmount
    <3>2. RaideInv'
      BY <2>1, <3>1, NothingKeys DEF RaideInv
    <3> QED BY <1>1, <2>1, <2>2, <3>1, <3>2 DEF AppInv, Views, Folds
  <2>3. CASE k = "ilma"
    <3>1. /\ sel' = [aircraft |-> None, airport |-> None] /\ lastKey' = None
          /\ loads' = {} /\ panel' = None /\ view' = "detail" /\ browsed' = FALSE
          /\ folds' = [filter |-> screen' # "wide", detail |-> FALSE]
      BY <2>3 DEF Mount, Ilma!Mount, Ilma!Nothing, Ilma!Opened, Ilma!Unmount
    <3>2. IlmaInv'
      BY <2>1, <3>1, NothingKeys DEF IlmaInv
    <3> QED BY <1>1, <2>1, <2>3, <3>1, <3>2 DEF AppInv, Views, Folds
  <2>4. CASE k = "tie"
    <3>1. /\ sel' = [selection |-> None] /\ lastKey' = None
          /\ loads' = {} /\ panel' = None /\ view' = "detail" /\ browsed' = FALSE
          /\ folds' = [filter |-> screen' # "wide", detail |-> FALSE]
      BY <2>4 DEF Mount, Tie!Mount, Tie!Nothing, Tie!Opened, Tie!Unmount
    <3>2. TieInv'
      BY <2>1, <3>1, NothingKeys DEF TieInv
    <3> QED BY <1>1, <2>1, <2>4, <3>1, <3>2 DEF AppInv, Views, Folds
  <2> QED BY <1>3, <2>2, <2>3, <2>4 DEF Modes
<1> QED BY <1>2, <1>3

LEMMA Opens ==
  ASSUME AppInv, NEW u \in Urls, OpenPage(u)
  PROVE  /\ AppInv' /\ view' = "detail"
         /\ mode' = IF u \in Vessels THEN "meri" ELSE IF saved \in Modes THEN saved ELSE "meri"
         /\ mode' = "meri" => sel'.vessel = IF u \in Vessels THEN u ELSE None
<1> DEFINE k == IF u \in Vessels THEN "meri" ELSE IF saved \in Modes THEN saved ELSE "meri"
<1>1. k \in Modes /\ (k # "meri" => u \notin Vessels)
  BY DEF Modes
<1>2. screen' = screen /\ Mount(k, u)
  BY AppsAssumption DEF OpenPage, Meri!InitialLinkedVessel
<1> HIDE DEF k
<1>3. screen' \in Screens
  BY <1>2 DEF AppInv
<1>4. /\ AppInv' /\ mode' = k /\ view' = "detail"
      /\ k = "meri" => sel'.vessel = Meri!InitialLinkedVessel(u)
  BY <1>1, <1>2, <1>3, Mounts
<1> QED BY <1>4 DEF k, Meri!InitialLinkedVessel

\* A page is left, and takes with it what it had in the address bar.
LEMMA Switches ==
  ASSUME AppInv, NEW k \in Modes, SwitchMode(k)
  PROVE  AppInv' /\ view' = "detail"
<1>1. mode # None /\ mode # k /\ screen' = screen /\ Mount(k, Left(mode))
  BY DEF SwitchMode
<1>2. Left(mode) \in Urls /\ Left(mode) \notin Vessels
  BY <1>1, AppsAssumption DEF Left, AppInv, Modes, Urls, RaideInv, IlmaInv, TieInv
<1>3. screen' \in Screens
  BY <1>1 DEF AppInv
<1> QED BY <1>1, <1>2, <1>3, Mounts

-----------------------------------------------------------------------------
(* The whole page.                                                         *)

PageNext ==
  \/ In("raide") /\ Raide!Next /\ Land
  \/ In("ilma") /\ Ilma!Next /\ Land
  \/ In("tie") /\ Tie!Next /\ Land
  \/ In("meri") /\ Meri!Next

LEMMA PageSteps ==
  ASSUME AppInv, PageNext
  PROVE  AppInv' /\ PageStep
<1>1. /\ mode # None /\ UNCHANGED <<mode, saved>>
      /\ screen \in Screens /\ folds \in Folds /\ view \in Views
  BY AppsAssumption DEF PageNext, In, AppInv, Modes
<1>2. PageStep /\ (PageStep => view' \in Views /\ browsed' \in BOOLEAN)
  BY <1>1, RaideStep, IlmaStep, TieStep, MeriStep, RenderTypes DEF PageNext, In, Land, AppInv
<1>3. /\ mode = "raide" => RaideInv' /\ url' = url
      /\ mode = "ilma" => IlmaInv' /\ url' = url
      /\ mode = "tie" => TieInv' /\ url' = url
      /\ mode = "meri" => MeriInv'
  BY <1>1, RaideStep, IlmaStep, TieStep, MeriStep DEF PageNext, In, Land, AppInv
<1>4. mode = "meri" => url' \in Urls
  BY <1>3 DEF MeriInv, MeriSel, Urls
<1>5. url' \in Urls
  BY <1>1, <1>3, <1>4 DEF AppInv, Modes
<1> QED BY <1>1, <1>2, <1>3, <1>5 DEF AppInv, PageStep

LEMMA AppInvInit == Init => AppInv
BY AppsAssumption DEF Init, AppInv, Views, Modes, Urls

LEMMA AppInvStep == AppInv /\ [Next]_allvars => AppInv'
<1> SUFFICES ASSUME AppInv, [Next]_allvars PROVE AppInv'
  OBVIOUS
<1>1. CASE Next
  BY <1>1, Opens, Switches, PageSteps DEF Next, PageNext
<1>2. CASE UNCHANGED allvars
  BY <1>2 DEF allvars, AppInv, RaideInv, IlmaInv, TieInv, MeriInv
<1> QED BY <1>1, <1>2

LEMMA AppInvHolds == Spec => []AppInv
BY AppInvInit, AppInvStep, PTL DEF Spec

\* Every page has selections and fetches of its own kinds, and none of the page
\* before it (App.tsx mounts one page; the effects of each clean up after it).
THEOREM AppsTypeCorrect == Spec => []TypeOK
<1>1. AppInv => TypeOK
  <2> SUFFICES ASSUME AppInv, mode # None
               PROVE  /\ DOMAIN sel = DOMAIN Kinds
                      /\ \A k \in DOMAIN sel : sel[k] \in Kinds[k] \cup {None}
                      /\ folds \in [filter : BOOLEAN, detail : BOOLEAN]
                      /\ panel \in Fetchable \cup {None}
                      /\ loads \subseteq [of : Fetchable, live : BOOLEAN]
    BY DEF TypeOK, AppInv, Views
  <2>1. CASE mode = "raide"
    <3>1. /\ Kinds = [train |-> Raide!Trains, station |-> Stations]
          /\ Fetchable = {"station"} \X Stations
      BY <2>1, Zenon DEF Kinds, Fetchable
    <3> QED BY <2>1, <3>1 DEF AppInv, RaideInv, Folds
  <2>2. CASE mode = "ilma"
    <3>1. /\ Kinds = [aircraft |-> Aircraft, airport |-> Airports]
          /\ Fetchable = {"aircraft"} \X Aircraft
      BY <2>2, Zenon DEF Kinds, Fetchable
    <3> QED BY <2>2, <3>1 DEF AppInv, IlmaInv, Folds
  <2>3. CASE mode = "tie"
    <3>1. Kinds = [selection |-> Places] /\ Fetchable = {}
      BY <2>3, Zenon DEF Kinds, Fetchable
    <3> QED BY <2>3, <3>1 DEF AppInv, TieInv, Folds
  <2>4. CASE mode = "meri"
    <3>1. /\ Kinds = [vessel |-> Vessels, port |-> Ports, webcam |-> Webcams]
          /\ Fetchable = ({"vessel"} \X Vessels) \cup ({"port"} \X Ports)
      BY <2>4, Zenon DEF Kinds, Fetchable
    <3> QED BY <2>4, <3>1 DEF AppInv, MeriInv, MeriSel, MeriFetchable, Folds
  <2> QED BY <2>1, <2>2, <2>3, <2>4 DEF AppInv, Modes
<1> QED BY <1>1, AppInvHolds, PTL

\* What is selected is one thing at most.
LEMMA OneSelected ==
  ASSUME AppInv, mode # None
  PROVE  Cardinality({k \in DOMAIN sel : sel[k] # None}) <= 1
<1> DEFINE S == {k \in DOMAIN sel : sel[k] # None}
<1> SUFFICES Cardinality(S) <= 1
  OBVIOUS
<1>1. \A j, k \in S : j = k
  BY DEF AppInv, Modes, RaideInv, IlmaInv, TieInv, MeriInv, MeriSel, MeriOne
<1> HIDE DEF S
<1>2. CASE S = {}
  BY <1>2, FS_EmptySet
<1>3. CASE S # {}
  <2>1. PICK k : S = {k}
    BY <1>1, <1>3
  <2> QED BY <2>1, FS_Singleton
<1> QED BY <1>2, <1>3

\* What is on the page is about one thing: the selection, what the details show
\* and what the address bar names (MeriApp.tsx, RaideApp.tsx, IlmaApp.tsx).
THEOREM OfSelectionHolds == Spec => []OfSelection
<1>1. AppInv => OfSelection
  <2> SUFFICES ASSUME AppInv, mode # None
               PROVE  /\ panel # None => \E k \in DOMAIN sel : panel = <<k, sel[k]>>
                      /\ IF mode = "meri" THEN url = sel.vessel ELSE url \notin Vessels
    BY OneSelected DEF OfSelection
  <2>1. CASE mode = "raide"
    BY <2>1 DEF AppInv, RaideInv
  <2>2. CASE mode = "ilma"
    BY <2>2 DEF AppInv, IlmaInv
  <2>3. CASE mode = "tie"
    BY <2>3 DEF AppInv, TieInv
  <2>4. CASE mode = "meri"
    <3>1. sel \in MeriSel /\ MeriOne(sel) /\ url = sel.vessel
          /\ (panel = None \/ panel = Meri!Key(sel, ship))
          /\ panel \in MeriFetchable \cup {None}
      BY <2>4 DEF AppInv, MeriInv
    <3>2. panel # None => \E k \in {"vessel", "port", "webcam"} : panel = <<k, sel[k]>>
      BY <3>1, MeriKeyIs
    <3> QED BY <2>4, <3>1, <3>2 DEF MeriSel
  <2> QED BY <2>1, <2>2, <2>3, <2>4 DEF AppInv, Modes
<1> QED BY <1>1, AppInvHolds, PTL

\* The phone's sheet shows the filters over a selection only if they were asked
\* for over this very selection (useSheetView.ts:26-43).
THEOREM BrowseWasAskedHolds == Spec => []BrowseWasAsked
<1>1. Init => BrowseWasAsked
  BY DEF Init, BrowseWasAsked
<1>2. ASSUME BrowseWasAsked, NEW key, NEW v, Rendered(key, v) PROVE BrowseWasAsked'
  BY <1>2 DEF BrowseWasAsked, HasSelection, Rendered
<1>3. AppInv /\ BrowseWasAsked /\ [Next]_allvars => BrowseWasAsked'
  <2> SUFFICES ASSUME AppInv, BrowseWasAsked, [Next]_allvars PROVE BrowseWasAsked'
    OBVIOUS
  <2>1. CASE PageNext
    <3>1. Render \/ UNCHANGED <<view, lastKey, browsed>>
      BY <2>1, PageSteps DEF PageStep
    <3> QED BY <1>2, <3>1 DEF Render, BrowseWasAsked, HasSelection
  <2>2. CASE (\E u \in Urls : OpenPage(u)) \/ (\E k \in Modes : SwitchMode(k))
    BY <2>2, Opens, Switches DEF BrowseWasAsked
  <2>3. CASE UNCHANGED allvars
    BY <2>3 DEF allvars, BrowseWasAsked, HasSelection
  <2> QED BY <2>1, <2>2, <2>3 DEF Next, PageNext
<1> QED BY <1>1, <1>3, AppInvHolds, PTL DEF Spec

\* A reload, or a crash of the browser, comes back to the same mode and to the
\* same vessel (App.tsx, MeriApp.tsx: the address bar and the local storage).
THEOREM ReloadKeepsPlaceHolds == Spec => ReloadKeepsPlace
<1>1. ASSUME AppInv, mode # None, OpenPage(url)
      PROVE  mode' = mode /\ (mode = "meri" => sel'.vessel = sel.vessel)
  <2>1. /\ mode' = IF url \in Vessels THEN "meri" ELSE IF saved \in Modes THEN saved ELSE "meri"
        /\ mode' = "meri" => sel'.vessel = IF url \in Vessels THEN url ELSE None
    BY <1>1, Opens DEF AppInv
  <2>2. saved = mode /\ mode \in Modes /\ (mode # "meri" => url \notin Vessels)
    BY <1>1 DEF AppInv, Modes, RaideInv, IlmaInv, TieInv
  <2>3. mode = "meri" => url = sel.vessel /\ url \in Vessels \cup {None}
    BY <1>1 DEF AppInv, MeriInv, MeriSel
  <2> QED BY <2>1, <2>2, <2>3
<1>2. AppInv /\ [Next]_allvars =>
        [mode # None /\ OpenPage(url) =>
           mode' = mode /\ (mode = "meri" => sel'.vessel = sel.vessel)]_allvars
  BY <1>1
<1> QED BY <1>2, AppInvHolds, PTL DEF Spec, ReloadKeepsPlace

-----------------------------------------------------------------------------
(* Answers of the servers.                                                 *)

\* What a render without another selection does to the sheet.
LEMMA SheetKept ==
  ASSUME NEW key, Rendered(key, view), key = lastKey \/ key = None \/ lastKey = None
  PROVE  view' # view => lastKey = None /\ lastKey' # None
BY DEF Rendered

\* On display or not, a page has rendered the vessel it has selected, or nothing.
LEMMA MessageKeeps ==
  ASSUME MeriInv, NEW fleet \in SUBSET Vessels, Meri!HandleMessage(fleet)
  PROVE  /\ sel' = sel /\ folds' = folds
         /\ view' # view => lastKey = None /\ lastKey' # None
         /\ focus' # focus => /\ ship.link = sel.vessel
                              /\ focus' = sel.vessel /\ ship'.link = None
         /\ ship'.link \in {ship.link, None}
<1> DEFINE sh == [ship EXCEPT !.fleet = fleet]
<1>1. /\ sel' = sel /\ folds' = folds
      /\ Meri!Settled(sel, sh) /\ Meri!Rendered(Meri!Key(sel, sh), view)
  BY DEF Meri!HandleMessage, Meri!Renders
<1>2. /\ sh.link = ship.link /\ sh.fleet = fleet
      /\ DOMAIN sh = {"page", "fleet", "replay", "pose", "link"}
  BY DEF MeriInv, Ship
<1>3. Rendered(Meri!Key(sel, sh), view)
  BY <1>1 DEF Meri!Rendered, Rendered
<1> HIDE DEF sh
<1>4. ship'.link = IF ship.link # sel.vessel \/ ship.link \in fleet THEN None ELSE ship.link
  BY <1>1, <1>2 DEF Meri!Settled
<1>5. focus' = IF ship.link # None /\ ship.link = sel.vessel /\ ship.link \in fleet
                 THEN ship.link ELSE focus
  <2>1. CASE ship.link # None /\ ship.link = sel.vessel /\ ship.link \in fleet
    BY <1>1, <1>2, <2>1, Zenon DEF Meri!Settled
  <2>2. CASE ~(ship.link # None /\ ship.link = sel.vessel /\ ship.link \in fleet)
    BY <1>1, <1>2, <2>2, Zenon DEF Meri!Settled
  <2> QED BY <2>1, <2>2
<1>6. Meri!Key(sel, sh) = lastKey \/ Meri!Key(sel, sh) = None \/ lastKey = None
  <2>1. MeriOne(sel) /\ lastKey = Meri!Key(sel, ship)
    BY DEF MeriInv
  <2>2. CASE sel.vessel = None
    BY <2>1, <2>2, MeriKeyIs DEF Meri!Displayed
  <2>3. CASE sel.vessel # None
    <3>1. sel.port = None /\ sel.webcam = None
      BY <2>1, <2>3 DEF MeriOne
    <3> QED BY <2>1, <3>1, MeriKeyIs
  <2> QED BY <2>2, <2>3
<1> QED BY <1>1, <1>3, <1>4, <1>5, <1>6, SheetKept

\* What the servers send leaves the visitor in peace: it neither selects, nor
\* folds, nor moves the map, but for the flight to a linked vessel; and it swaps
\* the sheet only if what is selected comes on display (MeriApp.tsx, RaideApp.tsx,
\* IlmaApp.tsx: onTrainsUpdate, onAircraftUpdate, handleMessage, the popups).
THEOREM AnswersKeepSelectionHolds == Spec => AnswersKeepSelection
<1> DEFINE Peace ==
      /\ sel' = sel /\ folds' = folds
      /\ view' # view => lastKey = None /\ lastKey' # None
      /\ focus' # focus => /\ mode = "meri" /\ ship.link = sel.vessel
                           /\ focus' = sel.vessel /\ ship'.link = None
      /\ mode = "meri" => ship'.link \in {ship.link, None}
<1>1. ASSUME AppInv, In("raide"), Raide!Answers, Land PROVE Peace
  <2>0. RaideInv /\ mode = "raide" /\ ship' = ship
    BY <1>1, AppsAssumption DEF AppInv, In, Land
  <2>1. ASSUME NEW next \in SUBSET Raide!Trains, Raide!OnTrainsUpdate(next) PROVE Peace
    <3>1. sel' = sel /\ UNCHANGED <<folds, focus>> /\ Raide!Rendered(lastKey, view)
      BY <2>0, <2>1, RaideRefound DEF Raide!OnTrainsUpdate, RaideInv
    <3> QED BY <2>0, <3>1 DEF Raide!Rendered
  <2>2. Raide!RefreshBoard => Peace
    BY <2>0 DEF Raide!RefreshBoard
  <2>3. ASSUME NEW l \in loads, NEW ok \in BOOLEAN, Raide!BoardAnswers(l, ok) PROVE Peace
    BY <2>0, <2>3 DEF Raide!BoardAnswers, Raide!Answered
  <2> QED BY <1>1, <2>1, <2>2, <2>3 DEF Raide!Answers
<1>2. ASSUME AppInv, In("ilma"), Ilma!Answers, Land PROVE Peace
  <2>0. IlmaInv /\ mode = "ilma" /\ ship' = ship
    BY <1>2, AppsAssumption DEF AppInv, In, Land
  <2>1. ASSUME NEW next \in SUBSET Aircraft, Ilma!OnAircraftUpdate(next) PROVE Peace
    <3>1. sel' = sel /\ UNCHANGED <<folds, focus>> /\ Ilma!Rendered(lastKey, view)
      BY <2>0, <2>1, IlmaRefound DEF Ilma!OnAircraftUpdate, IlmaInv
    <3> QED BY <2>0, <3>1 DEF Ilma!Rendered
  <2>2. Ilma!PollTrail => Peace
    BY <2>0 DEF Ilma!PollTrail
  <2>3. ASSUME NEW l \in loads, NEW ok \in BOOLEAN, Ilma!TrailAnswers(l, ok) PROVE Peace
    BY <2>0, <2>3 DEF Ilma!TrailAnswers, Ilma!Answered
  <2> QED BY <1>2, <2>1, <2>2, <2>3 DEF Ilma!Answers
<1>3. ASSUME AppInv, In("meri"), Meri!Answers PROVE Peace
  <2>0. MeriInv /\ mode = "meri"
    BY <1>3 DEF AppInv, In
  <2>1. ASSUME NEW fleet \in SUBSET Vessels, Meri!HandleMessage(fleet) PROVE Peace
    BY <2>0, <2>1, MessageKeeps
  <2>2. ASSUME NEW l \in loads, NEW ok \in BOOLEAN, Meri!PopupAnswers(l, ok) PROVE Peace
    BY <2>0, <2>2 DEF Meri!PopupAnswers, Meri!Answered
  <2> QED BY <1>3, <2>1, <2>2 DEF Meri!Answers
<1>4. AppInv /\ [Next]_allvars => [Answers => Peace]_allvars
  BY <1>1, <1>2, <1>3 DEF Answers
<1> QED BY <1>4, AppInvHolds, PTL DEF Spec, AnswersKeepSelection
=============================================================================
