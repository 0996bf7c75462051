------------------------------- MODULE MeriApp -------------------------------
(***************************************************************************)
(* The page of the ships: a vessel, a port or a webcam is selected.  A     *)
(* selected vessel is on display while the stream, or a replay, has it.    *)
(* The address bar names the selected vessel, and a link that names one    *)
(* opens the page with it.                                                 *)
(*                                                                         *)
(* The replay of the fleet is modelled in Replay; here it begins, ends and *)
(* finds or loses the vessel as it likes.                                  *)
(***************************************************************************)
EXTENDS Panels

CONSTANTS Vessels, Ports, Webcams

VARIABLES
  ship,  \* what only this page has
  url    \* the vessel parameter in the address bar

merivars == <<screen, sel, folds, view, lastKey, browsed, panel, loads, focus, ship, url>>

(* initialLinkedVessel: anything but an MMSI is ignored. *)
InitialLinkedVessel(u) == IF u \in Vessels THEN u ELSE None

(* displayedVessel, as a question: is the selected vessel there to be seen? *)
Displayed(s, sh) ==
  s.vessel # None /\ IF sh.replay THEN sh.pose = s.vessel ELSE s.vessel \in sh.fleet

Key(s, sh) == CASE Displayed(s, sh)  -> <<"vessel", s.vessel>>
                [] s.port # None     -> <<"port", s.port>>
                [] s.webcam # None   -> <<"webcam", s.webcam>>
                [] OTHER             -> None

Nothing == [vessel |-> None, port |-> None, webcam |-> None]

Vessel(m) == [Nothing EXCEPT !.vessel = m]

(* The page is opened for a link, or for none. *)
Mount(u) ==
  /\ sel' = Vessel(InitialLinkedVessel(u))
  /\ ship' = [page   |-> FALSE,                   \* vesselPageOpen
              fleet  |-> {},                      \* vessels of the stream
              replay |-> FALSE, pose |-> None,    \* the fleet replay's
              link   |-> InitialLinkedVessel(u)]  \* pendingLink
  /\ url' = InitialLinkedVessel(u)
  /\ Opened(None)
  /\ Unmount

(* What VesselPopup and PortPopup fetch; both start over for another one,  *)
(* and VesselPopup fetches nothing in a replay.                            *)
Popups(key, sh) ==
  LET wanted == IF key = None \/ key[1] = "webcam" \/ (key[1] = "vessel" /\ sh.replay)
                  THEN None ELSE key
  IN IF key # lastKey THEN panel' = None /\ Refetches(wanted)
     ELSE /\ UNCHANGED panel
          /\ IF key # None /\ key[1] = "vessel" /\ sh.replay # ship.replay
               THEN Refetches(wanted) ELSE UNCHANGED loads

(* The pending link: flown to on its first position, dropped with another  *)
(* selection.  A port is flown to when it is selected.                     *)
Settled(s, sh) ==
  /\ ship' = [sh EXCEPT !.link = IF @ # s.vessel \/ @ \in sh.fleet THEN None ELSE @]
  /\ focus' = CASE sh.link # None /\ sh.link = s.vessel /\ sh.link \in sh.fleet -> sh.link
                [] s.port # None /\ s.port # sel.port -> s.port
                [] OTHER -> focus

(* A render with this selection and these data, and its effects. *)
Renders(s, sh, v) ==
  /\ sel' = s
  /\ Settled(s, sh)
  /\ Rendered(Key(s, sh), v)
  /\ Popups(Key(s, sh), sh)
  /\ url' = IF s.vessel = sel.vessel THEN url ELSE s.vessel
  /\ UNCHANGED screen

(* onSelectionMade *)
Selected(s) ==
  /\ RevealDetail
  /\ Renders(s, [ship EXCEPT !.page = @ /\ ~IsMobile], view)

FullPage == sel.port # None \/ sel.webcam # None \/ (Displayed(sel, ship) /\ ~IsMobile)

PageIsUp == (FullPage /\ DetailOpen) \/ (BrowseOpen /\ ~folds.filter)

MapIsUp == screen = "tall" /\ ~PageIsUp

Tappable == screen = "tall" => ~(FullPage /\ DetailOpen)

(* By a tap on the map, from the search, or from the calls of a port. *)
HandleSelectVessel(m) == Selected(Vessel(m))

HandleSelectPort(p) == Tappable /\ Selected([Nothing EXCEPT !.port = p])

HandleSelectWebcam(w) == Tappable /\ Selected([Nothing EXCEPT !.webcam = w])

HandleBackgroundClick == Tappable /\ Renders(Nothing, ship, view) /\ UNCHANGED folds

HandleCloseVessel ==
  /\ Displayed(sel, ship)
  /\ Renders([sel EXCEPT !.vessel = None], [ship EXCEPT !.page = FALSE], view)
  /\ UNCHANGED folds

HandleClosePort ==
  /\ sel.port # None /\ Renders([sel EXCEPT !.port = None], ship, view)
  /\ UNCHANGED folds

HandleCloseWebcam ==
  /\ sel.webcam # None /\ Renders([sel EXCEPT !.webcam = None], ship, view)
  /\ UNCHANGED folds

(* The selection of a vessel or a port is dropped; a webcam stays. *)
HandleEnterReplay ==
  /\ Renders([sel EXCEPT !.vessel = None, !.port = None], ship, view)
  /\ UNCHANGED folds

(* The card of a vessel opens its page on a phone, the page folds back. *)
OpenVesselPage ==
  /\ MapIsUp /\ Displayed(sel, ship) /\ ~(ship.page /\ DetailOpen)
  /\ Renders(sel, [ship EXCEPT !.page = TRUE], view)
  /\ UNCHANGED folds

CloseVesselPage ==
  /\ IsMobile /\ Displayed(sel, ship) /\ (screen = "tall" => ship.page /\ DetailOpen)
  /\ Renders(sel, [ship EXCEPT !.page = FALSE], view)
  /\ UNCHANGED folds

(* The stream brings vessels and takes them away. *)
HandleMessage(fleet) ==
  Renders(sel, [ship EXCEPT !.fleet = fleet], view) /\ UNCHANGED folds

(* The replay of the fleet begins or ends, and the selected vessel has a   *)
(* position in it or has none.                                             *)
FleetReplays(on, pose) ==
  /\ pose \in {None, sel.vessel} /\ (pose # None => on)
  /\ Renders(sel, [ship EXCEPT !.replay = on, !.pose = pose], view)
  /\ UNCHANGED folds

PopupAnswers(l, ok) == Answered(l, ok /\ l.live) /\ UNCHANGED <<ship, url>>

Answers ==
  \/ \E fleet \in SUBSET Vessels : HandleMessage(fleet)
  \/ \E l \in loads, ok \in BOOLEAN : PopupAnswers(l, ok)

(* The filters' launcher is on the map also while a vessel is selected.    *)
(* The details of a vessel have no button for the filters, and on a phone  *)
(* no sliver.                                                              *)
MeriPanes ==
  /\ \/ ToggleFilters(BrowseOpen \/ MapIsUp)
     \/ CloseFilters(BrowseOpen \/ MapIsUp)
     \/ BackToSelection(BrowseOpen \/ MapIsUp)
     \/ sel.vessel = None /\ ShowBrowse
     \/ (IsMobile => sel.vessel = None) /\ ToggleDetail
     \/ Rotate
  /\ UNCHANGED <<ship, url>>

Next ==
  \/ \E m \in Vessels : HandleSelectVessel(m)
  \/ \E p \in Ports : HandleSelectPort(p)
  \/ \E w \in Webcams : HandleSelectWebcam(w)
  \/ HandleBackgroundClick
  \/ HandleCloseVessel \/ HandleClosePort \/ HandleCloseWebcam
  \/ HandleEnterReplay
  \/ OpenVesselPage \/ CloseVesselPage
  \/ \E on \in BOOLEAN, pose \in Vessels \cup {None} : FleetReplays(on, pose)
  \/ Answers
  \/ MeriPanes
=============================================================================
