-------------------------------- MODULE Apps --------------------------------
(***************************************************************************)
(* The shell and the pages of its four modes.  One page is up at a time;   *)
(* the browser keeps the address bar and the last mode over a reload.      *)
(***************************************************************************)
EXTENDS Panels

CONSTANTS Numbers, Dates, Stations,  \* see RaideApp
          Aircraft, Airports,        \* see IlmaApp
          Places,                    \* see TieApp
          Vessels, Ports, Webcams,   \* see MeriApp
          Junk                       \* a vessel parameter that is no MMSI

Modes == {"meri", "raide", "tie", "ilma"}

ASSUME AppsAssumption == None \notin Modes \cup Vessels

VARIABLES
  ship,  \* see MeriApp
  url,   \* see MeriApp
  mode,  \* the mode that is up
  saved  \* "fintraffic-mode" in the local storage

Raide == INSTANCE RaideApp

Ilma == INSTANCE IlmaApp

Tie == INSTANCE TieApp

Meri == INSTANCE MeriApp

allvars == <<screen, sel, folds, view, lastKey, browsed, panel, loads, focus,
             ship, url, mode, saved>>

Urls == Vessels \cup {Junk, None}

(* A page mounts; a link is heard only by Meri. *)
Mount(k, u) ==
  /\ mode' = k /\ saved' = k
  /\ IF k = "meri" THEN Meri!Mount(u) ELSE ship' = None /\ url' = u
  /\ k = "raide" => Raide!Mount
  /\ k = "ilma" => Ilma!Mount
  /\ k = "tie" => Tie!Mount

(* The browser opens the page: with a link, or as it was left. *)
OpenPage(u) ==
  /\ UNCHANGED screen
  /\ Mount(IF Meri!InitialLinkedVessel(u) # None THEN "meri"
           ELSE IF saved \in Modes THEN saved ELSE "meri", u)

(* Nothing is up before the page has been opened. *)
Init ==
  /\ screen \in Screens
  /\ mode = None /\ saved \in Modes \cup {None}
  /\ url \in Urls
  /\ sel = None /\ folds = None /\ view = "detail" /\ lastKey = None
  /\ browsed = FALSE /\ panel = None /\ loads = {} /\ focus = None /\ ship = None

(* Faulty: the address bar keeps the vessel. *)
FaultyLeft(k) == url

(* Meri takes its vessel out of the address bar when it is left. *)
Left(k) == IF k = "meri" THEN None ELSE url

SwitchMode(k) ==
  /\ mode \notin {None, k}
  /\ UNCHANGED screen
  /\ Mount(k, Left(mode))

In(k) == mode = k /\ UNCHANGED <<mode, saved>>

Land == UNCHANGED <<ship, url>>

Next ==
  \/ \E u \in Urls : OpenPage(u)
  \/ \E k \in Modes : SwitchMode(k)
  \/ In("raide") /\ Raide!Next /\ Land
  \/ In("ilma") /\ Ilma!Next /\ Land
  \/ In("tie") /\ Tie!Next /\ Land
  \/ In("meri") /\ Meri!Next

Spec == Init /\ [][Next]_allvars

-----------------------------------------------------------------------------

Kinds == CASE mode = "raide" -> [train |-> Raide!Trains, station |-> Stations]
           [] mode = "ilma"  -> [aircraft |-> Aircraft, airport |-> Airports]
           [] mode = "tie"   -> [selection |-> Places]
           [] mode = "meri"  -> [vessel |-> Vessels, port |-> Ports, webcam |-> Webcams]

Fetchable == CASE mode = "raide" -> {"station"} \X Stations
               [] mode = "ilma"  -> {"aircraft"} \X Aircraft
               [] mode = "tie"   -> {}
               [] mode = "meri"  -> ({"vessel"} \X Vessels) \cup ({"port"} \X Ports)

(* Every page has selections and fetches of its own kinds, and none of the *)
(* page before it: leaving a mode leaves nothing behind.                   *)
TypeOK ==
  /\ screen \in Screens /\ view \in {"detail", "browse"} /\ browsed \in BOOLEAN
  /\ mode \in Modes \cup {None} /\ saved \in Modes \cup {None} /\ url \in Urls
  /\ mode # None =>
       /\ DOMAIN sel = DOMAIN Kinds
       /\ \A k \in DOMAIN sel : sel[k] \in Kinds[k] \cup {None}
       /\ folds \in [filter : BOOLEAN, detail : BOOLEAN]
       /\ panel \in Fetchable \cup {None}
       /\ loads \subseteq [of : Fetchable, live : BOOLEAN]

(* What is on the page is about one thing: at most one is selected, what   *)
(* the details show was fetched for it, however late it was answered, and  *)
(* the address bar names the selected vessel, or none outside Meri.        *)
OfSelection ==
  mode # None =>
    /\ Cardinality({k \in DOMAIN sel : sel[k] # None}) <= 1
    /\ panel # None => \E k \in DOMAIN sel : panel = <<k, sel[k]>>
    /\ IF mode = "meri" THEN url = sel.vessel ELSE url \notin Vessels

(* The phone's sheet shows the filters over a selection only if they were  *)
(* asked for over this very selection: one that is made, replaces another  *)
(* or comes back with the stream is not hidden by an earlier choice.       *)
BrowseWasAsked == HasSelection /\ view = "browse" => browsed

Answers ==
  \/ In("raide") /\ Raide!Answers /\ Land
  \/ In("ilma") /\ Ilma!Answers /\ Land
  \/ In("meri") /\ Meri!Answers

(* What the servers send leaves the visitor in peace: it neither selects,  *)
(* nor folds, nor moves the map, but for the flight to a linked vessel,    *)
(* which comes once; and it swaps the sheet only if what is selected comes *)
(* on display.                                                             *)
AnswersKeepSelection ==
  [][Answers =>
       /\ sel' = sel /\ folds' = folds
       /\ view' # view => lastKey = None /\ lastKey' # None
       /\ focus' # focus => /\ mode = "meri" /\ ship.link = sel.vessel
                            /\ focus' = sel.vessel /\ ship'.link = None
       /\ mode = "meri" => ship'.link \in {ship.link, None}]_allvars

(* A reload, or a crash of the browser, comes back to the same mode and to *)
(* the same vessel.                                                        *)
ReloadKeepsPlace ==
  [][mode # None /\ OpenPage(url) =>
       mode' = mode /\ (mode = "meri" => sel'.vessel = sel.vessel)]_allvars

Selects ==
  \/ In("raide") /\ Raide!Selects /\ Land
  \/ In("ilma") /\ Ilma!Selects /\ Land
  \/ In("tie") /\ Tie!Selects /\ Land

(* On a phone held upright, selecting something shows it. *)
SelectingShows == [][Selects /\ screen = "tall" => (HasSelection /\ DetailOpen)']_allvars
=============================================================================
