------------------------------ MODULE RaideApp ------------------------------
(***************************************************************************)
(* The page of the trains: a train or a station is selected; a station has *)
(* a board, fetched when it is selected and every 30 seconds after that.   *)
(***************************************************************************)
EXTENDS Panels

CONSTANTS Numbers, Dates,  \* what tells trains apart: number, date of departure
          Stations

Trains == Numbers \X Dates

(* Faulty: trains are known by their number. *)
FaultyTrainKey(t) == t[1]

TrainKey(t) == <<t[1], t[2]>>

Key(s) == CASE s.train # None   -> <<"train", TrainKey(s.train)>>
            [] s.station # None -> <<"station", s.station>>
            [] OTHER            -> None

Nothing == [train |-> None, station |-> None]

Mount == sel' = Nothing /\ Opened(None) /\ Unmount

Selected(s) ==
  /\ sel' = s /\ panel' = None
  /\ Rendered(Key(s), view)
  /\ UNCHANGED <<screen, focus>>

SelectTrain(t) ==
  /\ MapInSight \/ SearchInSight
  /\ Selected([Nothing EXCEPT !.train = t])
  /\ Refetches(None)
  /\ RevealDetail

(* The board's effect runs for another station, and for the same one if it *)
(* comes as another object, from a later answer of the server.             *)
SelectStation(s) ==
  /\ MapInSight \/ SearchInSight
  /\ Selected([Nothing EXCEPT !.station = s])
  /\ \/ Refetches(<<"station", s>>)
     \/ s = sel.station /\ UNCHANGED loads
  /\ RevealDetail

ClearSelection ==
  /\ HasSelection
  /\ Selected(Nothing)
  /\ Refetches(None)
  /\ UNCHANGED folds

(* The card of the selected train follows the poll of the trains; one that *)
(* stopped reporting keeps its last card.                                  *)
OnTrainsUpdate(next) ==
  /\ sel' = [sel EXCEPT !.train = Refound(@, next, [t \in Trains |-> TrainKey(t)])]
  /\ Rendered(Key(sel'), view)
  /\ UNCHANGED <<screen, folds, panel, loads, focus>>

RefreshBoard ==
  /\ sel.station # None
  /\ loads' = loads \cup {Request(<<"station", sel.station>>)}
  /\ UNCHANGED <<screen, sel, folds, view, lastKey, browsed, panel, focus>>

BoardAnswers(l, ok) == Answered(l, ok /\ l.live)

Answers ==
  \/ \E next \in SUBSET Trains : OnTrainsUpdate(next)
  \/ RefreshBoard
  \/ \E l \in loads, ok \in BOOLEAN : BoardAnswers(l, ok)

Selects == (\E t \in Trains : SelectTrain(t)) \/ (\E s \in Stations : SelectStation(s))

Next == Selects \/ ClearSelection \/ Answers \/ Panes
=============================================================================
