------------------------------- MODULE IlmaApp -------------------------------
(***************************************************************************)
(* The page of the aircraft: an aircraft or an airport is selected; an     *)
(* aircraft has a trail, fetched by the map.                               *)
(***************************************************************************)
EXTENDS Panels

CONSTANTS Aircraft, Airports

Key(s) == CASE s.aircraft # None -> <<"aircraft", s.aircraft>>
            [] s.airport # None  -> <<"airport", s.airport>>
            [] OTHER             -> None

Nothing == [aircraft |-> None, airport |-> None]

Mount == sel' = Nothing /\ Opened(None) /\ Unmount

(* fetchTrail of the map *)
FetchTrail(a) == loads' = IF a = None THEN loads ELSE loads \cup {Request(<<"aircraft", a>>)}

(* The selection, and the map's effect when it is about another aircraft:  *)
(* the trail starts empty and is fetched.                                  *)
Selected(s) ==
  /\ sel' = s
  /\ Rendered(Key(s), view)
  /\ IF s.aircraft = sel.aircraft THEN UNCHANGED <<panel, loads>>
                                  ELSE panel' = None /\ FetchTrail(s.aircraft)
  /\ UNCHANGED screen

Picked(s) == Selected(s) /\ RevealDetail

SelectAircraft(a) ==
  MapInSight /\ Picked([Nothing EXCEPT !.aircraft = a]) /\ UNCHANGED focus

SelectAirport(p) ==
  MapInSight /\ Picked([Nothing EXCEPT !.airport = p]) /\ UNCHANGED focus

(* From the search, and from the traffic listed for an airport. *)
SearchAircraft(a) ==
  /\ SearchInSight \/ (sel.airport # None /\ DetailOpen)
  /\ Picked([Nothing EXCEPT !.aircraft = a])
  /\ focus' = a

SearchAirport(p) ==
  SearchInSight /\ Picked([Nothing EXCEPT !.airport = p]) /\ focus' = p

ClearSelection == HasSelection /\ Selected(Nothing) /\ UNCHANGED <<folds, focus>>

(* The card of the selected aircraft follows the poll, by its hex. *)
OnAircraftUpdate(next) ==
  /\ sel' = [sel EXCEPT !.aircraft = Refound(@, next, [a \in Aircraft |-> a])]
  /\ Rendered(Key(sel'), view)
  /\ UNCHANGED <<screen, folds, panel, loads, focus>>

PollTrail ==
  /\ sel.aircraft # None /\ FetchTrail(sel.aircraft)
  /\ UNCHANGED <<screen, sel, folds, view, lastKey, browsed, panel, focus>>

(* The selection may have moved on meanwhile. *)
TrailAnswers(l, ok) == Answered(l, ok /\ l.of = <<"aircraft", sel.aircraft>>)

Answers ==
  \/ \E next \in SUBSET Aircraft : OnAircraftUpdate(next)
  \/ PollTrail
  \/ \E l \in loads, ok \in BOOLEAN : TrailAnswers(l, ok)

Selects ==
  \/ \E a \in Aircraft : SelectAircraft(a) \/ SearchAircraft(a)
  \/ \E p \in Airports : SelectAirport(p) \/ SearchAirport(p)

Next == Selects \/ ClearSelection \/ Answers \/ Panes
=============================================================================
