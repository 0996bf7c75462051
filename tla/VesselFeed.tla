----------------------------- MODULE VesselFeed -----------------------------
(***************************************************************************)
(* What the live stream promises a page (meri/ws/hub.go:102-193,           *)
(* useVesselData.ts:4-8): of each vessel its map shows the reports in      *)
(* the order in which they were written.  It may skip some and lag behind, *)
(* but it never goes back to an earlier one, over deltas, resyncs, skipped *)
(* messages and new connections, until the page is left.                   *)
(***************************************************************************)
EXTENDS Integers

CONSTANTS Vessels, Browsers

VARIABLES
  writes,   \* how many reports of the vessel have been written
  shown     \* the last of them a page has shown, 0 for none

feedVars == <<writes, shown>>

None == [v \in Vessels |-> 0]

FeedInit ==
  /\ writes = None
  /\ shown = [b \in Browsers |-> None]

Report(v) ==
  /\ writes' = [writes EXCEPT ![v] = @ + 1]
  /\ UNCHANGED shown

\* A page catches up with some vessels.
CatchUp(b) ==
  /\ \A v \in Vessels : shown'[b][v] \in shown[b][v] .. writes[v]
  /\ shown' = [shown EXCEPT ![b] = shown'[b]]
  /\ UNCHANGED writes

\* The page is left.
Leave(b) ==
  /\ shown' = [shown EXCEPT ![b] = None]
  /\ UNCHANGED writes

FeedNext ==
  \/ \E v \in Vessels : Report(v)
  \/ \E b \in Browsers : CatchUp(b) \/ Leave(b)

Feed == FeedInit /\ [][FeedNext]_feedVars
=============================================================================
