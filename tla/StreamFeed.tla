----------------------------- MODULE StreamFeed -----------------------------
(***************************************************************************)
(* From the cache to the page: StreamHub with the reports numbered.  The   *)
(* tag of a record is the number of its write among those of its vessel,   *)
(* whatever its time stamp: a report may be late, or change nothing but    *)
(* the name.  Two history variables say what was written and what a page   *)
(* has shown of it, which is what VesselFeed is about.                     *)
(***************************************************************************)
EXTENDS StreamHub

ASSUME FeedAssumption ==
  /\ NoTag = 0
  /\ \A r \in Records : r.tag \in Nat \ {0}

VARIABLES
  writes,   \* history: the number of the last write per vessel, deletions aside
  shown     \* history: the number of the last record on the page per vessel

history == <<writes, shown>>

Unseen == [v \in Vessels |-> 0]

FeedInit ==
  /\ Init
  /\ writes = Unseen
  /\ shown = [b \in Browsers |-> Unseen]

Report(v, r) ==
  /\ SetPosition(v, r)
  /\ r.tag = writes[v] + 1
  /\ writes' = [writes EXCEPT ![v] = @ + 1]
  /\ UNCHANGED shown

\* The page shows what came.  A vessel that is not on the map any more was
\* shown all the same.
Show(c) ==
  /\ Write(c)
  /\ shown' = [b \in Browsers |-> [v \in Vessels |->
                 IF view'[b][v] = Absent THEN shown[b][v] ELSE view'[b][v].tag]]
  /\ UNCHANGED writes

LeavePage(b) ==
  /\ Unmount(b)
  /\ shown' = [shown EXCEPT ![b] = Unseen]
  /\ UNCHANGED writes

Unnoticed ==
  /\ \/ Hub
     \/ \E c \in Conns : WriteTimeout(c) \/ LinkDown(c) \/ Leave(c)
     \/ \E b \in Browsers : OnClose(b) \/ \E c \in Conns : Connect(b, c)
     \/ \E v \in Vessels : DeletePosition(v)
  /\ UNCHANGED history

FeedNext ==
  \/ \E v \in Vessels, r \in Records : Report(v, r)
  \/ \E c \in Conns : Show(c)
  \/ \E b \in Browsers : LeavePage(b)
  \/ Unnoticed

FeedSpec == FeedInit /\ [][FeedNext]_<<vars, history>>

\* The fairness of the hub: numbering the reports delays nothing.
FairFeedSpec == FeedSpec /\ Fairness

-----------------------------------------------------------------------------
(* Properties.                                                             *)

\* A vessel on a page never goes back to an earlier report: not after a delta that
\* was skipped, not when only a resync tells of a report that came late, and not
\* when the page comes back on a new connection while the hub still serves the old
\* one (hub.go:102-193, 257-275, useWebSocket.ts:23-92, useVesselData.ts:12-25).
\* The stream implements VesselFeed.
Page == INSTANCE VesselFeed

KeepsOrder == Page!Feed
=============================================================================
