------------------------------ MODULE TrailLog ------------------------------
(***************************************************************************)
(* What TrailStore promises ingest and the readers of the table            *)
(* (meri/trail/store.go:51-75, 108-136, 188-201): a log behind a gate.  A  *)
(* point passes the gate when it is the first of its vessel or Interval    *)
(* after the last one that did.  Points that have passed enter the log     *)
(* once each, in any order, or are dropped.  What is in the log reaches    *)
(* the table in its order, a batch at a time and each batch as a whole or  *)
(* not at all; a row of the table is never written again.                  *)
(***************************************************************************)
EXTENDS Integers, Sequences

CONSTANTS Vessels, Points, Interval

VARIABLES
  rows,      \* the table
  passed,    \* the points that have passed the gate and are not in the log
  pending,   \* the log: what is not yet in the table
  last       \* the last point of the vessel that passed, or -1

logVars == <<rows, passed, pending, last>>

Nothing == [v \in Vessels |-> -1]

LogInit ==
  /\ rows = {}
  /\ passed = {}
  /\ pending = <<>>
  /\ last = Nothing

Accept(p) ==
  /\ last[p.v] = -1 \/ p.ts - last[p.v] >= Interval
  /\ last' = [last EXCEPT ![p.v] = p.ts]
  /\ passed' = passed \cup {p}
  /\ UNCHANGED <<rows, pending>>

\* There may be no room for the point.
Enter(p) ==
  /\ passed' = passed \ {p}
  /\ pending' \in {pending, Append(pending, p)}
  /\ UNCHANGED <<rows, last>>

Batch(n) == {pending[i] : i \in 1 .. n}

\* A point with the vessel and the time stamp of a row is not recorded again.
Unrecorded(p) == \A q \in rows : ~(q.v = p.v /\ q.ts = p.ts)

Commit(n) ==
  /\ rows' = rows \cup {p \in Batch(n) : Unrecorded(p)}
  /\ pending' = SubSeq(pending, n + 1, Len(pending))
  /\ UNCHANGED <<passed, last>>

Fail(n) ==
  /\ pending' = SubSeq(pending, n + 1, Len(pending))
  /\ UNCHANGED <<rows, passed, last>>

\* The process ends.
Forget ==
  /\ passed' = {}
  /\ pending' = <<>>
  /\ last' = Nothing
  /\ UNCHANGED rows

\* Retention.
Expire ==
  /\ rows' \subseteq rows
  /\ \A p \in rows \ rows', q \in rows' : p.ts < q.ts
  /\ UNCHANGED <<passed, pending, last>>

LogNext ==
  \/ \E p \in Points : Accept(p)
  \/ \E p \in passed : Enter(p)
  \/ \E n \in 1 .. Len(pending) : Commit(n) \/ Fail(n)
  \/ Forget
  \/ Expire

Log == LogInit /\ [][LogNext]_logVars
=============================================================================
