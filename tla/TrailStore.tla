----------------------------- MODULE TrailStore -----------------------------
(***************************************************************************)
(* meri/trail/store.go: the recorded history of vessel positions.          *)
(*                                                                         *)
(* Ingest calls Add from the goroutines of its two sources, and for the    *)
(* same vessel from both.  Add lets a fix through the gate of its vessel   *)
(* under the lock and queues it, without waiting, after the lock is        *)
(* released: in between the point is held by the caller alone, and points  *)
(* may be queued in another order than the gate let them through.  One     *)
(* writer goroutine moves queued points to a buffer and commits the buffer *)
(* when it is full, on a ticker, and a last time when the store is closed. *)
(* The rows survive the process; the rest does not.                        *)
(*                                                                         *)
(* Vessels share nothing but the queue and the buffer.  A point is a       *)
(* vessel, a time stamp and a fix, which stands for the rest.              *)
(***************************************************************************)
EXTENDS Integers, Sequences, SequencesExt, FiniteSets

CONSTANTS
  Callers,     \* the goroutines that call Add
  Vessels,
  Fixes,
  Interval,    \* intervalSec
  QueueCap,    \* capacity of ch
  BatchSize,   \* the buffer is flushed when it holds this many
  MaxTs        \* bound of the time stamps

ASSUME TrailAssumption ==
  /\ Interval \in Nat \ {0}
  /\ QueueCap \in Nat \ {0}
  /\ BatchSize \in Nat \ {0}
  /\ MaxTs \in Nat

VARIABLES
  rows,      \* the table
  gate,      \* lastTs: -1 when the vessel is not in the map
  held,      \* of each caller: the point it is about to queue, if any
  queue,     \* ch
  buf,       \* the writer's buffer
  store,     \* the store: "shut", "open", "closing"
  writer,    \* the writer goroutine: "off", "running", "draining"
  written,   \* history: what this process has committed, in order
  owed       \* history: what Close found queued or buffered, less what a
             \* failed flush has dropped

vars == <<rows, gate, held, queue, buf, store, writer, written, owed>>

Times == 1 .. MaxTs
Points == [v : Vessels, ts : Times, fix : Fixes]

TypeOK ==
  /\ rows \subseteq Points
  /\ \A p, q \in rows : (p.v = q.v /\ p.ts = q.ts) => p = q     \* the primary key
  /\ gate \in [Vessels -> Times \cup {-1}]
  /\ held \in [Callers -> SUBSET Points]
  /\ \A c \in Callers : \A p, q \in held[c] : p = q
  /\ queue \in Seq(Points) /\ Len(queue) <= QueueCap
  /\ buf \in Seq(Points) /\ (writer # "draining" => Len(buf) < BatchSize)
  /\ store \in {"shut", "open", "closing"}
  /\ writer \in {"off", "running", "draining"}
  /\ written \in Seq(Points)
  /\ owed \subseteq Points

Init ==
  /\ rows = {}
  /\ gate = [v \in Vessels |-> -1]
  /\ held = [c \in Callers |-> {}]
  /\ queue = <<>>
  /\ buf = <<>>
  /\ store = "shut"
  /\ writer = "off"
  /\ written = <<>>
  /\ owed = {}

-----------------------------------------------------------------------------
(* The process starts.                                                     *)

Open ==
  /\ store = "shut"
  /\ store' = "open"
  /\ writer' = "running"
  /\ UNCHANGED <<rows, gate, held, queue, buf, written, owed>>

-----------------------------------------------------------------------------
(* Ingest.                                                                 *)

\* gatePasses: the first fix of a vessel, or one that is Interval later.
Gate(v, ts) == gate[v] = -1 \/ ts - gate[v] >= Interval

\* Add, under the lock: the gate remembers the fix before it is queued.  Ingest
\* may still run while the store closes.
Pass(c, v, ts, fix) ==
  /\ store # "shut"
  /\ held[c] = {}
  /\ Gate(v, ts)
  /\ gate' = [gate EXCEPT ![v] = ts]
  /\ held' = [held EXCEPT ![c] = {[v |-> v, ts |-> ts, fix |-> fix]}]
  /\ UNCHANGED <<rows, queue, buf, store, writer, written, owed>>

\* Faulty: the gate is set once more when the point is queued.
SendMarks(c) ==
  \E p \in held[c] :
    /\ held' = [held EXCEPT ![c] = {}]
    /\ queue' = IF Len(queue) < QueueCap THEN Append(queue, p) ELSE queue
    /\ gate' = [gate EXCEPT ![p.v] = p.ts]
    /\ UNCHANGED <<rows, buf, store, writer, written, owed>>

\* Add, after the lock: the point is queued, or dropped when there is no room.
Send(c) ==
  \E p \in held[c] :
    /\ held' = [held EXCEPT ![c] = {}]
    /\ queue' = IF Len(queue) < QueueCap THEN Append(queue, p) ELSE queue
    /\ UNCHANGED <<rows, gate, buf, store, writer, written, owed>>

-----------------------------------------------------------------------------
(* The writer.                                                             *)

SameKey(p, q) == p.v = q.v /\ p.ts = q.ts

HasRow(table, p) == \E q \in table : SameKey(q, p)

\* INSERT OR IGNORE, point by point: a row with this key stays as it is.
Inserted(table, points) ==
  table \cup {points[i] : i \in {j \in DOMAIN points :
                /\ ~HasRow(table, points[j])
                /\ \A k \in 1 .. j - 1 : ~SameKey(points[k], points[j])}}

\* Faulty: no transaction, so a failure leaves a part of the buffer in the table.
FlushPointByPoint(points) ==
  /\ buf' = <<>>
  /\ \E n \in 0 .. Len(points) :
       /\ rows' = Inserted(rows, SubSeq(points, 1, n))
       /\ written' = written \o SubSeq(points, 1, n)
       /\ owed' = owed \ ToSet(SubSeq(points, n + 1, Len(points)))

\* One transaction for the whole buffer: it commits, or it fails and the points
\* are gone.  The buffer is empty either way.
Flush(points) ==
  /\ buf' = <<>>
  /\ \/ /\ rows' = Inserted(rows, points)
        /\ written' = written \o points
        /\ UNCHANGED owed
     \/ /\ points # <<>>
        /\ owed' = owed \ ToSet(points)
        /\ UNCHANGED <<rows, written>>

\* The writer takes a point; a full buffer is flushed.
Take ==
  /\ writer = "running"
  /\ queue # <<>>
  /\ queue' = Tail(queue)
  /\ LET points == Append(buf, Head(queue)) IN
       IF Len(points) >= BatchSize
       THEN Flush(points)
       ELSE /\ buf' = points
            /\ UNCHANGED <<rows, written, owed>>
  /\ UNCHANGED <<gate, held, store, writer>>

\* Faulty: only a full buffer is flushed.
TickWaitsForFull ==
  /\ writer = "running"
  /\ Len(buf) >= BatchSize
  /\ Flush(buf)
  /\ UNCHANGED <<gate, held, queue, store, writer>>

\* The ticker flushes what there is.
Tick ==
  /\ writer = "running"
  /\ buf # <<>>
  /\ Flush(buf)
  /\ UNCHANGED <<gate, held, queue, store, writer>>

\* The writer sees that the store closes ...
StartDraining ==
  /\ writer = "running"
  /\ store = "closing"
  /\ writer' = "draining"
  /\ UNCHANGED <<rows, gate, held, queue, buf, store, written, owed>>

\* ... takes everything that is queued ...
Drain ==
  /\ writer = "draining"
  /\ queue # <<>>
  /\ buf' = Append(buf, Head(queue))
  /\ queue' = Tail(queue)
  /\ UNCHANGED <<rows, gate, held, store, writer, written, owed>>

\* Faulty: the writer flushes its buffer and leaves the queue.
LastFlushEarly ==
  /\ writer = "draining"
  /\ Flush(buf)
  /\ writer' = "off"
  /\ UNCHANGED <<gate, held, queue, store>>

\* Faulty: with nothing to flush the writer does not end.
LastFlushOfSome ==
  /\ writer = "draining"
  /\ queue = <<>>
  /\ buf # <<>>
  /\ Flush(buf)
  /\ writer' = "off"
  /\ UNCHANGED <<gate, held, queue, store>>

\* ... flushes, and ends.
LastFlush ==
  /\ writer = "draining"
  /\ queue = <<>>
  /\ Flush(buf)
  /\ writer' = "off"
  /\ UNCHANGED <<gate, held, queue, store>>

-----------------------------------------------------------------------------
(* The process stops.                                                      *)

\* Close tells the writer and waits for it.
Close ==
  /\ store = "open"
  /\ store' = "closing"
  /\ owed' = ToSet(queue) \cup ToSet(buf)
  /\ UNCHANGED <<rows, gate, held, queue, buf, writer, written>>

\* With the process goes what it kept in memory.
Exit ==
  /\ store' = "shut"
  /\ writer' = "off"
  /\ gate' = [v \in Vessels |-> -1]
  /\ held' = [c \in Callers |-> {}]
  /\ queue' = <<>>
  /\ buf' = <<>>
  /\ written' = <<>>
  /\ owed' = {}
  /\ UNCHANGED rows

\* The writer has ended: the database is closed and the process exits.
Closed ==
  /\ store = "closing"
  /\ writer = "off"
  /\ Exit

\* The process is killed: a transaction that was not committed is undone.
Crash ==
  /\ store # "shut"
  /\ Exit

-----------------------------------------------------------------------------
\* Retention: rows older than a time stamp are deleted.
Prune(before) ==
  /\ store # "shut"
  /\ rows' = {p \in rows : p.ts >= before}
  /\ UNCHANGED <<gate, held, queue, buf, store, writer, written, owed>>

Next ==
  \/ Open
  \/ \E c \in Callers, v \in Vessels, ts \in Times, fix \in Fixes : Pass(c, v, ts, fix)
  \/ \E c \in Callers : Send(c)
  \/ Take \/ Tick \/ StartDraining \/ Drain \/ LastFlush
  \/ Close \/ Closed \/ Crash
  \/ \E before \in Times : Prune(before)

Spec == Init /\ [][Next]_vars

\* Callers and the writer run, the send does not block, and the writer's select
\* serves every channel that is ready.
Fairness ==
  /\ \A c \in Callers : WF_vars(Send(c))
  /\ WF_vars(Take) /\ WF_vars(Tick) /\ WF_vars(StartDraining)
  /\ WF_vars(Drain) /\ WF_vars(LastFlush) /\ WF_vars(Closed)

FairSpec == Spec /\ Fairness

-----------------------------------------------------------------------------
(* Properties.                                                             *)

\* Two points of a vessel are Interval apart, either way.
Apart(p, q) ==
  p.v = q.v => (q.ts - p.ts >= Interval \/ p.ts - q.ts >= Interval)

\* What one process records of a vessel is Interval apart all the way from the
\* gate to the table, whichever caller holds a point, in whatever order the
\* callers queue theirs and whatever is dropped in between; and none of it is
\* later than the gate (store.go:108-136).
RecordedSpaced ==
  LET track == written \o buf \o queue IN
  /\ \A i, j \in DOMAIN track : i < j => Apart(track[i], track[j])
  /\ \A i \in DOMAIN track : track[i].ts <= gate[track[i].v]
  /\ \A c \in Callers : \A p \in held[c] :
       /\ p.ts <= gate[p.v]
       /\ \A i \in DOMAIN track : Apart(p, track[i])
       /\ \A d \in Callers \ {c} : \A q \in held[d] : Apart(p, q)

\* "Close stops the writer, flushing any queued points" (store.go:368): when the
\* writer has ended, what Close found has been committed, save for what a failed
\* transaction dropped.  A point a caller held when Close was called is not
\* among it.
CloseFlushes == (store = "closing" /\ writer = "off") => owed \subseteq ToSet(written)

\* A committed row never changes, and leaves only because it is old: every row
\* that stays is younger (store.go:151-152, 337-346).  It follows from KeepsLog
\* below and is proved for itself.
RowsStay ==
  [][\A p \in rows \ rows' : /\ ~HasRow(rows', p)
                             /\ \A q \in rows' : q.ts > p.ts]_rows

\* From the queue on the store is a log (store.go:51-75, 188-201): through the
\* buffer to the table points stay in the order they were queued, a batch is
\* committed whole or not at all, and what is lost is one point that found no
\* room, a whole batch, or all there is when the process ends.  What the gate
\* has let through is queued once or dropped.  The store implements TrailLog.
InHand == UNION {held[c] : c \in Callers}

Store == INSTANCE TrailLog WITH passed <- InHand, pending <- buf \o queue, last <- gate

KeepsLog == Store!Log

\* A point that passed the gate does not stay in memory: it is committed or
\* dropped.
Pending(v, ts) == \E p \in InHand \cup ToSet(queue \o buf) : p.v = v /\ p.ts = ts
NothingLingers == \A v \in Vessels, ts \in Times : Pending(v, ts) ~> ~Pending(v, ts)

\* Close returns, also when ingest adds a little more while the writer drains.
\* MaxTs leaves it finitely many points to add: the loop that drains the queue
\* ends only when it finds it empty (store.go:156-163).
CloseReturns == store = "closing" ~> store = "shut"

\* "intervalSec is the minimum spacing between recorded points per vessel"
\* (store.go:73-75).
Spaced ==
  \A p, q \in rows : (p.v = q.v /\ p.ts < q.ts) => q.ts - p.ts >= Interval

=============================================================================
