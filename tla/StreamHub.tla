----------------------------- MODULE StreamHub -----------------------------
(***************************************************************************)
(* The live vessel stream: meri/ws/hub.go on the server, the hooks         *)
(* useWebSocket.ts and useVesselData.ts in the browser.                    *)
(*                                                                         *)
(* The hub is one goroutine that handles registrations, deregistrations    *)
(* and ticks one at a time, so each of them is one action here: it reads   *)
(* the cache once, and its sends never block.  Around it run, per          *)
(* connection, the HTTP handler (register, read until the link breaks,     *)
(* deregister) and the writer that empties the client's channel, and, per  *)
(* browser, the socket that reconnects and the vessel map it fills.        *)
(* A browser may reconnect before the server notices that the old link is  *)
(* dead, so one browser can own several registered clients for a while.    *)
(*                                                                         *)
(* The cache belongs to the ingest side: here any record may be written or *)
(* deleted at any time.  A record is its time stamp, which the hub reads,  *)
(* and a tag for everything else, which the hub passes on unread.          *)
(***************************************************************************)
EXTENDS Integers, Sequences

CONSTANTS
  Vessels,        \* the MMSIs
  Browsers,       \* open tabs
  Conns,          \* connections alive at one time
  NoConn,
  Records,        \* the records that may be cached: [ts, tag]
  NoTag,
  QueueCap,       \* capacity of Client.send
  ResyncInterval  \* ticks between two full snapshots

ASSUME HubAssumption ==
  /\ NoConn \notin Conns
  /\ QueueCap \in Nat \ {0}
  /\ ResyncInterval \in Nat \ {0}
  /\ \A r \in Records : r = [ts |-> r.ts, tag |-> r.tag] /\ r.ts \in Nat

VARIABLES
  cache,     \* the cached record per vessel, or Absent
  hubUp,     \* Run has not returned
  clients,   \* h.clients
  lastSent,  \* h.lastSent: time stamp per vessel, -1 when not in the map
  ticks,     \* tickCount modulo ResyncInterval
  send,      \* Client.send
  closed,    \* Client.send is closed
  handler,   \* where the connection's handler is
  writer,    \* the connection's writer goroutine runs
  link,      \* the connection works
  socket,    \* socketRef: the connection of each browser
  view,      \* the vessel map of each browser
  told,      \* history: the map a client will have when its channel is empty
  based      \* history: the client got a snapshot that lastSent was set to,
             \* and no message since then was skipped

hubVars == <<hubUp, clients, lastSent, ticks, closed, told, based>>
vars == <<cache, hubUp, clients, lastSent, ticks, send, closed, handler, writer, link,
          socket, view, told, based>>

Absent == [ts |-> -1, tag |-> NoTag]
Map == [Vessels -> Records \cup {Absent}]
Empty == [v \in Vessels |-> Absent]
Message == [type : {"snapshot", "delta"}, vessels : Map, removed : SUBSET Vessels]

TypeOK ==
  /\ cache \in Map
  /\ hubUp \in BOOLEAN
  /\ clients \subseteq Conns
  /\ lastSent \in [Vessels -> {r.ts : r \in Records} \cup {-1}]
  /\ ticks \in 0 .. ResyncInterval - 1
  /\ send \in [Conns -> Seq(Message)]
  /\ \A c \in Conns : Len(send[c]) <= QueueCap
  /\ closed \in [Conns -> BOOLEAN]
  /\ handler \in [Conns -> {"none", "registering", "reading", "leaving"}]
  /\ writer \in [Conns -> BOOLEAN]
  /\ link \in [Conns -> BOOLEAN]
  /\ socket \in [Browsers -> Conns \cup {NoConn}]
  /\ view \in [Browsers -> Map]
  /\ told \in [Conns -> Map]
  /\ based \in [Conns -> BOOLEAN]

Init ==
  /\ cache = Empty
  /\ hubUp = TRUE
  /\ clients = {}
  /\ lastSent = [v \in Vessels |-> -1]
  /\ ticks = 0
  /\ send = [c \in Conns |-> <<>>]
  /\ closed = [c \in Conns |-> TRUE]
  /\ handler = [c \in Conns |-> "none"]
  /\ writer = [c \in Conns |-> FALSE]
  /\ link = [c \in Conns |-> FALSE]
  /\ socket = [b \in Browsers |-> NoConn]
  /\ view = [b \in Browsers |-> Empty]
  /\ told = [c \in Conns |-> Empty]
  /\ based = [c \in Conns |-> FALSE]

-----------------------------------------------------------------------------
(* Messages.                                                               *)

TsMap(m) == [v \in Vessels |-> m[v].ts]

Snapshot == [type |-> "snapshot", vessels |-> cache, removed |-> {}]

\* Faulty: a vessel that left the cache is not reported.
DeltaKeepsRemoved(sent) ==
  [type |-> "delta",
   vessels |-> [v \in Vessels |-> IF cache[v].ts > sent[v] THEN cache[v] ELSE Absent],
   removed |-> {}]

\* What changed since sent: newer time stamps, and vessels no longer cached.
Delta(sent) ==
  [type |-> "delta",
   vessels |-> [v \in Vessels |-> IF cache[v].ts > sent[v] THEN cache[v] ELSE Absent],
   removed |-> {v \in Vessels : sent[v] # -1 /\ cache[v] = Absent}]

IsEmpty(msg) == msg.vessels = Empty /\ msg.removed = {}

\* handleMessage of useVesselData: a snapshot replaces the map, a delta is
\* merged into it and then deletes what was removed.
Apply(map, msg) ==
  IF msg.type = "snapshot" THEN msg.vessels
  ELSE [v \in Vessels |->
          IF v \in msg.removed THEN Absent
          ELSE IF msg.vessels[v] # Absent THEN msg.vessels[v] ELSE map[v]]

\* Faulty: a client whose channel is full gets the message in place of the
\* oldest one it has not read.
PublishDroppingOldest(msg, rebase, to) ==
  /\ send' = [c \in Conns |-> IF c \notin to THEN send[c]
                              ELSE IF Len(send[c]) < QueueCap THEN Append(send[c], msg)
                              ELSE Append(Tail(send[c]), msg)]
  /\ told' = [c \in Conns |-> IF c \in to THEN Apply(told[c], msg) ELSE told[c]]
  /\ based' = [c \in Conns |-> IF c \in to THEN rebase \/ based[c] ELSE based[c]]

\* Faulty: the queue of a client has no limit.
PublishUnbounded(msg, rebase, to) ==
  /\ send' = [c \in Conns |-> IF c \in to THEN Append(send[c], msg) ELSE send[c]]
  /\ told' = [c \in Conns |-> IF c \in to THEN Apply(told[c], msg) ELSE told[c]]
  /\ based' = [c \in Conns |-> IF c \in to THEN rebase \/ based[c] ELSE based[c]]

\* The non-blocking send to each client of a set: full channels are skipped.
\* rebase tells that lastSent becomes the time stamps of this very message.
Publish(msg, rebase, to) ==
  LET room == {c \in to : Len(send[c]) < QueueCap} IN
  /\ send' = [c \in Conns |-> IF c \in room THEN Append(send[c], msg) ELSE send[c]]
  /\ told' = [c \in Conns |-> IF c \in room THEN Apply(told[c], msg) ELSE told[c]]
  /\ based' = [c \in Conns |-> IF c \in to THEN c \in room /\ (rebase \/ based[c])
                               ELSE based[c]]

-----------------------------------------------------------------------------
(* The hub.                                                                *)

\* A registration: the client is added and gets a snapshot of its own; lastSent
\* is rebased to it only when the client is alone.
Register(c) ==
  /\ hubUp
  /\ handler[c] = "registering"
  /\ handler' = [handler EXCEPT ![c] = "reading"]
  /\ writer' = [writer EXCEPT ![c] = TRUE]
  /\ clients' = clients \cup {c}
  /\ \/ /\ Publish(Snapshot, clients' = {c}, {c})
        /\ lastSent' = IF clients' = {c} THEN TsMap(cache) ELSE lastSent
     \/ UNCHANGED <<lastSent, send, told, based>>  \* the cache did not answer
  /\ UNCHANGED <<cache, hubUp, ticks, closed, link, socket, view>>

\* Faulty: the channel is closed and the client stays in the set.
UnregisterKeepsClient(c) ==
  /\ hubUp
  /\ handler[c] = "leaving"
  /\ handler' = [handler EXCEPT ![c] = "none"]
  /\ closed' = [closed EXCEPT ![c] = TRUE]
  /\ UNCHANGED <<cache, hubUp, clients, lastSent, ticks, send, writer, link, socket, view,
                 told, based>>

\* A deregistration: the client is removed and its channel closed, and the
\* handler closes the connection and returns.
Unregister(c) ==
  /\ hubUp
  /\ handler[c] = "leaving"
  /\ handler' = [handler EXCEPT ![c] = "none"]
  /\ clients' = clients \ {c}
  /\ closed' = [closed EXCEPT ![c] = TRUE]
  /\ send' = [send EXCEPT ![c] = <<>>]
  /\ told' = [told EXCEPT ![c] = Empty]
  /\ based' = [based EXCEPT ![c] = FALSE]
  /\ UNCHANGED <<cache, hubUp, lastSent, ticks, writer, link, socket, view>>

NextTick == (ticks + 1) % ResyncInterval

\* A tick that nobody hears of: no client, no answer from the cache, or, between
\* resyncs, nothing new.  lastSent stays as it is.
QuietTick ==
  /\ hubUp
  /\ ticks' = NextTick
  /\ UNCHANGED <<cache, hubUp, clients, lastSent, send, closed, handler, writer, link,
                 socket, view, told, based>>

\* Faulty: there is no resync.
ResyncNever == QuietTick

\* Every ResyncInterval-th tick sends the whole fleet to everyone.
Resync ==
  /\ hubUp
  /\ NextTick = 0
  /\ clients # {}
  /\ ticks' = NextTick
  /\ lastSent' = TsMap(cache)
  /\ Publish(Snapshot, TRUE, clients)
  /\ UNCHANGED <<cache, hubUp, clients, closed, handler, writer, link, socket, view>>

\* The other ticks send what changed since lastSent.
DeltaTick ==
  /\ hubUp
  /\ NextTick # 0
  /\ clients # {}
  /\ ~IsEmpty(Delta(lastSent))
  /\ ticks' = NextTick
  /\ lastSent' = TsMap(cache)
  /\ Publish(Delta(lastSent), FALSE, clients)
  /\ UNCHANGED <<cache, hubUp, clients, closed, handler, writer, link, socket, view>>

\* ctx is cancelled: Run returns, and nobody serves the two channels any more.
Stop ==
  /\ hubUp
  /\ hubUp' = FALSE
  /\ UNCHANGED <<cache, clients, lastSent, ticks, send, closed, handler, writer, link,
                 socket, view, told, based>>

-----------------------------------------------------------------------------
(* A connection: its writer and its handler.                               *)

\* Faulty: what came last is written first.
WriteNewestFirst(c) ==
  /\ writer[c]
  /\ send[c] # <<>>
  /\ send' = [send EXCEPT ![c] = SubSeq(@, 1, Len(@) - 1)]
  /\ IF link[c]
     THEN /\ view' = [b \in Browsers |-> IF socket[b] = c
                                         THEN Apply(view[b], send[c][Len(send[c])])
                                         ELSE view[b]]
          /\ UNCHANGED writer
     ELSE /\ writer' = [writer EXCEPT ![c] = FALSE]
          /\ UNCHANGED view
  /\ UNCHANGED <<cache, hubVars, handler, link, socket>>

\* The writer takes the next message and writes it; the browser that still has
\* this socket handles it.  On a dead link the write fails and the writer ends.
Write(c) ==
  /\ writer[c]
  /\ send[c] # <<>>
  /\ send' = [send EXCEPT ![c] = Tail(@)]
  /\ IF link[c]
     THEN /\ view' = [b \in Browsers |-> IF socket[b] = c THEN Apply(view[b], Head(send[c]))
                                         ELSE view[b]]
          /\ UNCHANGED writer
     ELSE /\ writer' = [writer EXCEPT ![c] = FALSE]
          /\ UNCHANGED view
  /\ UNCHANGED <<cache, hubVars, handler, link, socket>>

\* The write takes more than three seconds: the library closes the connection.
WriteTimeout(c) ==
  /\ writer[c]
  /\ send[c] # <<>>
  /\ link[c]
  /\ send' = [send EXCEPT ![c] = Tail(@)]
  /\ writer' = [writer EXCEPT ![c] = FALSE]
  /\ link' = [link EXCEPT ![c] = FALSE]
  /\ UNCHANGED <<cache, hubVars, handler, socket, view>>

LinkDown(c) ==
  /\ link[c]
  /\ link' = [link EXCEPT ![c] = FALSE]
  /\ UNCHANGED <<cache, hubVars, send, handler, writer, socket, view>>

\* The read loop ends; the deferred calls cancel the writer and ask the hub to
\* deregister the client.
Leave(c) ==
  /\ handler[c] = "reading"
  /\ ~link[c]
  /\ handler' = [handler EXCEPT ![c] = "leaving"]
  /\ writer' = [writer EXCEPT ![c] = FALSE]
  /\ UNCHANGED <<cache, hubVars, send, link, socket, view>>

-----------------------------------------------------------------------------
(* The browser, and the cache.                                             *)

\* connect, at the start and after the reconnect delay.
Connect(b, c) ==
  /\ socket[b] = NoConn
  /\ handler[c] = "none"
  /\ \A d \in Browsers : socket[d] # c
  /\ socket' = [socket EXCEPT ![b] = c]
  /\ handler' = [handler EXCEPT ![c] = "registering"]
  /\ link' = [link EXCEPT ![c] = TRUE]
  /\ closed' = [closed EXCEPT ![c] = FALSE]
  /\ told' = [told EXCEPT ![c] = view[b]]
  /\ UNCHANGED <<cache, hubUp, clients, lastSent, ticks, send, writer, view, based>>

\* onclose: the map stays on the screen.
OnClose(b) ==
  /\ socket[b] # NoConn
  /\ ~link[socket[b]]
  /\ socket' = [socket EXCEPT ![b] = NoConn]
  /\ UNCHANGED <<cache, hubVars, send, handler, writer, link, view>>

\* The component unmounts: the socket is closed and the map is gone.
Unmount(b) ==
  /\ socket' = [socket EXCEPT ![b] = NoConn]
  /\ link' = [c \in Conns |-> link[c] /\ c # socket[b]]
  /\ view' = [view EXCEPT ![b] = Empty]
  /\ UNCHANGED <<cache, hubVars, send, handler, writer>>

SetPosition(v, r) ==
  /\ cache' = [cache EXCEPT ![v] = r]
  /\ UNCHANGED <<hubVars, send, handler, writer, link, socket, view>>

DeletePosition(v) ==
  /\ cache' = [cache EXCEPT ![v] = Absent]
  /\ UNCHANGED <<hubVars, send, handler, writer, link, socket, view>>

-----------------------------------------------------------------------------
Hub ==
  \/ \E c \in Conns : Register(c) \/ Unregister(c)
  \/ QuietTick \/ Resync \/ DeltaTick \/ Stop

Connection(c) == Write(c) \/ WriteTimeout(c) \/ LinkDown(c) \/ Leave(c)

Browser(b) ==
  \/ \E c \in Conns : Connect(b, c)
  \/ OnClose(b)
  \/ Unmount(b)

Cache == \E v \in Vessels : DeletePosition(v) \/ \E r \in Records : SetPosition(v, r)

Next ==
  \/ Hub
  \/ \E c \in Conns : Connection(c)
  \/ \E b \in Browsers : Browser(b)
  \/ Cache

Spec == Init /\ [][Next]_vars

\* The ticker fires, goroutines run, and not every resync meets a cache that
\* does not answer.
Fairness ==
  /\ WF_vars(QuietTick \/ Resync \/ DeltaTick)
  /\ SF_vars(Resync)
  /\ \A c \in Conns : WF_vars(Register(c)) /\ WF_vars(Write(c))

FairSpec == Spec /\ Fairness

-----------------------------------------------------------------------------
(* Properties.                                                             *)

\* A send on a closed channel panics, and with it the whole backend: the hub
\* only ever sends to clients whose channel is open (hub.go:87-94, 186-192).
NoSendOnClosed == \A c \in clients : ~closed[c]

\* One message of queue after the other turns map into end.
Turns(map, queue, end) ==
  \E after \in [0..Len(queue) -> Map] :
    /\ after[0] = map /\ after[Len(queue)] = end
    /\ \A i \in 1..Len(queue) : after[i] = Apply(after[i - 1], queue[i])

\* The channel is FIFO and nothing else writes the map: once the browser has
\* read what is queued, it has the map the hub last told this client.
ToldArrives ==
  \A b \in Browsers : \A c \in Conns :
    (socket[b] = c /\ link[c] /\ c \in clients) => Turns(view[b], send[c], told[c])

\* Deltas are computed against one lastSent for all clients.  A client that got
\* a snapshot lastSent was set to, and no skipped message since, has exactly the
\* vessels of lastSent, none of them older: nothing is missing, nothing is left over.
BasedTracksHub ==
  \A c \in clients : based[c] =>
    \A v \in Vessels :
      /\ told[c][v] = Absent <=> lastSent[v] = -1
      /\ told[c][v].ts >= lastSent[v]

Connected(b, c) == hubUp /\ socket[b] = c /\ link[c]

\* "every N ticks all clients get a full snapshot as a safety valve against
\* missed deltas" (hub.go:28-29): when the cache stops changing, every browser
\* that stays connected ends up with the cache, whatever it missed before.
Converges ==
  \A b \in Browsers, c \in Conns :
    (<>[][FALSE]_cache /\ <>[]Connected(b, c)) => <>[](view[b] = cache)

=============================================================================
