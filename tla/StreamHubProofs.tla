-------------------------- MODULE StreamHubProofs --------------------------
(***************************************************************************)
(* What StreamHub keeps for every number of vessels, browsers, connections *)
(* and records, every channel capacity and every resync interval.          *)
(*                                                                         *)
(* Converges is a liveness property and stays with TLC.                    *)
(***************************************************************************)
EXTENDS StreamHub, TLAPS

\* The time stamps lastSent may hold.
Stamps == {r.ts : r \in Records} \cup {-1}

\* A client is in the set only between the two requests of its handler, its
\* channel is open as long as there is a handler, and only a client is based.
ClientsHandled ==
  \A c \in Conns :
    /\ c \in clients => handler[c] \in {"reading", "leaving"}
    /\ handler[c] # "none" => ~closed[c]
    /\ based[c] => c \in clients

HubInv == TypeOK /\ NoSendOnClosed /\ ClientsHandled /\ BasedTracksHub

\* A record has a time stamp that is a natural number, so it is not Absent.
LEMMA RecordTs ==
  \A r \in Records \cup {Absent} :
    /\ r.ts \in Stamps /\ r.ts \in Int
    /\ r = Absent <=> r.ts = -1
    /\ r # Absent => r.ts \in Nat
BY HubAssumption DEF Stamps, Absent

\* The three shapes a map can be updated to stay maps.
LEMMA MessageTypes ==
  ASSUME cache \in Map, lastSent \in [Vessels -> Stamps]
  PROVE  /\ TsMap(cache) \in [Vessels -> Stamps]
         /\ Snapshot \in Message
         /\ Delta(lastSent) \in Message
<1>1. TsMap(cache) \in [Vessels -> Stamps]
  BY RecordTs DEF Map, TsMap
<1>2. Snapshot \in Message
  BY DEF Snapshot, Message
<1>3. Delta(lastSent) \in Message
  <2>1. [v \in Vessels |-> IF cache[v].ts > lastSent[v] THEN cache[v] ELSE Absent] \in Map
    BY DEF Map
  <2>2. {v \in Vessels : lastSent[v] # -1 /\ cache[v] = Absent} \in SUBSET Vessels
    OBVIOUS
  <2> QED BY <2>1, <2>2 DEF Delta, Message
<1> QED BY <1>1, <1>2, <1>3

\* Handling a message leaves a map a map.
LEMMA ApplyType ==
  ASSUME NEW map \in Map, NEW msg \in Message
  PROVE  Apply(map, msg) \in Map
<1>1. msg.vessels \in Map
  BY DEF Message
<1> QED BY <1>1 DEF Apply, Map

\* A send to a set of clients keeps the channels within their capacity.
LEMMA PublishType ==
  ASSUME TypeOK, NEW msg \in Message, NEW rebase \in BOOLEAN, NEW to \in SUBSET Conns,
         Publish(msg, rebase, to)
  PROVE  /\ send' \in [Conns -> Seq(Message)]
         /\ \A c \in Conns : Len(send'[c]) <= QueueCap
         /\ told' \in [Conns -> Map]
         /\ based' \in [Conns -> BOOLEAN]
<1>1. told' \in [Conns -> Map]
  <2>1. \A c \in Conns : told[c] \in Map /\ Apply(told[c], msg) \in Map
    BY ApplyType DEF TypeOK
  <2> QED BY <2>1 DEF Publish
<1>2. based' \in [Conns -> BOOLEAN]
  BY DEF Publish, TypeOK
<1>3. \A c \in Conns : /\ send[c] \in Seq(Message)
                       /\ Append(send[c], msg) \in Seq(Message)
                       /\ Len(Append(send[c], msg)) = Len(send[c]) + 1
                       /\ Len(send[c]) \in Nat
  BY DEF TypeOK
<1>4. send' \in [Conns -> Seq(Message)]
  BY <1>3 DEF Publish, TypeOK
<1>5. ASSUME NEW c \in Conns
      PROVE  Len(send'[c]) <= QueueCap
  <2>1. Len(send[c]) <= QueueCap /\ QueueCap \in Nat
    BY HubAssumption DEF TypeOK
  <2>2. CASE c \in to /\ Len(send[c]) < QueueCap
    <3>1. send'[c] = Append(send[c], msg)
      BY <2>2 DEF Publish
    <3> QED BY <3>1, <2>2, <2>1, <1>3
  <2>3. CASE ~(c \in to /\ Len(send[c]) < QueueCap)
    <3>1. send'[c] = send[c]
      BY <2>3 DEF Publish
    <3> QED BY <3>1, <2>1
  <2> QED BY <2>2, <2>3
<1> QED BY <1>1, <1>2, <1>4, <1>5

-----------------------------------------------------------------------------
(* One step keeps the types.                                               *)

LEMMA TypeInit == Init => TypeOK
<1> SUFFICES ASSUME Init PROVE TypeOK
  OBVIOUS
<1>1. Empty \in Map
  BY DEF Empty, Map
<1>2. ticks \in 0 .. ResyncInterval - 1
  BY HubAssumption DEF Init
<1>3. send \in [Conns -> Seq(Message)] /\ \A c \in Conns : Len(send[c]) <= QueueCap
  BY HubAssumption DEF Init
<1> QED BY <1>1, <1>2, <1>3 DEF Init, TypeOK

LEMMA TypeHub ==
  ASSUME TypeOK, Hub
  PROVE  TypeOK'
<1>0. /\ lastSent \in [Vessels -> Stamps]
      /\ cache \in Map
      /\ NextTick \in 0 .. ResyncInterval - 1
  BY HubAssumption DEF TypeOK, Stamps, NextTick
<1>m. TsMap(cache) \in [Vessels -> Stamps] /\ Snapshot \in Message /\ Delta(lastSent) \in Message
  BY <1>0, MessageTypes
<1>1. ASSUME NEW c \in Conns, Register(c)
      PROVE  TypeOK'
  <2>1. /\ handler' \in [Conns -> {"none", "registering", "reading", "leaving"}]
        /\ writer' \in [Conns -> BOOLEAN]
        /\ clients' \subseteq Conns
    BY <1>1 DEF Register, TypeOK
  <2>2. CASE /\ Publish(Snapshot, clients' = {c}, {c})
             /\ lastSent' = IF clients' = {c} THEN TsMap(cache) ELSE lastSent
    <3>1. /\ send' \in [Conns -> Seq(Message)]
          /\ \A d \in Conns : Len(send'[d]) <= QueueCap
          /\ told' \in [Conns -> Map]
          /\ based' \in [Conns -> BOOLEAN]
      BY <2>2, <1>m, PublishType
    <3>2. lastSent' \in [Vessels -> Stamps]
      BY <2>2, <1>0, <1>m
    <3> QED BY <1>1, <2>1, <3>1, <3>2 DEF Register, TypeOK, Stamps
  <2>3. CASE UNCHANGED <<lastSent, send, told, based>>
    BY <1>1, <2>1, <2>3 DEF Register, TypeOK
  <2> QED BY <1>1, <2>2, <2>3 DEF Register
<1>2. ASSUME NEW c \in Conns, Unregister(c)
      PROVE  TypeOK'
  <2>1. Empty \in Map /\ <<>> \in Seq(Message) /\ Len(<<>>) <= QueueCap
    BY HubAssumption DEF Empty, Map
  <2>2. /\ send' \in [Conns -> Seq(Message)]
        /\ \A d \in Conns : Len(send'[d]) <= QueueCap
    BY <1>2, <2>1 DEF Unregister, TypeOK
  <2> QED BY <1>2, <2>1, <2>2 DEF Unregister, TypeOK
<1>3. CASE QuietTick
  BY <1>3, <1>0 DEF QuietTick, TypeOK
<1>4. CASE Resync
  <2>1. Publish(Snapshot, TRUE, clients) /\ clients \in SUBSET Conns
    BY <1>4 DEF Resync, TypeOK
  <2>2. /\ send' \in [Conns -> Seq(Message)]
        /\ \A d \in Conns : Len(send'[d]) <= QueueCap
        /\ told' \in [Conns -> Map]
        /\ based' \in [Conns -> BOOLEAN]
    BY <2>1, <1>m, PublishType
  <2> QED BY <1>4, <1>0, <1>m, <2>2 DEF Resync, TypeOK, Stamps
<1>5. CASE DeltaTick
  <2>1. Publish(Delta(lastSent), FALSE, clients) /\ clients \in SUBSET Conns
    BY <1>5 DEF DeltaTick, TypeOK
  <2>2. /\ send' \in [Conns -> Seq(Message)]
        /\ \A d \in Conns : Len(send'[d]) <= QueueCap
        /\ told' \in [Conns -> Map]
        /\ based' \in [Conns -> BOOLEAN]
    BY <2>1, <1>m, PublishType
  <2> QED BY <1>5, <1>0, <1>m, <2>2 DEF DeltaTick, TypeOK, Stamps
<1>6. CASE Stop
  BY <1>6 DEF Stop, TypeOK
<1> QED BY <1>1, <1>2, <1>3, <1>4, <1>5, <1>6 DEF Hub

LEMMA TypeConnection ==
  ASSUME TypeOK, NEW c \in Conns, Connection(c)
  PROVE  TypeOK'
<1>0. send[c] # <<>> => /\ Tail(send[c]) \in Seq(Message)
                        /\ Len(Tail(send[c])) <= QueueCap
                        /\ Head(send[c]) \in Message
  <2>1. send[c] \in Seq(Message) /\ Len(send[c]) <= QueueCap /\ QueueCap \in Nat
    BY HubAssumption DEF TypeOK
  <2> QED BY <2>1
<1>1. CASE Write(c)
  <2>1. /\ send' \in [Conns -> Seq(Message)]
        /\ \A d \in Conns : Len(send'[d]) <= QueueCap
    BY <1>0, <1>1 DEF Write, TypeOK
  <2>2. view' \in [Browsers -> Map] /\ writer' \in [Conns -> BOOLEAN]
    <3>1. \A b \in Browsers : view[b] \in Map /\ Apply(view[b], Head(send[c])) \in Map
      BY <1>0, <1>1, ApplyType DEF Write, TypeOK
    <3> QED BY <1>1, <3>1 DEF Write, TypeOK
  <2> QED BY <1>1, <2>1, <2>2 DEF Write, TypeOK, hubVars
<1>2. CASE WriteTimeout(c)
  <2>1. /\ send' \in [Conns -> Seq(Message)]
        /\ \A d \in Conns : Len(send'[d]) <= QueueCap
    BY <1>0, <1>2 DEF WriteTimeout, TypeOK
  <2> QED BY <1>2, <2>1 DEF WriteTimeout, TypeOK, hubVars
<1>3. CASE LinkDown(c)
  BY <1>3 DEF LinkDown, TypeOK, hubVars
<1>4. CASE Leave(c)
  BY <1>4 DEF Leave, TypeOK, hubVars
<1> QED BY <1>1, <1>2, <1>3, <1>4 DEF Connection

LEMMA TypeBrowser ==
  ASSUME TypeOK, NEW b \in Browsers, Browser(b)
  PROVE  TypeOK'
<1>1. ASSUME NEW c \in Conns, Connect(b, c)
      PROVE  TypeOK'
  BY <1>1 DEF Connect, TypeOK
<1>2. CASE OnClose(b)
  BY <1>2 DEF OnClose, TypeOK, hubVars
<1>3. CASE Unmount(b)
  <2>1. Empty \in Map
    BY DEF Empty, Map
  <2> QED BY <1>3, <2>1 DEF Unmount, TypeOK, hubVars
<1> QED BY <1>1, <1>2, <1>3 DEF Browser

LEMMA TypeStep ==
  ASSUME TypeOK, [Next]_vars
  PROVE  TypeOK'
<1>1. CASE Hub
  BY <1>1, TypeHub
<1>2. CASE \E c \in Conns : Connection(c)
  BY <1>2, TypeConnection
<1>3. CASE \E b \in Browsers : Browser(b)
  BY <1>3, TypeBrowser
<1>4. ASSUME NEW v \in Vessels, DeletePosition(v)
      PROVE  TypeOK'
  BY <1>4 DEF DeletePosition, TypeOK, Map, hubVars
<1>5. ASSUME NEW v \in Vessels, NEW r \in Records, SetPosition(v, r)
      PROVE  TypeOK'
  BY <1>5 DEF SetPosition, TypeOK, Map, hubVars
<1>6. CASE UNCHANGED vars
  BY <1>6 DEF vars, TypeOK
<1> QED BY <1>1, <1>2, <1>3, <1>4, <1>5, <1>6 DEF Next, Cache

-----------------------------------------------------------------------------
(* Based clients follow lastSent.                                          *)

\* A client that has exactly the vessels of lastSent, none of them older.
Tracks(map, sent) ==
  \A v \in Vessels : /\ map[v] = Absent <=> sent[v] = -1
                     /\ map[v].ts >= sent[v]

\* A snapshot brings every client to its own time stamps.
LEMMA SnapshotTracks ==
  ASSUME cache \in Map, NEW map \in Map
  PROVE  Tracks(Apply(map, Snapshot), TsMap(cache))
<1>1. Apply(map, Snapshot) = cache
  BY DEF Apply, Snapshot
<1>2. ASSUME NEW v \in Vessels
      PROVE  /\ cache[v] = Absent <=> TsMap(cache)[v] = -1
             /\ cache[v].ts >= TsMap(cache)[v]
  <2>1. cache[v] \in Records \cup {Absent} /\ TsMap(cache)[v] = cache[v].ts
    BY DEF Map, TsMap
  <2> QED BY <2>1, RecordTs
<1> QED BY <1>1, <1>2 DEF Tracks

\* A delta brings a client that tracks lastSent to the time stamps of the cache.
LEMMA DeltaTracks ==
  ASSUME cache \in Map, lastSent \in [Vessels -> Stamps], NEW map \in Map,
         Tracks(map, lastSent)
  PROVE  Tracks(Apply(map, Delta(lastSent)), TsMap(cache))
<1> DEFINE new == Apply(map, Delta(lastSent))
<1> SUFFICES ASSUME NEW v \in Vessels
             PROVE  /\ new[v] = Absent <=> cache[v].ts = -1
                    /\ new[v].ts >= cache[v].ts
  BY DEF Tracks, TsMap
<1>1. /\ cache[v] \in Records \cup {Absent}
      /\ map[v] \in Records \cup {Absent}
      /\ lastSent[v] \in Int /\ (lastSent[v] = -1 \/ lastSent[v] \in Nat)
  BY HubAssumption DEF Map, Stamps
<1>2. /\ map[v] = Absent <=> lastSent[v] = -1
      /\ map[v].ts >= lastSent[v]
  BY DEF Tracks
<1>3. new[v] = IF lastSent[v] # -1 /\ cache[v] = Absent THEN Absent
               ELSE IF cache[v].ts > lastSent[v] /\ cache[v] # Absent THEN cache[v]
               ELSE map[v]
  BY DEF Apply, Delta
<1>4. /\ cache[v].ts \in Int /\ map[v].ts \in Int
      /\ cache[v] = Absent <=> cache[v].ts = -1
      /\ map[v] = Absent <=> map[v].ts = -1
      /\ cache[v] # Absent => cache[v].ts \in Nat
  BY <1>1, RecordTs
<1> HIDE DEF new
<1>5. CASE cache[v] = Absent
  BY <1>1, <1>2, <1>3, <1>4, <1>5
<1>6. CASE cache[v] # Absent /\ cache[v].ts > lastSent[v]
  BY <1>1, <1>2, <1>3, <1>4, <1>6
<1>7. CASE cache[v] # Absent /\ ~(cache[v].ts > lastSent[v])
  BY <1>1, <1>2, <1>3, <1>4, <1>7
<1> QED BY <1>5, <1>6, <1>7

\* What a send does to the clients that track the old time stamps, when the
\* message brings each of them to the new ones.
LEMMA PublishTracks ==
  ASSUME TypeOK, NEW msg, NEW rebase \in BOOLEAN, NEW new,
         Publish(msg, rebase, clients),
         \A c \in clients : rebase \/ based[c] => Tracks(Apply(told[c], msg), new)
  PROVE  \A c \in clients : based'[c] => Tracks(told'[c], new)
<1> SUFFICES ASSUME NEW c \in clients, based'[c]
             PROVE  Tracks(told'[c], new)
  OBVIOUS
<1>1. c \in Conns
  BY DEF TypeOK
<1>2. Len(send[c]) < QueueCap /\ (rebase \/ based[c])
  BY <1>1 DEF Publish
<1>3. told'[c] = Apply(told[c], msg)
  BY <1>1, <1>2 DEF Publish
<1> QED BY <1>2, <1>3

\* A send touches no client outside the set, and makes only members based.
LEMMA PublishBased ==
  ASSUME TypeOK, NEW msg, NEW rebase \in BOOLEAN, NEW to \in SUBSET Conns,
         Publish(msg, rebase, to)
  PROVE  \A c \in Conns \ to : told'[c] = told[c] /\ based'[c] = based[c]
BY DEF Publish

\* A step that leaves lastSent, clients and what the clients were told alone.
LEMMA QuietStep ==
  ASSUME HubInv, UNCHANGED <<lastSent, clients, told, based>>
  PROVE  BasedTracksHub'
BY DEF HubInv, BasedTracksHub

\* The two facts about handlers hold after every step.
LEMMA HandledStep ==
  ASSUME HubInv, [Next]_vars
  PROVE  NoSendOnClosed' /\ ClientsHandled'
<1> USE DEF HubInv
<1>t. TypeOK /\ TypeOK'
  BY TypeStep
<1>1. ClientsHandled'
  <2>1. ASSUME NEW c \in Conns, Register(c)
        PROVE  ClientsHandled'
    <3>1. handler[c] = "registering" /\ ~closed[c] /\ closed' = closed
      BY <2>1 DEF Register, ClientsHandled
    <3>2. \A d \in Conns : based'[d] => d \in clients'
      <4>1. CASE Publish(Snapshot, clients' = {c}, {c})
        <5>1. \A d \in Conns \ {c} : based'[d] = based[d]
          BY <4>1, <1>t, PublishBased
        <5> QED BY <5>1, <2>1 DEF Register, ClientsHandled
      <4>2. CASE UNCHANGED <<lastSent, send, told, based>>
        BY <4>2, <2>1 DEF Register, ClientsHandled
      <4> QED BY <4>1, <4>2, <2>1 DEF Register
    <3>3. handler' = [handler EXCEPT ![c] = "reading"] /\ clients' = clients \cup {c}
      BY <2>1 DEF Register
    <3> QED BY <3>1, <3>2, <3>3, <1>t DEF ClientsHandled, TypeOK
  <2>2. ASSUME NEW c \in Conns, Unregister(c)
        PROVE  ClientsHandled'
    BY <2>2, <1>t DEF Unregister, ClientsHandled, TypeOK
  <2>3. CASE QuietTick \/ Stop
    BY <2>3 DEF QuietTick, Stop, ClientsHandled
  <2>4. CASE Resync \/ DeltaTick
    <3>1. /\ UNCHANGED <<handler, clients, closed>>
          /\ Publish(Snapshot, TRUE, clients) \/ Publish(Delta(lastSent), FALSE, clients)
          /\ clients \in SUBSET Conns
      BY <2>4, <1>t DEF Resync, DeltaTick, TypeOK
    <3>2. \A c \in Conns \ clients : based'[c] = based[c]
      BY <3>1, <1>t, PublishBased
    <3> QED BY <3>1, <3>2 DEF ClientsHandled
  <2>5. ASSUME NEW c \in Conns, Connection(c)
        PROVE  ClientsHandled'
    BY <2>5, <1>t DEF Connection, Write, WriteTimeout, LinkDown, Leave, hubVars, ClientsHandled,
                      TypeOK
  <2>6. ASSUME NEW b \in Browsers, Browser(b)
        PROVE  ClientsHandled'
    <3>1. ASSUME NEW c \in Conns, Connect(b, c)
          PROVE  ClientsHandled'
      BY <3>1, <1>t DEF Connect, ClientsHandled, TypeOK
    <3>2. CASE OnClose(b) \/ Unmount(b)
      BY <3>2 DEF OnClose, Unmount, hubVars, ClientsHandled
    <3> QED BY <2>6, <3>1, <3>2 DEF Browser
  <2>7. CASE Cache
    BY <2>7 DEF Cache, SetPosition, DeletePosition, hubVars, ClientsHandled
  <2>8. CASE UNCHANGED vars
    BY <2>8 DEF vars, ClientsHandled
  <2> QED BY <2>1, <2>2, <2>3, <2>4, <2>5, <2>6, <2>7, <2>8 DEF Next, Hub
<1>2. NoSendOnClosed'
  BY <1>1, <1>t DEF ClientsHandled, NoSendOnClosed, TypeOK
<1> QED BY <1>1, <1>2

LEMMA BasedStep ==
  ASSUME HubInv, [Next]_vars
  PROVE  BasedTracksHub'
<1> USE DEF HubInv
<1>0. /\ TypeOK /\ clients \subseteq Conns
      /\ cache \in Map /\ lastSent \in [Vessels -> Stamps]
      /\ \A c \in Conns : told[c] \in Map
      /\ \A c \in clients : based[c] => Tracks(told[c], lastSent)
  BY DEF TypeOK, Stamps, BasedTracksHub, Tracks
<1>q. (\A c \in clients' : based'[c] => Tracks(told'[c], lastSent')) => BasedTracksHub'
  BY DEF BasedTracksHub, Tracks
<1>1. ASSUME NEW c \in Conns, Register(c)
      PROVE  BasedTracksHub'
  <2>1. c \notin clients /\ ~based[c] /\ clients' = clients \cup {c}
    BY <1>1 DEF Register, ClientsHandled
  <2>2. CASE /\ Publish(Snapshot, clients' = {c}, {c})
             /\ lastSent' = IF clients' = {c} THEN TsMap(cache) ELSE lastSent
    <3>1. \A d \in Conns \ {c} : told'[d] = told[d] /\ based'[d] = based[d]
      BY <2>2, <1>0, PublishBased
    <3>2. CASE clients' = {c}
      <4>1. SUFFICES ASSUME based'[c]
                     PROVE  Tracks(told'[c], TsMap(cache))
        BY <1>q, <2>2, <3>2
      <4>2. told'[c] = Apply(told[c], Snapshot)
        BY <4>1, <2>2 DEF Publish
      <4> QED BY <4>2, <1>0, SnapshotTracks
    <3>3. CASE clients' # {c}
      <4>1. ~based'[c]
        BY <2>1, <2>2, <3>3 DEF Publish
      <4>2. lastSent' = lastSent
        BY <2>2, <3>3
      <4> QED BY <4>1, <4>2, <3>1, <2>1, <1>0, <1>q
    <3> QED BY <3>2, <3>3
  <2>3. CASE UNCHANGED <<lastSent, send, told, based>>
    BY <2>1, <2>3, <1>0, <1>q
  <2> QED BY <1>1, <2>2, <2>3 DEF Register
<1>2. ASSUME NEW c \in Conns, Unregister(c)
      PROVE  BasedTracksHub'
  <2>1. \A d \in clients' : d \in clients /\ told'[d] = told[d] /\ based'[d] = based[d]
    BY <1>2, <1>0 DEF Unregister
  <2>2. lastSent' = lastSent
    BY <1>2 DEF Unregister
  <2> QED BY <2>1, <2>2, <1>0, <1>q
<1>3. CASE QuietTick \/ Stop
  BY <1>3, QuietStep DEF QuietTick, Stop
<1>4. CASE Resync
  <2>1. \A c \in clients : Tracks(Apply(told[c], Snapshot), TsMap(cache))
    BY <1>0, SnapshotTracks
  <2>2. \A c \in clients : based'[c] => Tracks(told'[c], TsMap(cache))
    BY <1>4, <1>0, <2>1, PublishTracks DEF Resync
  <2> QED BY <1>4, <2>2, <1>q DEF Resync
<1>5. CASE DeltaTick
  <2>1. \A c \in clients : based[c] => Tracks(Apply(told[c], Delta(lastSent)), TsMap(cache))
    BY <1>0, DeltaTracks
  <2>2. \A c \in clients : based'[c] => Tracks(told'[c], TsMap(cache))
    BY <1>5, <1>0, <2>1, PublishTracks DEF DeltaTick
  <2> QED BY <1>5, <2>2, <1>q DEF DeltaTick
<1>6. ASSUME NEW c \in Conns, Connection(c)
      PROVE  BasedTracksHub'
  BY <1>6, QuietStep DEF Connection, Write, WriteTimeout, LinkDown, Leave, hubVars
<1>7. ASSUME NEW b \in Browsers, NEW c \in Conns, Connect(b, c)
      PROVE  BasedTracksHub'
  <2>1. c \notin clients
    BY <1>7 DEF Connect, ClientsHandled
  <2>2. \A d \in clients' : d \in clients /\ told'[d] = told[d] /\ based'[d] = based[d]
    BY <1>7, <2>1, <1>0 DEF Connect, TypeOK
  <2>3. lastSent' = lastSent
    BY <1>7 DEF Connect
  <2> QED BY <2>2, <2>3, <1>0, <1>q
<1>8. ASSUME NEW b \in Browsers, OnClose(b) \/ Unmount(b)
      PROVE  BasedTracksHub'
  BY <1>8, QuietStep DEF OnClose, Unmount, hubVars
<1>9. CASE Cache
  BY <1>9, QuietStep DEF Cache, SetPosition, DeletePosition, hubVars
<1>10. CASE UNCHANGED vars
  BY <1>10, QuietStep DEF vars
<1> QED BY <1>1, <1>2, <1>3, <1>4, <1>5, <1>6, <1>7, <1>8, <1>9, <1>10 DEF Next, Hub, Browser

LEMMA HubInvariant == Spec => []HubInv
<1>1. Init => HubInv
  <2> SUFFICES ASSUME Init PROVE HubInv
    OBVIOUS
  <2>1. NoSendOnClosed /\ ClientsHandled /\ BasedTracksHub
    BY DEF Init, NoSendOnClosed, ClientsHandled, BasedTracksHub
  <2> QED BY <2>1, TypeInit DEF HubInv
<1>2. HubInv /\ [Next]_vars => HubInv'
  <2> SUFFICES ASSUME HubInv, [Next]_vars PROVE HubInv'
    OBVIOUS
  <2>1. TypeOK'
    BY TypeStep DEF HubInv
  <2> QED BY <2>1, HandledStep, BasedStep DEF HubInv
<1> QED BY <1>1, <1>2, PTL DEF Spec

\* In every reachable state the hub, the connections and the browsers hold
\* values of their types, and no client's queue exceeds its capacity.
THEOREM HubTypeCorrect == Spec => []TypeOK
<1>1. HubInv => TypeOK
  BY DEF HubInv
<1> QED BY <1>1, HubInvariant, PTL

\* The hub never sends on a channel it has closed (hub.go:87-94, 186-192), for
\* any number of clients that come and go.
THEOREM NoSendOnClosedHolds == Spec => []NoSendOnClosed
<1>1. HubInv => NoSendOnClosed
  BY DEF HubInv
<1> QED BY <1>1, HubInvariant, PTL

\* A client that got a snapshot lastSent was set to, and missed nothing since,
\* has exactly the vessels of lastSent, none of them older.
THEOREM BasedTracksHubHolds == Spec => []BasedTracksHub
<1>1. HubInv => BasedTracksHub
  BY DEF HubInv
<1> QED BY <1>1, HubInvariant, PTL

-----------------------------------------------------------------------------
(* What was told arrives.                                                  *)

\* A connection that works has a handler that has not begun to leave; a channel
\* that was not registered is empty; and what is queued for a browser turns its
\* map into what was told, which before the registration is the map itself.
Fed ==
  /\ \A c \in Conns : link[c] => handler[c] \in {"registering", "reading"}
  /\ \A c \in Conns : handler[c] \in {"none", "registering"} => send[c] = <<>>
  /\ \A b \in Browsers, c \in Conns :
       socket[b] = c /\ link[c] => Turns(view[b], send[c], told[c])

LEMMA TurnsNothing ==
  ASSUME NEW map \in Map
  PROVE  Turns(map, <<>>, map)
<1> DEFINE after == [i \in 0..0 |-> map]
<1>1. /\ after \in [0..Len(<<>>) -> Map] /\ after[0] = map /\ after[Len(<<>>)] = map
      /\ \A i \in 1..Len(<<>>) : after[i] = Apply(after[i - 1], <<>>[i])
  OBVIOUS
<1> QED BY <1>1 DEF Turns

\* Who is sent one message more, and told so, will have read one message more.
LEMMA TurnsMore ==
  ASSUME NEW map, NEW queue \in Seq(Message), NEW end, NEW msg \in Message,
         Turns(map, queue, end)
  PROVE  Turns(map, Append(queue, msg), Apply(end, msg))
<1> DEFINE n == Len(queue)
           more == Append(queue, msg)
<1>1. PICK after \in [0..n -> Map] :
        /\ after[0] = map /\ after[n] = end
        /\ \A i \in 1..n : after[i] = Apply(after[i - 1], queue[i])
  BY DEF Turns
<1>2. /\ n \in Nat /\ Len(more) = n + 1 /\ more[n + 1] = msg
      /\ \A i \in 1..n : more[i] = queue[i]
  OBVIOUS
<1>3. end \in Map /\ Apply(end, msg) \in Map
  BY <1>1, <1>2, ApplyType
<1> DEFINE longer == [i \in 0..n + 1 |-> IF i = n + 1 THEN Apply(end, msg) ELSE after[i]]
<1> HIDE DEF n, more
<1>4. longer \in [0..Len(more) -> Map]
  BY <1>1, <1>2, <1>3
<1>5. longer[0] = map /\ longer[Len(more)] = Apply(end, msg)
  BY <1>1, <1>2
<1>6. ASSUME NEW i \in 1..Len(more) PROVE longer[i] = Apply(longer[i - 1], more[i])
  <2>1. CASE i = n + 1
    <3>1. longer[i] = Apply(end, msg) /\ longer[i - 1] = end /\ more[i] = msg
      BY <1>1, <1>2, <2>1
    <3> QED BY <3>1
  <2>2. CASE i # n + 1
    <3>1. i \in 1..n /\ i - 1 \in 0..n /\ i \in 0..n
      BY <1>2, <2>2
    <3>2. longer[i] = after[i] /\ longer[i - 1] = after[i - 1] /\ more[i] = queue[i]
      BY <1>2, <2>2, <3>1
    <3> QED BY <1>1, <3>1, <3>2
  <2> QED BY <2>1, <2>2
<1> HIDE DEF longer
<1>7. Turns(map, more, Apply(end, msg))
  BY <1>4, <1>5, <1>6 DEF Turns
<1> QED BY <1>7 DEF more

\* Who has read the first message has the rest to read.
LEMMA TurnsRead ==
  ASSUME NEW map, NEW queue \in Seq(Message), queue # <<>>, NEW end, Turns(map, queue, end)
  PROVE  Turns(Apply(map, Head(queue)), Tail(queue), end)
<1> DEFINE n == Len(queue)
           rest == Tail(queue)
<1>1. PICK after \in [0..n -> Map] :
        /\ after[0] = map /\ after[n] = end
        /\ \A i \in 1..n : after[i] = Apply(after[i - 1], queue[i])
  BY DEF Turns
<1>2. /\ n \in Nat \ {0} /\ Len(rest) = n - 1 /\ Head(queue) = queue[1]
      /\ \A i \in 1..n - 1 : rest[i] = queue[i + 1]
  OBVIOUS
<1> DEFINE later == [i \in 0..n - 1 |-> after[i + 1]]
<1> HIDE DEF n, rest
<1>3. later \in [0..Len(rest) -> Map]
  BY <1>1, <1>2
<1>4. later[0] = Apply(map, Head(queue)) /\ later[Len(rest)] = end
  BY <1>1, <1>2
<1>5. ASSUME NEW i \in 1..Len(rest) PROVE later[i] = Apply(later[i - 1], rest[i])
  <2>1. i \in 1..n - 1 /\ i + 1 \in 1..n
    BY <1>2
  <2>2. later[i] = after[i + 1] /\ later[i - 1] = after[i] /\ rest[i] = queue[i + 1]
    BY <1>2, <2>1
  <2>3. after[i + 1] = Apply(after[i], queue[i + 1])
    BY <1>1, <2>1
  <2> QED BY <2>2, <2>3
<1> HIDE DEF later
<1>6. Turns(Apply(map, Head(queue)), rest, end)
  BY <1>3, <1>4, <1>5 DEF Turns
<1> QED BY <1>6 DEF rest

\* A send tells a client what it queues for it.
LEMMA PublishFeeds ==
  ASSUME TypeOK, NEW msg \in Message, NEW rebase, NEW to \in SUBSET Conns,
         Publish(msg, rebase, to), NEW map, NEW c \in Conns, Turns(map, send[c], told[c])
  PROVE  Turns(map, send'[c], told'[c])
<1>1. send[c] \in Seq(Message)
  BY DEF TypeOK
<1>2. \/ send'[c] = send[c] /\ told'[c] = told[c]
      \/ send'[c] = Append(send[c], msg) /\ told'[c] = Apply(told[c], msg)
  BY DEF Publish
<1> QED BY <1>1, <1>2, TurnsMore

LEMMA FedHub ==
  ASSUME HubInv, Fed, Hub
  PROVE  Fed'
<1>0. TypeOK /\ ClientsHandled /\ clients \in SUBSET Conns
  BY DEF HubInv, TypeOK
<1>m. Snapshot \in Message /\ Delta(lastSent) \in Message
  BY <1>0, MessageTypes DEF TypeOK, Stamps
<1>1. ASSUME NEW c \in Conns, Register(c) PROVE Fed'
  <2>1. /\ handler' = [handler EXCEPT ![c] = "reading"]
        /\ UNCHANGED <<link, socket, view>>
        /\ Publish(Snapshot, clients' = {c}, {c}) \/ UNCHANGED <<send, told>>
    BY <1>1 DEF Register
  <2>2. \A d \in Conns \ {c} : send'[d] = send[d]
    BY <2>1 DEF Publish
  <2>3. \A b \in Browsers, d \in Conns :
          socket[b] = d /\ link[d] => Turns(view[b], send'[d], told'[d])
    BY <1>0, <1>m, <2>1, PublishFeeds DEF Fed
  <2> QED BY <1>0, <2>1, <2>2, <2>3 DEF Fed, TypeOK
<1>2. ASSUME NEW c \in Conns, Unregister(c) PROVE Fed'
  <2>1. /\ handler[c] = "leaving" /\ handler' = [handler EXCEPT ![c] = "none"]
        /\ send' = [send EXCEPT ![c] = <<>>] /\ told' = [told EXCEPT ![c] = Empty]
        /\ UNCHANGED <<link, socket, view>>
    BY <1>2 DEF Unregister
  <2>2. ~link[c]
    BY <2>1 DEF Fed
  <2> QED BY <1>0, <2>1, <2>2 DEF Fed, TypeOK
<1>3. CASE QuietTick \/ Stop
  BY <1>3 DEF QuietTick, Stop, Fed
<1>4. CASE Resync \/ DeltaTick
  <2>1. /\ Publish(Snapshot, TRUE, clients) \/ Publish(Delta(lastSent), FALSE, clients)
        /\ UNCHANGED <<handler, link, socket, view>>
    BY <1>4 DEF Resync, DeltaTick
  <2>2. \A d \in Conns : handler[d] \in {"none", "registering"} => send'[d] = send[d]
    BY <1>0, <2>1 DEF Publish, ClientsHandled
  <2>3. \A b \in Browsers, d \in Conns :
          socket[b] = d /\ link[d] => Turns(view[b], send'[d], told'[d])
    BY <1>0, <1>m, <2>1, PublishFeeds DEF Fed
  <2> QED BY <2>1, <2>2, <2>3 DEF Fed
<1> QED BY <1>1, <1>2, <1>3, <1>4 DEF Hub

\* What the writer takes from a channel the browser of that connection handles.
LEMMA FedConnection ==
  ASSUME HubInv, Fed, NEW c \in Conns, Connection(c)
  PROVE  Fed'
<1>0. TypeOK /\ send[c] \in Seq(Message)
  BY DEF HubInv, TypeOK
<1>1. CASE Write(c)
  <2>1. /\ send[c] # <<>> /\ send' = [send EXCEPT ![c] = Tail(@)]
        /\ UNCHANGED <<told, handler, link, socket>>
        /\ link[c] => view' = [b \in Browsers |-> IF socket[b] = c
                                                  THEN Apply(view[b], Head(send[c]))
                                                  ELSE view[b]]
        /\ ~link[c] => UNCHANGED view
    BY <1>1 DEF Write, hubVars
  <2>2. ASSUME NEW b \in Browsers, NEW d \in Conns, socket[b] = d, link[d]
        PROVE  Turns(view'[b], send'[d], told[d])
    <3>1. Turns(view[b], send[d], told[d])
      BY <2>2 DEF Fed
    <3>2. CASE d = c
      <4>1. view'[b] = Apply(view[b], Head(send[c])) /\ send'[c] = Tail(send[c])
        BY <1>0, <2>1, <2>2, <3>2 DEF TypeOK
      <4> QED BY <1>0, <2>1, <3>1, <3>2, <4>1, TurnsRead
    <3>3. CASE d # c
      <4>1. view'[b] = view[b] /\ send'[d] = send[d]
        BY <1>0, <2>1, <2>2, <3>3 DEF TypeOK
      <4> QED BY <3>1, <4>1
    <3> QED BY <3>2, <3>3
  <2>3. \A d \in Conns : handler[d] \in {"none", "registering"} => send'[d] = <<>>
    BY <1>0, <2>1 DEF Fed, TypeOK
  <2> QED BY <2>1, <2>2, <2>3 DEF Fed
<1>2. CASE WriteTimeout(c)
  <2>1. /\ send[c] # <<>> /\ send' = [send EXCEPT ![c] = Tail(@)]
        /\ link' = [link EXCEPT ![c] = FALSE] /\ UNCHANGED <<told, handler, socket, view>>
    BY <1>2 DEF WriteTimeout, hubVars
  <2> QED BY <1>0, <2>1 DEF Fed, TypeOK
<1>3. CASE LinkDown(c)
  BY <1>0, <1>3 DEF LinkDown, hubVars, Fed, TypeOK
<1>4. CASE Leave(c)
  BY <1>0, <1>4 DEF Leave, hubVars, Fed, TypeOK
<1> QED BY <1>1, <1>2, <1>3, <1>4 DEF Connection

LEMMA FedBrowser ==
  ASSUME HubInv, Fed, NEW b \in Browsers, Browser(b)
  PROVE  Fed'
<1>0. TypeOK
  BY DEF HubInv
<1>1. ASSUME NEW c \in Conns, Connect(b, c) PROVE Fed'
  <2>1. /\ handler[c] = "none" /\ \A d \in Browsers : socket[d] # c
        /\ socket' = [socket EXCEPT ![b] = c]
        /\ handler' = [handler EXCEPT ![c] = "registering"]
        /\ link' = [link EXCEPT ![c] = TRUE] /\ told' = [told EXCEPT ![c] = view[b]]
        /\ UNCHANGED <<send, view>>
    BY <1>1 DEF Connect
  <2>2. send[c] = <<>> /\ view[b] \in Map
    BY <1>0, <2>1 DEF Fed, TypeOK
  <2>3. ASSUME NEW d \in Browsers, NEW e \in Conns, socket'[d] = e, link'[e]
        PROVE  Turns(view[d], send[e], told'[e])
    <3>1. CASE e = c
      <4>1. d = b /\ told'[e] = view[b]
        BY <1>0, <2>1, <2>3, <3>1 DEF TypeOK
      <4> QED BY <2>2, <3>1, <4>1, TurnsNothing
    <3>2. CASE e # c
      <4>1. socket[d] = e /\ link[e] /\ told'[e] = told[e]
        BY <1>0, <2>1, <2>3, <3>2 DEF TypeOK
      <4> QED BY <4>1 DEF Fed
    <3> QED BY <3>1, <3>2
  <2> QED BY <1>0, <2>1, <2>2, <2>3 DEF Fed, TypeOK
<1>2. CASE OnClose(b)
  <2>1. socket' = [socket EXCEPT ![b] = NoConn] /\ UNCHANGED <<handler, link, send, told, view>>
    BY <1>2 DEF OnClose, hubVars
  <2> QED BY <1>0, <2>1, HubAssumption DEF Fed, TypeOK
<1>3. CASE Unmount(b)
  <2>1. /\ socket' = [socket EXCEPT ![b] = NoConn] /\ UNCHANGED <<handler, send, told>>
        /\ link' = [c \in Conns |-> link[c] /\ c # socket[b]]
        /\ view' = [view EXCEPT ![b] = Empty]
    BY <1>3 DEF Unmount, hubVars
  <2>2. ASSUME NEW d \in Browsers, NEW e \in Conns, socket'[d] = e, link'[e]
        PROVE  socket[d] = e /\ link[e] /\ view'[d] = view[d]
    BY <1>0, <2>1, <2>2, HubAssumption DEF TypeOK
  <2>3. \A d \in Browsers, e \in Conns :
          socket'[d] = e /\ link'[e] => Turns(view'[d], send'[e], told'[e])
    <3> SUFFICES ASSUME NEW d \in Browsers, NEW e \in Conns, socket'[d] = e, link'[e]
                 PROVE  Turns(view'[d], send'[e], told'[e])
      OBVIOUS
    <3>1. socket[d] = e /\ link[e] /\ view'[d] = view[d]
      BY <2>2
    <3>2. Turns(view[d], send[e], told[e])
      BY <3>1 DEF Fed
    <3> QED BY <2>1, <3>1, <3>2
  <2>4. \A e \in Conns : link'[e] => handler'[e] \in {"registering", "reading"}
    BY <2>1 DEF Fed
  <2>5. \A e \in Conns : handler'[e] \in {"none", "registering"} => send'[e] = <<>>
    BY <2>1 DEF Fed
  <2> QED BY <2>3, <2>4, <2>5 DEF Fed
<1> QED BY <1>1, <1>2, <1>3 DEF Browser

LEMMA FedInit == Init => Fed
BY DEF Init, Fed

LEMMA FedStep ==
  ASSUME HubInv, Fed, [Next]_vars
  PROVE  Fed'
<1>1. CASE Hub
  BY <1>1, FedHub
<1>2. CASE \E c \in Conns : Connection(c)
  BY <1>2, FedConnection
<1>3. CASE \E b \in Browsers : Browser(b)
  BY <1>3, FedBrowser
<1>4. CASE Cache
  BY <1>4 DEF Cache, SetPosition, DeletePosition, hubVars, Fed
<1>5. CASE UNCHANGED vars
  BY <1>5 DEF vars, Fed
<1> QED BY <1>1, <1>2, <1>3, <1>4, <1>5 DEF Next

LEMMA FedHolds == Spec => []Fed
<1>1. HubInv /\ Fed /\ [Next]_vars => Fed'
  BY FedStep
<1> QED BY FedInit, HubInvariant, <1>1, PTL DEF Spec

\* Whatever is queued, whoever reconnects and whoever is slow: a browser that reads
\* its channel to the end has the map the hub last told its client.
THEOREM ToldArrivesHolds == Spec => []ToldArrives
<1>1. Fed => ToldArrives
  BY DEF Fed, ToldArrives
<1> QED BY <1>1, FedHolds, PTL
=============================================================================
