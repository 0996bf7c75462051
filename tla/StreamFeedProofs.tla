-------------------------- MODULE StreamFeedProofs --------------------------
(***************************************************************************)
(* The stream implements VesselFeed for every number of vessels, browsers, *)
(* connections and records, every channel capacity and resync interval.    *)
(***************************************************************************)
EXTENDS StreamFeed, StreamHubProofs

-----------------------------------------------------------------------------
(* Queues of messages.                                                     *)

On(msg, v) == msg.vessels[v] # Absent

\* Of each vessel a queue has the reports in the order they were written ...
InOrder(queue) ==
  \A i, j \in 1 .. Len(queue), v \in Vessels :
    (i < j /\ On(queue[i], v) /\ On(queue[j], v))
      => queue[i].vessels[v].tag <= queue[j].vessels[v].tag

\* ... none of them after high ...
UpTo(queue, high) ==
  \A i \in 1 .. Len(queue), v \in Vessels :
    On(queue[i], v) => queue[i].vessels[v].tag <= high[v]

\* ... and none of them before low.
From(queue, low) ==
  \A i \in 1 .. Len(queue), v \in Vessels :
    On(queue[i], v) => low[v] <= queue[i].vessels[v].tag

\* A message about the cache as it is.
OfCache(msg) == \A v \in Vessels : On(msg, v) => msg.vessels[v] = cache[v]

\* Whatever is cached, queued or shown has a number.
LEMMA Tags ==
  /\ \A map \in Map, v \in Vessels : map[v].tag \in Nat
  /\ \A queue \in Seq(Message), v \in Vessels : \A i \in 1 .. Len(queue) :
       queue[i] \in Message /\ queue[i].vessels[v].tag \in Nat
<1>1. \A r \in Records \cup {Absent} : r.tag \in Nat
  BY FeedAssumption DEF Absent
<1>2. \A map \in Map, v \in Vessels : map[v].tag \in Nat
  BY <1>1 DEF Map
<1>3. \A msg \in Message : msg.vessels \in Map
  BY DEF Message
<1>4. ASSUME NEW queue \in Seq(Message), NEW i \in 1 .. Len(queue)
      PROVE  queue[i] \in Message
  OBVIOUS
<1> QED BY <1>2, <1>3, <1>4

LEMMA NothingQueued ==
  /\ InOrder(<<>>)
  /\ \A map : UpTo(<<>>, map) /\ From(<<>>, map)
BY DEF InOrder, UpTo, From

\* What the hub says now comes after everything it has said.
LEMMA QueueMore ==
  ASSUME NEW queue \in Seq(Message), NEW msg \in Message, NEW high \in [Vessels -> Nat],
         InOrder(queue), UpTo(queue, high),
         \A v \in Vessels : On(msg, v) => msg.vessels[v].tag = high[v]
  PROVE  /\ InOrder(Append(queue, msg)) /\ UpTo(Append(queue, msg), high)
         /\ \A low \in [Vessels -> Nat] :
              (From(queue, low) /\ \A v \in Vessels : low[v] <= high[v])
                => From(Append(queue, msg), low)
<1> DEFINE more == Append(queue, msg)
           n == Len(queue)
<1>1. /\ n \in Nat /\ Len(more) = n + 1 /\ more[n + 1] = msg
      /\ \A i \in 1 .. n : more[i] = queue[i]
  OBVIOUS
<1> HIDE DEF more
<1>2. ASSUME NEW i \in 1 .. n + 1 PROVE (i \in 1 .. n /\ more[i] = queue[i]) \/ (i = n + 1 /\ more[i] = msg)
  BY <1>1
<1>3. UpTo(more, high)
  <2> SUFFICES ASSUME NEW i \in 1 .. n + 1, NEW v \in Vessels, On(more[i], v)
               PROVE  more[i].vessels[v].tag <= high[v]
    BY <1>1 DEF UpTo
  <2>1. CASE i \in 1 .. n /\ more[i] = queue[i]
    BY <2>1 DEF UpTo
  <2>2. CASE more[i] = msg
    BY <2>2
  <2> QED BY <1>2, <2>1, <2>2
<1>4. InOrder(more)
  <2> SUFFICES ASSUME NEW i \in 1 .. n + 1, NEW j \in 1 .. n + 1, NEW v \in Vessels,
                      i < j, On(more[i], v), On(more[j], v)
               PROVE  more[i].vessels[v].tag <= more[j].vessels[v].tag
    BY <1>1 DEF InOrder
  <2>1. i \in 1 .. n /\ more[i] = queue[i]
    BY <1>1
  <2>2. CASE j \in 1 .. n /\ more[j] = queue[j]
    BY <2>1, <2>2 DEF InOrder
  <2>3. CASE more[j] = msg
    BY <2>1, <2>3 DEF UpTo
  <2> QED BY <1>2, <2>2, <2>3
<1>5. ASSUME NEW low \in [Vessels -> Nat], From(queue, low), \A v \in Vessels : low[v] <= high[v]
      PROVE  From(more, low)
  <2> SUFFICES ASSUME NEW i \in 1 .. n + 1, NEW v \in Vessels, On(more[i], v)
               PROVE  low[v] <= more[i].vessels[v].tag
    BY <1>1 DEF From
  <2>1. CASE i \in 1 .. n /\ more[i] = queue[i]
    BY <1>5, <2>1 DEF From
  <2>2. CASE more[i] = msg
    BY <1>5, <2>2
  <2> QED BY <1>2, <2>1, <2>2
<1> QED BY <1>3, <1>4, <1>5 DEF more

\* What is left after the first message is no earlier than it.
LEMMA QueueRest ==
  ASSUME NEW queue \in Seq(Message), queue # <<>>, InOrder(queue)
  PROVE  /\ Head(queue) \in Message /\ InOrder(Tail(queue))
         /\ \A map : /\ UpTo(queue, map) => /\ UpTo(Tail(queue), map)
                                            /\ \A v \in Vessels : On(Head(queue), v) =>
                                                 Head(queue).vessels[v].tag <= map[v]
                     /\ From(queue, map) => /\ From(Tail(queue), map)
                                            /\ \A v \in Vessels : On(Head(queue), v) =>
                                                 map[v] <= Head(queue).vessels[v].tag
         /\ \A i \in 1 .. Len(Tail(queue)), v \in Vessels :
              (On(Head(queue), v) /\ On(Tail(queue)[i], v))
                => Head(queue).vessels[v].tag <= Tail(queue)[i].vessels[v].tag
<1> DEFINE n == Len(queue)
           rest == Tail(queue)
           first == Head(queue)
<1>1. /\ n \in Nat \ {0} /\ Len(rest) = n - 1 /\ first = queue[1] /\ first \in Message
      /\ \A i \in 1 .. n - 1 : rest[i] = queue[i + 1]
  OBVIOUS
<1> HIDE DEF n, rest, first
<1>2. 1 \in 1 .. n /\ \A i \in 1 .. n - 1 : i + 1 \in 1 .. n /\ 1 < i + 1
  BY <1>1
<1>3. InOrder(rest)
  <2> SUFFICES ASSUME NEW i \in 1 .. n - 1, NEW j \in 1 .. n - 1, NEW v \in Vessels,
                      i < j, On(rest[i], v), On(rest[j], v)
               PROVE  rest[i].vessels[v].tag <= rest[j].vessels[v].tag
    BY <1>1 DEF InOrder
  <2>1. i + 1 < j + 1
    BY <1>1
  <2> QED BY <1>1, <1>2, <2>1 DEF InOrder, n
<1>4. ASSUME NEW map, UpTo(queue, map)
      PROVE  UpTo(rest, map) /\ \A v \in Vessels : On(first, v) => first.vessels[v].tag <= map[v]
  BY <1>1, <1>2, <1>4 DEF UpTo, n
<1>5. ASSUME NEW map, From(queue, map)
      PROVE  From(rest, map) /\ \A v \in Vessels : On(first, v) => map[v] <= first.vessels[v].tag
  BY <1>1, <1>2, <1>5 DEF From, n
<1>6. \A i \in 1 .. Len(rest), v \in Vessels :
        (On(first, v) /\ On(rest[i], v)) => first.vessels[v].tag <= rest[i].vessels[v].tag
  BY <1>1, <1>2 DEF InOrder, n
<1> QED BY <1>1, <1>3, <1>4, <1>5, <1>6 DEF rest, first

-----------------------------------------------------------------------------
(* The invariant.                                                          *)

\* The numbers of what is cached and of what a page has.
Numbered ==
  /\ writes \in [Vessels -> Nat]
  /\ shown \in [Browsers -> [Vessels -> Nat]]
  /\ \A v \in Vessels : cache[v] # Absent => cache[v].tag = writes[v]
  /\ \A b \in Browsers, v \in Vessels :
       /\ view[b][v] # Absent => view[b][v].tag = shown[b][v]
       /\ shown[b][v] <= writes[v]

\* What is on its way to a page comes after what the page has shown.
Underway ==
  /\ \A c \in Conns : InOrder(send[c]) /\ UpTo(send[c], writes)
  /\ \A b \in Browsers, c \in Conns : socket[b] = c => From(send[c], shown[b])

\* A connection has one page.
OnePage == \A b, d \in Browsers : (socket[b] = socket[d] /\ socket[b] # NoConn) => b = d

Fits == HubInv /\ Fed /\ OnePage

FeedInv == Fits /\ Numbered /\ Underway

LEMMA FeedIsHub == FeedNext => Next
BY DEF FeedNext, Report, Show, LeavePage, Unnoticed, Next, Connection, Browser, Cache

\* A message of the hub keeps the queues in order.
LEMMA PublishUnderway ==
  ASSUME FeedInv, NEW msg \in Message, OfCache(msg), NEW rebase, NEW to,
         Publish(msg, rebase, to), UNCHANGED <<socket, history>>
  PROVE  Underway'
<1>1. /\ send \in [Conns -> Seq(Message)] /\ writes \in [Vessels -> Nat]
      /\ \A b \in Browsers : shown[b] \in [Vessels -> Nat] /\ \A v \in Vessels : shown[b][v] <= writes[v]
  BY DEF FeedInv, Fits, HubInv, TypeOK, Numbered
<1>2. \A v \in Vessels : On(msg, v) => msg.vessels[v].tag = writes[v]
  BY DEF FeedInv, Numbered, OfCache, On
<1>3. UNCHANGED <<writes, shown, socket>>
  BY DEF history
<1>4. ASSUME NEW c \in Conns
      PROVE  /\ InOrder(send'[c]) /\ UpTo(send'[c], writes)
             /\ \A b \in Browsers : From(send[c], shown[b]) => From(send'[c], shown[b])
  <2>1. InOrder(send[c]) /\ UpTo(send[c], writes) /\ send[c] \in Seq(Message)
    BY <1>1 DEF FeedInv, Underway
  <2>2. CASE send'[c] = send[c]
    BY <2>1, <2>2
  <2>3. CASE send'[c] = Append(send[c], msg)
    BY <1>1, <1>2, <2>1, <2>3, QueueMore
  <2> QED BY <2>2, <2>3 DEF Publish
<1> QED BY <1>3, <1>4 DEF FeedInv, Underway

\* A step that touches neither the numbers nor a queue, and gives no page a
\* connection that has something queued.
LEMMA SameUnderway ==
  ASSUME FeedInv, UNCHANGED history,
         \A c \in Conns : send'[c] \in {send[c], <<>>},
         \A b \in Browsers, c \in Conns : socket'[b] = c => socket[b] = c \/ send'[c] = <<>>
  PROVE  Underway'
<1>1. UNCHANGED <<writes, shown>>
  BY DEF history
<1> QED BY <1>1, NothingQueued DEF FeedInv, Underway

LEMMA HubUnderway ==
  ASSUME FeedInv, Hub, UNCHANGED history
  PROVE  Underway'
<1>0. TypeOK
  BY DEF FeedInv, Fits, HubInv
<1>1. Snapshot \in Message /\ Delta(lastSent) \in Message
  BY <1>0, MessageTypes DEF TypeOK, Stamps
<1>2. OfCache(Snapshot) /\ OfCache(Delta(lastSent))
  BY DEF OfCache, On, Snapshot, Delta
<1>3. ASSUME NEW c \in Conns, Register(c) PROVE Underway'
  <2>1. CASE Publish(Snapshot, clients' = {c}, {c})
    BY <1>1, <1>2, <1>3, <2>1, PublishUnderway DEF Register
  <2>2. CASE UNCHANGED send
    BY <1>3, <2>2, SameUnderway DEF Register
  <2> QED BY <1>3, <2>1, <2>2 DEF Register
<1>4. ASSUME NEW c \in Conns, Unregister(c) PROVE Underway'
  <2>1. (\A d \in Conns : send'[d] \in {send[d], <<>>}) /\ UNCHANGED socket
    BY <1>0, <1>4 DEF Unregister, TypeOK
  <2> QED BY <2>1, SameUnderway
<1>5. CASE QuietTick \/ Stop
  BY <1>5, SameUnderway DEF QuietTick, Stop
<1>6. CASE Resync \/ DeltaTick
  <2>1. UNCHANGED socket /\ (Publish(Snapshot, TRUE, clients) \/ Publish(Delta(lastSent), FALSE, clients))
    BY <1>6 DEF Resync, DeltaTick
  <2> QED BY <1>1, <1>2, <2>1, PublishUnderway
<1> QED BY <1>3, <1>4, <1>5, <1>6 DEF Hub

-----------------------------------------------------------------------------
(* A page shows a message.                                                 *)

\* The page goes forward, and what is still queued for it is no earlier.
LEMMA ShowStep ==
  ASSUME FeedInv, NEW c \in Conns, Show(c)
  PROVE  /\ Numbered' /\ Underway'
         /\ \A b \in Browsers, v \in Vessels : shown[b][v] <= shown'[b][v]
         /\ \A b \in Browsers : socket[b] # c => shown'[b] = shown[b]
<1> DEFINE msg == Head(send[c])
<1>1. /\ TypeOK /\ send[c] \in Seq(Message) /\ send[c] # <<>>
      /\ send' = [send EXCEPT ![c] = Tail(send[c])]
      /\ UNCHANGED <<cache, socket, writes>>
      /\ \A b \in Browsers : \/ view'[b] = view[b]
                             \/ socket[b] = c /\ view'[b] = Apply(view[b], msg)
      /\ shown' = [b \in Browsers |-> [v \in Vessels |->
                     IF view'[b][v] = Absent THEN shown[b][v] ELSE view'[b][v].tag]]
  <2>1. TypeOK
    BY DEF FeedInv, Fits, HubInv
  <2>2. Write(c) /\ UNCHANGED writes
    BY DEF Show
  <2>3. \A b \in Browsers : \/ view'[b] = view[b]
                            \/ socket[b] = c /\ view'[b] = Apply(view[b], msg)
    BY <2>1, <2>2 DEF Write, TypeOK
  <2> QED BY <2>1, <2>2, <2>3 DEF Show, Write, TypeOK
<1>2. /\ writes \in [Vessels -> Nat]
      /\ shown \in [Browsers -> [Vessels -> Nat]]
      /\ \A v \in Vessels : cache[v] # Absent => cache[v].tag = writes[v]
      /\ \A b \in Browsers, v \in Vessels :
           /\ view[b][v] # Absent => view[b][v].tag = shown[b][v]
           /\ shown[b][v] <= writes[v]
  BY DEF FeedInv, Numbered
<1>3. InOrder(send[c]) /\ UpTo(send[c], writes)
  BY DEF FeedInv, Underway
<1>4. /\ msg \in Message /\ InOrder(Tail(send[c])) /\ UpTo(Tail(send[c]), writes)
      /\ \A v \in Vessels : On(msg, v) => msg.vessels[v].tag <= writes[v]
      /\ \A i \in 1 .. Len(Tail(send[c])), v \in Vessels :
           (On(msg, v) /\ On(Tail(send[c])[i], v)) => msg.vessels[v].tag <= Tail(send[c])[i].vessels[v].tag
  BY <1>1, <1>3, QueueRest
<1>5. ASSUME NEW b \in Browsers, socket[b] = c
      PROVE  /\ From(Tail(send[c]), shown[b])
             /\ \A v \in Vessels : On(msg, v) => shown[b][v] <= msg.vessels[v].tag
  <2>1. From(send[c], shown[b])
    BY <1>5 DEF FeedInv, Underway
  <2> QED BY <1>1, <1>3, <2>1, QueueRest
<1>6. \A v \in Vessels : msg.vessels[v].tag \in Nat
  BY <1>4, Tags DEF Message
<1> HIDE DEF msg
\* The number on the page is the old one or that of the message.
<1>7. ASSUME NEW b \in Browsers, NEW v \in Vessels
      PROVE  /\ view'[b][v] # Absent => shown'[b][v] = view'[b][v].tag
             /\ \/ shown'[b][v] = shown[b][v]
                \/ socket[b] = c /\ On(msg, v) /\ shown'[b][v] = msg.vessels[v].tag
  <2>1. shown'[b][v] = IF view'[b][v] = Absent THEN shown[b][v] ELSE view'[b][v].tag
    BY <1>1
  <2>2. \/ view'[b][v] = view[b][v]
        \/ view'[b][v] = Absent
        \/ socket[b] = c /\ view'[b][v] = msg.vessels[v]
    BY <1>1 DEF Apply
  <2> QED BY <1>2, <2>1, <2>2 DEF On
<1>8. ASSUME NEW b \in Browsers, NEW v \in Vessels
      PROVE  /\ shown'[b][v] \in Nat /\ shown[b][v] <= shown'[b][v]
             /\ shown'[b][v] <= writes[v]
  <2>1. shown[b][v] \in Nat /\ writes[v] \in Nat /\ shown[b][v] <= writes[v]
    BY <1>2
  <2>2. CASE shown'[b][v] = shown[b][v]
    BY <2>1, <2>2
  <2>3. CASE socket[b] = c /\ On(msg, v) /\ shown'[b][v] = msg.vessels[v].tag
    BY <1>4, <1>5, <1>6, <2>3
  <2> QED BY <1>7, <2>2, <2>3
<1>9. shown' \in [Browsers -> [Vessels -> Nat]]
  BY <1>1, <1>8
<1>10. ASSUME NEW b \in Browsers, socket[b] # c PROVE shown'[b] = shown[b]
  <2>1. \A v \in Vessels : shown'[b][v] = shown[b][v]
    BY <1>7, <1>10
  <2> QED BY <1>2, <1>9, <2>1
<1>11. Numbered'
  BY <1>1, <1>2, <1>7, <1>8, <1>9 DEF Numbered
<1>12. ASSUME NEW b \in Browsers, socket[b] = c PROVE From(Tail(send[c]), shown'[b])
  <2> SUFFICES ASSUME NEW i \in 1 .. Len(Tail(send[c])), NEW v \in Vessels, On(Tail(send[c])[i], v)
               PROVE  shown'[b][v] <= Tail(send[c])[i].vessels[v].tag
    BY DEF From
  <2>1. CASE shown'[b][v] = shown[b][v]
    BY <1>5, <1>12, <2>1 DEF From
  <2>2. CASE On(msg, v) /\ shown'[b][v] = msg.vessels[v].tag
    BY <1>4, <2>2
  <2> QED BY <1>7, <2>1, <2>2
<1>13. ASSUME NEW d \in Conns PROVE InOrder(send'[d]) /\ UpTo(send'[d], writes')
  <2>1. CASE d = c
    BY <1>1, <1>4, <2>1 DEF TypeOK
  <2>2. CASE d # c
    BY <1>1, <2>2 DEF TypeOK, FeedInv, Underway
  <2> QED BY <2>1, <2>2
<1>14. ASSUME NEW b \in Browsers, NEW d \in Conns, socket[b] = d PROVE From(send'[d], shown'[b])
  <2>1. CASE d = c
    BY <1>1, <1>12, <1>14, <2>1 DEF TypeOK
  <2>2. CASE d # c
    BY <1>1, <1>10, <1>14, <2>2 DEF TypeOK, FeedInv, Underway
  <2> QED BY <2>1, <2>2
<1>15. Underway'
  BY <1>1, <1>13, <1>14 DEF Underway
<1> QED BY <1>8, <1>10, <1>11, <1>15

-----------------------------------------------------------------------------
(* The other steps.                                                        *)

LEMMA ReportStep ==
  ASSUME FeedInv, NEW v \in Vessels, NEW r \in Records, Report(v, r)
  PROVE  Numbered' /\ Underway'
<1>1. /\ cache \in Map /\ cache' = [cache EXCEPT ![v] = r] /\ r.tag = writes[v] + 1
      /\ send \in [Conns -> Seq(Message)]
      /\ writes' = [writes EXCEPT ![v] = @ + 1] /\ UNCHANGED <<shown, send, socket, view>>
  BY DEF Report, SetPosition, FeedInv, Fits, HubInv, TypeOK
<1>2. /\ writes \in [Vessels -> Nat] /\ shown \in [Browsers -> [Vessels -> Nat]]
      /\ \A w \in Vessels : cache[w] # Absent => cache[w].tag = writes[w]
      /\ \A b \in Browsers, w \in Vessels :
           /\ view[b][w] # Absent => view[b][w].tag = shown[b][w]
           /\ shown[b][w] <= writes[w]
  BY DEF FeedInv, Numbered
<1>3. writes' \in [Vessels -> Nat] /\ \A w \in Vessels : writes[w] <= writes'[w]
  BY <1>1, <1>2
<1>4. \A w \in Vessels : cache'[w] # Absent => cache'[w].tag = writes'[w]
  BY <1>1, <1>2 DEF Map
<1>5. ASSUME NEW b \in Browsers, NEW w \in Vessels PROVE shown[b][w] <= writes'[w]
  <2>1. shown[b][w] \in Nat /\ writes[w] \in Nat /\ writes'[w] \in Nat
        /\ shown[b][w] <= writes[w] /\ writes[w] <= writes'[w]
    BY <1>2, <1>3
  <2> QED BY <2>1
<1>6. Numbered'
  BY <1>1, <1>2, <1>3, <1>4, <1>5 DEF Numbered
<1>7. ASSUME NEW c \in Conns PROVE UpTo(send[c], writes')
  <2> SUFFICES ASSUME NEW i \in 1 .. Len(send[c]), NEW w \in Vessels, On(send[c][i], w)
               PROVE  send[c][i].vessels[w].tag <= writes'[w]
    BY DEF UpTo
  <2>1. send[c][i].vessels[w].tag <= writes[w]
    BY DEF FeedInv, Underway, UpTo
  <2>2. send[c][i].vessels[w].tag \in Nat /\ writes[w] \in Nat /\ writes'[w] \in Nat
    BY <1>1, <1>2, <1>3, Tags
  <2> QED BY <1>3, <2>1, <2>2
<1>8. Underway'
  BY <1>1, <1>7 DEF FeedInv, Underway
<1> QED BY <1>6, <1>8

LEMMA LeavePageStep ==
  ASSUME FeedInv, NEW b \in Browsers, LeavePage(b)
  PROVE  Numbered' /\ Underway'
<1>1. /\ TypeOK
      /\ socket' = [socket EXCEPT ![b] = NoConn] /\ view' = [view EXCEPT ![b] = Empty]
      /\ shown' = [shown EXCEPT ![b] = Unseen] /\ UNCHANGED <<writes, cache, send>>
  BY DEF LeavePage, Unmount, FeedInv, Fits, HubInv
<1>2. /\ writes \in [Vessels -> Nat] /\ shown \in [Browsers -> [Vessels -> Nat]]
      /\ Unseen \in [Vessels -> Nat] /\ \A v \in Vessels : Unseen[v] = 0 /\ Empty[v] = Absent
  BY DEF FeedInv, Numbered, Unseen, Empty
<1>3. \A d \in Browsers : IF d = b THEN view'[d] = Empty /\ shown'[d] = Unseen
                          ELSE view'[d] = view[d] /\ shown'[d] = shown[d]
  BY <1>1, <1>2 DEF TypeOK
<1>4. ASSUME NEW d \in Browsers, NEW v \in Vessels
      PROVE  /\ view'[d][v] # Absent => view'[d][v].tag = shown'[d][v]
             /\ shown'[d][v] <= writes[v]
  <2>1. CASE d = b
    BY <1>2, <1>3, <2>1
  <2>2. CASE d # b
    BY <1>3, <2>2 DEF FeedInv, Numbered
  <2> QED BY <2>1, <2>2
<1>5. Numbered'
  BY <1>1, <1>2, <1>4 DEF FeedInv, Numbered
<1>6. ASSUME NEW d \in Browsers, NEW c \in Conns, socket'[d] = c PROVE From(send[c], shown'[d])
  <2>1. d # b /\ socket[d] = c
    BY <1>1, <1>6, HubAssumption DEF TypeOK
  <2> QED BY <1>3, <2>1 DEF FeedInv, Underway
<1>7. Underway'
  BY <1>1, <1>6 DEF FeedInv, Underway
<1> QED BY <1>5, <1>7

LEMMA UnnoticedStep ==
  ASSUME FeedInv, Unnoticed
  PROVE  Numbered' /\ Underway'
<1>0. /\ TypeOK /\ Fed /\ UNCHANGED history /\ UNCHANGED <<writes, shown>>
  BY DEF FeedInv, Fits, HubInv, Unnoticed, history
<1>1. /\ UNCHANGED view
      /\ UNCHANGED cache \/ \E v \in Vessels : cache' = [cache EXCEPT ![v] = Absent]
  BY DEF Unnoticed, Hub, Register, Unregister, QuietTick, Resync, DeltaTick, Stop,
         WriteTimeout, LinkDown, Leave, OnClose, Connect, DeletePosition
<1>2. Numbered'
  <2>1. \A v \in Vessels : cache'[v] \in {Absent, cache[v]}
    BY <1>0, <1>1 DEF TypeOK, Map
  <2> QED BY <1>0, <1>1, <2>1 DEF FeedInv, Numbered
<1>3. CASE Hub
  BY <1>0, <1>2, <1>3, HubUnderway
<1>4. ASSUME NEW c \in Conns, WriteTimeout(c) PROVE Underway'
  <2>1. /\ send[c] \in Seq(Message) /\ send[c] # <<>> /\ UNCHANGED socket
        /\ send' = [send EXCEPT ![c] = Tail(send[c])]
    BY <1>0, <1>4 DEF WriteTimeout, TypeOK
  <2>2. InOrder(send[c]) /\ UpTo(send[c], writes)
    BY DEF FeedInv, Underway
  <2>3. /\ InOrder(Tail(send[c])) /\ UpTo(Tail(send[c]), writes)
        /\ \A map : From(send[c], map) => From(Tail(send[c]), map)
    BY <2>1, <2>2, QueueRest
  <2>4. \A d \in Conns : send'[d] = IF d = c THEN Tail(send[c]) ELSE send[d]
    BY <1>0, <2>1 DEF TypeOK
  <2> QED BY <1>0, <2>1, <2>3, <2>4 DEF FeedInv, Underway
<1>5. ASSUME NEW c \in Conns, LinkDown(c) \/ Leave(c) PROVE Underway'
  BY <1>0, <1>5, SameUnderway DEF LinkDown, Leave
<1>6. ASSUME NEW b \in Browsers, OnClose(b) PROVE Underway'
  <2>1. \A d \in Browsers, c \in Conns : socket'[d] = c => socket[d] = c
    BY <1>0, <1>6, HubAssumption DEF OnClose, TypeOK
  <2> QED BY <1>0, <1>6, <2>1, SameUnderway DEF OnClose
\* A connection that is not registered has nothing queued.
<1>7. ASSUME NEW b \in Browsers, NEW c \in Conns, Connect(b, c) PROVE Underway'
  <2>1. send[c] = <<>> /\ socket' = [socket EXCEPT ![b] = c] /\ UNCHANGED send
    BY <1>0, <1>7 DEF Connect, Fed
  <2>2. \A d \in Browsers, e \in Conns : socket'[d] = e => socket[d] = e \/ send'[e] = <<>>
    BY <1>0, <2>1 DEF TypeOK
  <2> QED BY <1>0, <2>1, <2>2, SameUnderway
<1>8. ASSUME NEW v \in Vessels, DeletePosition(v) PROVE Underway'
  BY <1>0, <1>8, SameUnderway DEF DeletePosition
<1> QED BY <1>2, <1>3, <1>4, <1>5, <1>6, <1>7, <1>8 DEF Unnoticed

-----------------------------------------------------------------------------
(* The refinement.                                                         *)

LEMMA OnePageStep ==
  ASSUME HubInv, OnePage, [Next]_vars
  PROVE  OnePage'
<1>0. socket \in [Browsers -> Conns \cup {NoConn}]
  BY DEF HubInv, TypeOK
<1>1. ASSUME NEW b \in Browsers, NEW c \in Conns, Connect(b, c) PROVE OnePage'
  BY <1>0, <1>1 DEF Connect, OnePage
<1>2. ASSUME NEW b \in Browsers, OnClose(b) \/ Unmount(b) PROVE OnePage'
  BY <1>0, <1>2 DEF OnClose, Unmount, OnePage
<1>3. CASE UNCHANGED socket
  BY <1>3 DEF OnePage
<1>4. Hub => UNCHANGED socket
  BY DEF Hub, Register, Unregister, QuietTick, Resync, DeltaTick, Stop
<1>5. Cache => UNCHANGED socket
  BY DEF Cache, SetPosition, DeletePosition
<1>6. \A c \in Conns : Connection(c) => UNCHANGED socket
  BY DEF Connection, Write, WriteTimeout, LinkDown, Leave
<1> QED BY <1>1, <1>2, <1>3, <1>4, <1>5, <1>6 DEF Next, Browser, vars

LEMMA FeedFits == FeedSpec => []Fits
<1>1. FeedInit => Init
  BY DEF FeedInit
<1>2. [FeedNext]_<<vars, history>> => [Next]_vars
  BY FeedIsHub
<1>3. FeedSpec => Spec
  BY <1>1, <1>2, PTL DEF FeedSpec, Spec
<1>4. Init => OnePage
  BY DEF Init, OnePage
<1>5. HubInv /\ OnePage /\ [Next]_vars => OnePage'
  BY OnePageStep
<1>6. Spec => []OnePage
  BY <1>4, <1>5, HubInvariant, PTL DEF Spec
<1> QED BY <1>3, <1>6, HubInvariant, FedHolds, PTL DEF Fits

LEMMA FeedStep ==
  ASSUME FeedInv, [FeedNext]_<<vars, history>>
  PROVE  Numbered' /\ Underway'
<1>1. CASE UNCHANGED <<vars, history>>
  BY <1>1 DEF vars, hubVars, history, FeedInv, Numbered, Underway
<1>2. ASSUME NEW c \in Conns, Show(c) PROVE Numbered' /\ Underway'
  BY <1>2, ShowStep
<1> QED BY <1>1, <1>2, ReportStep, LeavePageStep, UnnoticedStep DEF FeedNext

LEMMA FeedInvariant == FeedSpec => []FeedInv
<1>1. FeedInit => Numbered /\ Underway
  BY NothingQueued DEF FeedInit, Init, Empty, Unseen, Numbered, Underway
<1>2. Fits /\ Fits' /\ Numbered /\ Underway /\ [FeedNext]_<<vars, history>> => Numbered' /\ Underway'
  BY FeedStep DEF FeedInv
<1>3. FeedSpec => [](Numbered /\ Underway)
  BY <1>1, <1>2, FeedFits, PTL DEF FeedSpec
<1> QED BY <1>3, FeedFits, PTL DEF FeedInv

\* A message that is shown lets the one page of its connection catch up.
LEMMA ShowIsCatchUp ==
  ASSUME FeedInv, NEW c \in Conns, Show(c)
  PROVE  [Page!FeedNext]_(Page!feedVars)
<1>1. /\ Numbered' /\ UNCHANGED writes
      /\ \A b \in Browsers, v \in Vessels : shown[b][v] <= shown'[b][v]
      /\ \A b \in Browsers : socket[b] # c => shown'[b] = shown[b]
  BY ShowStep DEF Show
<1>2. /\ shown \in [Browsers -> [Vessels -> Nat]] /\ writes \in [Vessels -> Nat]
      /\ shown' \in [Browsers -> [Vessels -> Nat]]
      /\ \A b \in Browsers, v \in Vessels : shown'[b][v] <= writes[v]
  BY <1>1 DEF FeedInv, Numbered
<1>3. CASE \A b \in Browsers : socket[b] # c
  <2>1. shown' = shown
    BY <1>1, <1>2, <1>3
  <2> QED BY <1>1, <2>1 DEF Page!feedVars
<1>4. ASSUME NEW b \in Browsers, socket[b] = c PROVE Page!FeedNext
  <2>1. c # NoConn
    BY HubAssumption
  <2>2. \A d \in Browsers : d # b => shown'[d] = shown[d]
    BY <1>1, <1>4, <2>1 DEF FeedInv, Fits, OnePage
  <2>3. shown' = [shown EXCEPT ![b] = shown'[b]]
    BY <1>2, <2>2
  <2>4. \A v \in Vessels : shown'[b][v] \in shown[b][v] .. writes[v]
    <3> SUFFICES ASSUME NEW v \in Vessels PROVE shown'[b][v] \in shown[b][v] .. writes[v]
      OBVIOUS
    <3>1. shown[b][v] \in Nat /\ shown'[b][v] \in Nat /\ writes[v] \in Nat
      BY <1>2
    <3> QED BY <1>1, <1>2, <3>1
  <2>5. Page!CatchUp(b)
    BY <1>1, <2>3, <2>4 DEF Page!CatchUp
  <2> QED BY <2>5 DEF Page!FeedNext
<1> QED BY <1>3, <1>4

LEMMA PageStep ==
  ASSUME FeedInv, [FeedNext]_<<vars, history>>
  PROVE  [Page!FeedNext]_(Page!feedVars)
<1>1. CASE UNCHANGED history
  BY <1>1 DEF history, Page!feedVars
<1>2. ASSUME NEW v \in Vessels, NEW r \in Records, Report(v, r) PROVE Page!FeedNext
  BY <1>2 DEF Report, Page!FeedNext, Page!Report
<1>3. ASSUME NEW b \in Browsers, LeavePage(b) PROVE Page!FeedNext
  BY <1>3 DEF LeavePage, Unseen, Page!FeedNext, Page!Leave, Page!None
<1> QED BY <1>1, <1>2, <1>3, ShowIsCatchUp DEF FeedNext, Unnoticed

\* A vessel on a page never goes back to an earlier report, until the page is left,
\* over every loss, resync and reconnection: the stream implements VesselFeed
\* (hub.go:102-193, useWebSocket.ts:23-92, useVesselData.ts:12-25).
THEOREM StreamKeepsOrder == FeedSpec => KeepsOrder
<1>1. FeedInit => Page!FeedInit
  BY DEF FeedInit, Unseen, Page!FeedInit, Page!None
<1>2. FeedInv /\ [FeedNext]_<<vars, history>> => [Page!FeedNext]_(Page!feedVars)
  BY PageStep
<1> QED BY <1>1, <1>2, FeedInvariant, PTL DEF FeedSpec, KeepsOrder, Page!Feed
=============================================================================
