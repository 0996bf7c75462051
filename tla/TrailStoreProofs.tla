-------------------------- MODULE TrailStoreProofs --------------------------
(***************************************************************************)
(* What TrailStore keeps for every set of vessels and fixes, every         *)
(* interval, queue and batch, and every range of time stamps.              *)
(***************************************************************************)
EXTENDS TrailStore, SequenceTheorems, TLAPS

Spread(s) == \A i, j \in DOMAIN s : i < j => Apart(s[i], s[j])

AllApart(s, t) == \A i \in DOMAIN s, j \in DOMAIN t : Apart(s[i], t[j])

Below(s, g) == \A i \in DOMAIN s : s[i].ts <= g[s[i].v]

\* What callers hold is apart from a sequence, ...
Clear(s, h) == \A i \in DOMAIN s, c \in Callers : \A p \in h[c] : Apart(p, s[i])

\* ... from one another, and not above the gate.
Hands(h, g) ==
  \A c \in Callers : \A p \in h[c] :
    /\ p.ts <= g[p.v]
    /\ \A d \in Callers \ {c} : \A q \in h[d] : Apart(p, q)

Track == written \o buf \o queue

-----------------------------------------------------------------------------
(* Sequences of points.                                                    *)

\* The points of a concatenation are apart if those of both parts are, and the
\* parts from each other.
LEMMA SpreadConcat ==
  ASSUME NEW s \in Seq(Points), NEW t \in Seq(Points)
  PROVE  Spread(s \o t) <=> Spread(s) /\ Spread(t) /\ AllApart(s, t)
<1> DEFINE c == s \o t
<1>1. /\ c \in Seq(Points) /\ Len(c) = Len(s) + Len(t)
      /\ \A i \in 1 .. Len(s) + Len(t) : c[i] = IF i <= Len(s) THEN s[i] ELSE t[i - Len(s)]
  BY ConcatProperties
<1>2. /\ DOMAIN s = 1 .. Len(s) /\ DOMAIN t = 1 .. Len(t) /\ DOMAIN c = 1 .. Len(c)
      /\ Len(s) \in Nat /\ Len(t) \in Nat
  BY <1>1, LenProperties
<1> HIDE DEF c
<1>3. ASSUME Spread(c) PROVE Spread(s) /\ Spread(t) /\ AllApart(s, t)
  <2>1. \A i \in 1 .. Len(s) : i \in DOMAIN c /\ c[i] = s[i]
    BY <1>1, <1>2
  <2>2. \A i \in 1 .. Len(t) : i + Len(s) \in DOMAIN c /\ c[i + Len(s)] = t[i]
    BY <1>1, <1>2
  <2>3. Spread(s)
    BY <1>2, <1>3, <2>1 DEF Spread
  <2>4. Spread(t)
    <3> SUFFICES ASSUME NEW i \in 1 .. Len(t), NEW j \in 1 .. Len(t), i < j
                 PROVE  Apart(t[i], t[j])
      BY <1>2 DEF Spread
    <3>1. i + Len(s) < j + Len(s)
      BY <1>2
    <3> QED BY <1>3, <2>2, <3>1 DEF Spread
  <2>5. AllApart(s, t)
    <3> SUFFICES ASSUME NEW i \in 1 .. Len(s), NEW j \in 1 .. Len(t)
                 PROVE  Apart(s[i], t[j])
      BY <1>2 DEF AllApart
    <3>1. i < j + Len(s)
      BY <1>2
    <3> QED BY <1>3, <2>1, <2>2, <3>1 DEF Spread
  <2> QED BY <2>3, <2>4, <2>5
<1>4. ASSUME Spread(s), Spread(t), AllApart(s, t) PROVE Spread(c)
  <2> SUFFICES ASSUME NEW i \in 1 .. Len(s) + Len(t), NEW j \in 1 .. Len(s) + Len(t), i < j
               PROVE  Apart(c[i], c[j])
    BY <1>1, <1>2 DEF Spread
  <2>1. CASE j <= Len(s)
    <3>1. i \in DOMAIN s /\ j \in DOMAIN s /\ c[i] = s[i] /\ c[j] = s[j]
      BY <1>1, <1>2, <2>1
    <3> QED BY <1>4, <3>1 DEF Spread
  <2>2. CASE i > Len(s)
    <3>1. /\ i - Len(s) \in DOMAIN t /\ j - Len(s) \in DOMAIN t /\ i - Len(s) < j - Len(s)
          /\ c[i] = t[i - Len(s)] /\ c[j] = t[j - Len(s)]
      BY <1>1, <1>2, <2>2
    <3> QED BY <1>4, <3>1 DEF Spread
  <2>3. CASE i <= Len(s) /\ j > Len(s)
    <3>1. i \in DOMAIN s /\ j - Len(s) \in DOMAIN t /\ c[i] = s[i] /\ c[j] = t[j - Len(s)]
      BY <1>1, <1>2, <2>3
    <3> QED BY <1>4, <3>1 DEF AllApart
  <2> QED BY <1>2, <2>1, <2>2, <2>3
<1> QED BY <1>3, <1>4 DEF c

\* Whether a concatenation is apart from something is a matter of its parts; so
\* it is with the gate and with what callers hold.
LEMMA ConcatParts ==
  ASSUME NEW s \in Seq(Points), NEW t \in Seq(Points), NEW u \in Seq(Points), NEW g, NEW h
  PROVE  /\ AllApart(s \o t, u) <=> AllApart(s, u) /\ AllApart(t, u)
         /\ AllApart(u, s \o t) <=> AllApart(u, s) /\ AllApart(u, t)
         /\ Below(s \o t, g) <=> Below(s, g) /\ Below(t, g)
         /\ Clear(s \o t, h) <=> Clear(s, h) /\ Clear(t, h)
<1> DEFINE c == s \o t
<1>1. /\ c \in Seq(Points) /\ Len(c) = Len(s) + Len(t)
      /\ \A i \in 1 .. Len(s) + Len(t) : c[i] = IF i <= Len(s) THEN s[i] ELSE t[i - Len(s)]
  BY ConcatProperties
<1>2. /\ DOMAIN s = 1 .. Len(s) /\ DOMAIN t = 1 .. Len(t) /\ DOMAIN c = 1 .. Len(c)
      /\ Len(s) \in Nat /\ Len(t) \in Nat
  BY <1>1, LenProperties
<1> HIDE DEF c
<1>3. \A i \in DOMAIN s : i \in DOMAIN c /\ c[i] = s[i]
  BY <1>1, <1>2
<1>4. \A i \in DOMAIN t : i + Len(s) \in DOMAIN c /\ c[i + Len(s)] = t[i]
  BY <1>1, <1>2
<1>5. \A i \in DOMAIN c : (i \in DOMAIN s /\ c[i] = s[i]) \/ \E j \in DOMAIN t : c[i] = t[j]
  <2> SUFFICES ASSUME NEW i \in DOMAIN c, i > Len(s)
               PROVE  \E j \in DOMAIN t : c[i] = t[j]
    BY <1>1, <1>2
  <2>1. i - Len(s) \in DOMAIN t /\ c[i] = t[i - Len(s)]
    BY <1>1, <1>2
  <2> QED BY <2>1
<1>6. AllApart(c, u) <=> AllApart(s, u) /\ AllApart(t, u)
  BY <1>3, <1>4, <1>5 DEF AllApart
<1>7. AllApart(u, c) <=> AllApart(u, s) /\ AllApart(u, t)
  BY <1>3, <1>4, <1>5 DEF AllApart
<1>8. Below(c, g) <=> Below(s, g) /\ Below(t, g)
  BY <1>3, <1>4, <1>5 DEF Below
<1>9. Clear(c, h) <=> Clear(s, h) /\ Clear(t, h)
  BY <1>3, <1>4, <1>5 DEF Clear
<1> QED BY <1>6, <1>7, <1>8, <1>9 DEF c

\* The middle of a track may be dropped.
LEMMA MiddleDropped ==
  ASSUME NEW s \in Seq(Points), NEW t \in Seq(Points), NEW u \in Seq(Points), NEW g, NEW h,
         Spread(s \o t \o u), Below(s \o t \o u, g), Clear(s \o t \o u, h)
  PROVE  Spread(s \o u) /\ Below(s \o u, g) /\ Clear(s \o u, h)
<1>1. s \o t \in Seq(Points)
  BY ConcatProperties
<1>2. /\ Spread(s \o t) /\ Spread(u) /\ AllApart(s \o t, u)
      /\ Below(s \o t, g) /\ Below(u, g) /\ Clear(s \o t, h) /\ Clear(u, h)
  BY <1>1, SpreadConcat, ConcatParts
<1>3. Spread(s) /\ AllApart(s, u) /\ Below(s, g) /\ Clear(s, h)
  BY <1>2, SpreadConcat, ConcatParts
<1> QED BY <1>2, <1>3, SpreadConcat, ConcatParts

\* The head of one sequence moves to the end of another.
LEMMA HeadMoves ==
  ASSUME NEW s \in Seq(Points), NEW t \in Seq(Points), NEW u \in Seq(Points), u # <<>>
  PROVE  /\ s \o Append(t, Head(u)) \o Tail(u) = s \o t \o u
         /\ ToSet(u) = {Head(u)} \cup ToSet(Tail(u))
<1>1. /\ Head(u) \in Points /\ Tail(u) \in Seq(Points)
      /\ Len(Tail(u)) = Len(u) - 1 /\ \A i \in 1 .. Len(Tail(u)) : Tail(u)[i] = u[i + 1]
  BY HeadTailProperties
<1>2. Head(u) = u[1] /\ Len(u) \in Nat \ {0} /\ DOMAIN u = 1 .. Len(u) /\ DOMAIN Tail(u) = 1 .. Len(Tail(u))
  BY <1>1, EmptySeq, LenProperties
<1>3. <<Head(u)>> \in Seq(Points)
  BY <1>1
<1>4. <<Head(u)>> \o Tail(u) = u
  <2>1. /\ <<Head(u)>> \o Tail(u) \in Seq(Points)
        /\ Len(<<Head(u)>> \o Tail(u)) = Len(u)
        /\ \A i \in 1 .. Len(u) :
             (<<Head(u)>> \o Tail(u))[i] = IF i <= 1 THEN <<Head(u)>>[i] ELSE Tail(u)[i - 1]
    BY <1>1, <1>2, <1>3, ConcatProperties
  <2>2. \A i \in 1 .. Len(u) : (<<Head(u)>> \o Tail(u))[i] = u[i]
    BY <1>1, <1>2, <2>1
  <2> QED BY <2>1, <2>2, SeqEqual
<1>5. Append(t, Head(u)) = t \o <<Head(u)>>
  BY <1>1, AppendIsConcat
<1>6. s \o Append(t, Head(u)) = (s \o t) \o <<Head(u)>> /\ s \o t \in Seq(Points)
  <2>1. s \o (t \o <<Head(u)>>) = (s \o t) \o <<Head(u)>>
    BY <1>3, ConcatAssociative
  <2>2. s \o t \in Seq(Points)
    BY ConcatProperties
  <2> QED BY <1>5, <2>1, <2>2
<1>7. ((s \o t) \o <<Head(u)>>) \o Tail(u) = (s \o t) \o u
  <2>1. s \o t \in Seq(Points) /\ Tail(u) \in Seq(Points)
    BY <1>1, <1>6
  <2>2. (s \o t) \o (<<Head(u)>> \o Tail(u)) = ((s \o t) \o <<Head(u)>>) \o Tail(u)
    BY <1>3, <2>1, ConcatAssociative
  <2> QED BY <1>4, <2>2
<1>8. ToSet(u) = {Head(u)} \cup ToSet(Tail(u))
  <2>1. ASSUME NEW i \in DOMAIN u PROVE u[i] = Head(u) \/ \E j \in DOMAIN Tail(u) : u[i] = Tail(u)[j]
    <3>1. CASE i = 1
      BY <1>2, <3>1
    <3>2. CASE i # 1
      <4>1. i - 1 \in DOMAIN Tail(u) /\ u[i] = Tail(u)[i - 1]
        BY <1>1, <1>2, <3>2
      <4> QED BY <4>1
    <3> QED BY <3>1, <3>2
  <2>2. ASSUME NEW j \in DOMAIN Tail(u) PROVE j + 1 \in DOMAIN u /\ Tail(u)[j] = u[j + 1]
    BY <1>1, <1>2
  <2>3. 1 \in DOMAIN u /\ u[1] = Head(u)
    BY <1>2
  <2>4. ToSet(u) \subseteq {Head(u)} \cup ToSet(Tail(u))
    BY <2>1 DEF ToSet
  <2>5. {Head(u)} \cup ToSet(Tail(u)) \subseteq ToSet(u)
    BY <2>2, <2>3 DEF ToSet
  <2> QED BY <2>4, <2>5
<1> QED BY <1>6, <1>7, <1>8

\* What is in a concatenation.
LEMMA SetOfConcat ==
  ASSUME NEW s \in Seq(Points), NEW t \in Seq(Points)
  PROVE  ToSet(s \o t) = ToSet(s) \cup ToSet(t)
<1>1. /\ Len(s \o t) = Len(s) + Len(t) /\ s \o t \in Seq(Points)
      /\ \A i \in 1 .. Len(s) + Len(t) : (s \o t)[i] = IF i <= Len(s) THEN s[i] ELSE t[i - Len(s)]
  BY ConcatProperties
<1>2. /\ DOMAIN s = 1 .. Len(s) /\ DOMAIN t = 1 .. Len(t) /\ DOMAIN (s \o t) = 1 .. Len(s) + Len(t)
      /\ Len(s) \in Nat /\ Len(t) \in Nat
  BY <1>1, LenProperties
<1>3. ASSUME NEW i \in DOMAIN s PROVE i \in DOMAIN (s \o t) /\ (s \o t)[i] = s[i]
  BY <1>1, <1>2
<1>4. ASSUME NEW i \in DOMAIN t PROVE i + Len(s) \in DOMAIN (s \o t) /\ (s \o t)[i + Len(s)] = t[i]
  BY <1>1, <1>2
<1>5. ASSUME NEW i \in DOMAIN (s \o t) PROVE (s \o t)[i] \in ToSet(s) \cup ToSet(t)
  <2>1. CASE i <= Len(s)
    BY <1>1, <1>2, <2>1 DEF ToSet
  <2>2. CASE i > Len(s)
    <3>1. i - Len(s) \in DOMAIN t /\ (s \o t)[i] = t[i - Len(s)]
      BY <1>1, <1>2, <2>2
    <3> QED BY <3>1 DEF ToSet
  <2> QED BY <1>2, <2>1, <2>2
<1>6. ToSet(s \o t) \subseteq ToSet(s) \cup ToSet(t)
  BY <1>5 DEF ToSet
<1>7. ToSet(s) \subseteq ToSet(s \o t) /\ ToSet(t) \subseteq ToSet(s \o t)
  BY <1>3, <1>4 DEF ToSet
<1> QED BY <1>6, <1>7

\* What is in a sequence with one more element.
LEMMA SetOfAppend ==
  ASSUME NEW s \in Seq(Points), NEW p \in Points
  PROVE  ToSet(Append(s, p)) = ToSet(s) \cup {p}
<1>1. /\ DOMAIN Append(s, p) = 1 .. Len(s) + 1 /\ DOMAIN s = 1 .. Len(s) /\ Len(s) \in Nat
      /\ \A i \in 1 .. Len(s) : Append(s, p)[i] = s[i]
      /\ Append(s, p)[Len(s) + 1] = p
  BY AppendProperties, LenProperties
<1>2. ToSet(Append(s, p)) \subseteq ToSet(s) \cup {p}
  <2> SUFFICES ASSUME NEW i \in 1 .. Len(s) + 1
               PROVE  Append(s, p)[i] \in ToSet(s) \cup {p}
    BY <1>1 DEF ToSet
  <2> QED BY <1>1 DEF ToSet
<1>3. ToSet(s) \cup {p} \subseteq ToSet(Append(s, p))
  <2>1. Len(s) + 1 \in DOMAIN Append(s, p) /\ \A i \in DOMAIN s : i \in DOMAIN Append(s, p)
    BY <1>1
  <2> QED BY <1>1, <2>1 DEF ToSet
<1> QED BY <1>2, <1>3

\* The elements of a sequence of points are points.
LEMMA SetOfPoints ==
  ASSUME NEW s \in Seq(Points)
  PROVE  ToSet(s) \subseteq Points
BY LenProperties DEF ToSet

\* A transaction adds points to the table and keeps its primary key.
LEMMA InsertedKeyed ==
  ASSUME NEW table \in SUBSET Points, NEW points \in Seq(Points),
         \A p, q \in table : (p.v = q.v /\ p.ts = q.ts) => p = q
  PROVE  /\ Inserted(table, points) \in SUBSET Points
         /\ table \subseteq Inserted(table, points)
         /\ \A p, q \in Inserted(table, points) : (p.v = q.v /\ p.ts = q.ts) => p = q
<1> DEFINE New == {j \in DOMAIN points :
                     /\ ~HasRow(table, points[j])
                     /\ \A k \in 1 .. j - 1 : ~SameKey(points[k], points[j])}
<1>1. Inserted(table, points) = table \cup {points[i] : i \in New}
  BY DEF Inserted
<1>2. DOMAIN points = 1 .. Len(points) /\ Len(points) \in Nat /\ \A i \in DOMAIN points : points[i] \in Points
  BY LenProperties
<1>3. ASSUME NEW i \in New, NEW j \in New, SameKey(points[i], points[j])
      PROVE  points[i] = points[j]
  <2>1. SameKey(points[j], points[i])
    BY <1>3 DEF SameKey
  <2>2. ~(i < j)
    <3> SUFFICES ASSUME i < j PROVE FALSE
      OBVIOUS
    <3>1. i \in 1 .. j - 1
      BY <1>2
    <3> QED BY <1>3, <3>1
  <2>3. ~(j < i)
    <3> SUFFICES ASSUME j < i PROVE FALSE
      OBVIOUS
    <3>1. j \in 1 .. i - 1
      BY <1>2
    <3> QED BY <2>1, <3>1
  <2> QED BY <1>2, <2>2, <2>3
<1>4. ASSUME NEW p \in table, NEW i \in New PROVE ~SameKey(p, points[i]) /\ ~SameKey(points[i], p)
  BY DEF HasRow, SameKey
<1> HIDE DEF New
<1>5. ASSUME NEW p \in Inserted(table, points), NEW q \in Inserted(table, points), SameKey(p, q)
      PROVE  p = q
  <2>1. CASE p \in table /\ q \in table
    BY <1>5, <2>1 DEF SameKey
  <2>2. CASE p \in table /\ \E i \in New : q = points[i]
    BY <1>4, <1>5, <2>2
  <2>3. CASE q \in table /\ \E i \in New : p = points[i]
    BY <1>4, <1>5, <2>3
  <2>4. CASE (\E i \in New : p = points[i]) /\ (\E i \in New : q = points[i])
    BY <1>3, <1>5, <2>4
  <2> QED BY <1>1, <2>1, <2>2, <2>3, <2>4
<1>6. New \subseteq DOMAIN points
  BY DEF New
<1> QED BY <1>1, <1>2, <1>5, <1>6 DEF SameKey

-----------------------------------------------------------------------------
(* Types.                                                                  *)

\* A transaction, committed or not, leaves everything in its type.
LEMMA FlushType ==
  ASSUME TypeOK, NEW points \in Seq(Points), Flush(points)
  PROVE  /\ rows' \subseteq Points
         /\ \A p, q \in rows' : (p.v = q.v /\ p.ts = q.ts) => p = q
         /\ buf' = <<>> /\ buf' \in Seq(Points) /\ Len(buf') = 0
         /\ written' \in Seq(Points)
         /\ owed' \subseteq Points
<1>1. buf' = <<>> /\ <<>> \in Seq(Points) /\ Len(<<>>) = 0
  BY EmptySeq DEF Flush
<1>2. CASE rows' = Inserted(rows, points) /\ written' = written \o points /\ UNCHANGED owed
  BY <1>1, <1>2, InsertedKeyed, ConcatProperties DEF TypeOK
<1>3. CASE owed' = owed \ ToSet(points) /\ UNCHANGED <<rows, written>>
  BY <1>1, <1>3 DEF TypeOK
<1> QED BY <1>2, <1>3 DEF Flush

\* The writer runs as long as the store is open, and not when it is shut.
Life ==
  /\ store = "shut" => writer = "off"
  /\ store = "open" => writer = "running"

Typed == TypeOK /\ Life

LEMMA TypedStep == Typed /\ [Next]_vars => Typed'
<1> SUFFICES ASSUME Typed, [Next]_vars PROVE Typed'
  OBVIOUS
<1> USE DEF Typed, Life
<1>0. /\ queue # <<>> => Head(queue) \in Points /\ Tail(queue) \in Seq(Points) /\ Len(Tail(queue)) <= QueueCap
      /\ Len(queue) \in Nat /\ Len(buf) \in Nat
  BY TrailAssumption, HeadTailProperties, LenProperties DEF TypeOK
<1>1. CASE Open
  BY <1>1 DEF TypeOK, Open
<1>2. ASSUME NEW c \in Callers, NEW v \in Vessels, NEW ts \in Times, NEW fix \in Fixes, Pass(c, v, ts, fix)
      PROVE  Typed'
  <2> DEFINE point == [v |-> v, ts |-> ts, fix |-> fix]
  <2>1. point \in Points
    BY DEF Points
  <2>2. held' = [held EXCEPT ![c] = {point}] /\ gate' = [gate EXCEPT ![v] = ts]
    BY <1>2 DEF Pass
  <2> HIDE DEF point
  <2>3. /\ held' \in [Callers -> SUBSET Points]
        /\ \A d \in Callers : \A p, q \in held'[d] : p = q
    BY <2>1, <2>2 DEF TypeOK
  <2>4. gate' \in [Vessels -> Times \cup {-1}]
    BY <2>2 DEF TypeOK
  <2> QED BY <1>2, <2>3, <2>4 DEF TypeOK, Pass
<1>12. ASSUME NEW c \in Callers, Send(c) PROVE Typed'
  <2>1. PICK p \in held[c] :
          /\ held' = [held EXCEPT ![c] = {}]
          /\ queue' = IF Len(queue) < QueueCap THEN Append(queue, p) ELSE queue
          /\ UNCHANGED <<rows, gate, buf, store, writer, written, owed>>
    BY <1>12 DEF Send
  <2>2. p \in Points
    BY DEF TypeOK
  <2>3. queue' \in Seq(Points) /\ Len(queue') <= QueueCap
    BY <1>0, <2>1, <2>2, AppendProperties, TrailAssumption DEF TypeOK
  <2>4. /\ held' \in [Callers -> SUBSET Points]
        /\ \A d \in Callers : \A a, b \in held'[d] : a = b
    BY <2>1 DEF TypeOK
  <2> QED BY <2>1, <2>3, <2>4 DEF TypeOK
<1>3. CASE Take
  <2>1. /\ queue # <<>> /\ queue' = Tail(queue)
        /\ UNCHANGED <<gate, held, store, writer>> /\ writer = "running"
    BY <1>3 DEF Take
  <2>2. Append(buf, Head(queue)) \in Seq(Points) /\ Len(Append(buf, Head(queue))) \in Nat
    BY <1>0, <2>1, AppendProperties, LenProperties DEF TypeOK
  <2>3. CASE Flush(Append(buf, Head(queue)))
    <3>1. /\ rows' \subseteq Points
          /\ \A p, q \in rows' : (p.v = q.v /\ p.ts = q.ts) => p = q
          /\ buf' \in Seq(Points) /\ Len(buf') = 0
          /\ written' \in Seq(Points)
          /\ owed' \subseteq Points
      BY <2>2, <2>3, FlushType
    <3>2. 0 < BatchSize
      BY TrailAssumption
    <3> QED BY <1>0, <2>1, <3>1, <3>2 DEF TypeOK
  <2>4. CASE Len(Append(buf, Head(queue))) < BatchSize /\ buf' = Append(buf, Head(queue)) /\ UNCHANGED <<rows, written, owed>>
    BY <1>0, <2>1, <2>2, <2>4 DEF TypeOK
  <2> QED BY <1>3, <2>2, <2>3, <2>4, TrailAssumption DEF Take
<1>4. CASE Tick
  BY <1>4, FlushType, TrailAssumption DEF TypeOK, Tick
<1>5. CASE StartDraining
  BY <1>5 DEF TypeOK, StartDraining
<1>6. CASE Drain
  <2>1. Append(buf, Head(queue)) \in Seq(Points)
    BY <1>0, <1>6, AppendProperties DEF Drain, TypeOK
  <2> QED BY <1>0, <1>6, <2>1 DEF TypeOK, Drain
<1>7. CASE LastFlush
  BY <1>7, FlushType, TrailAssumption DEF TypeOK, LastFlush
<1>8. CASE Close
  BY <1>8, SetOfPoints DEF TypeOK, Close
<1>9. CASE Exit
  BY <1>9, EmptySeq, TrailAssumption DEF TypeOK, Exit
<1>10. ASSUME NEW before \in Times, Prune(before) PROVE Typed'
  BY <1>10 DEF TypeOK, Prune
<1>11. CASE UNCHANGED vars
  BY <1>11 DEF TypeOK, vars
<1> QED BY <1>1, <1>2, <1>3, <1>4, <1>5, <1>6, <1>7, <1>8, <1>9, <1>10, <1>11, <1>12 DEF Next, Closed, Crash

LEMMA TypedHolds == Spec => []Typed
<1>1. Init => Typed
  BY TrailAssumption, EmptySeq DEF Init, Typed, TypeOK, Life
<1> QED BY <1>1, TypedStep, PTL DEF Spec

\* The types: one row per vessel and time stamp, a queue within its capacity,
\* a buffer that is flushed when it is full (store.go:55-63, 140-186).
THEOREM TrailTypeCorrect == Spec => []TypeOK
<1>1. Typed => TypeOK
  BY DEF Typed
<1> QED BY <1>1, TypedHolds, PTL

-----------------------------------------------------------------------------
(* The spacing.                                                            *)

\* RecordedSpaced is inductive: the gate is at or above everything recorded or
\* held, so what it lets through is Interval apart from all of it; whichever of
\* the held points is queued next, it is apart from the track and from the rest.
SpacedInv ==
  /\ Typed
  /\ Spread(Track) /\ Below(Track, gate)
  /\ Clear(Track, held) /\ Hands(held, gate)

LEMMA SpacedInvStates == SpacedInv => RecordedSpaced
BY DEF SpacedInv, RecordedSpaced, Spread, Below, Clear, Hands, Track

\* Apart is symmetric.
LEMMA ApartSymmetric ==
  ASSUME NEW p, NEW q, Apart(p, q)
  PROVE  Apart(q, p)
BY DEF Apart

\* A transaction takes what is in the buffer, with one point of the queue or
\* none, or drops it.
LEMMA FlushSpaced ==
  ASSUME NEW points \in Seq(Points), NEW rest \in Seq(Points), Flush(points), queue' = rest,
         written \in Seq(Points), NEW g, NEW h,
         Spread(written \o points \o rest), Below(written \o points \o rest, g),
         Clear(written \o points \o rest, h)
  PROVE  Spread(Track') /\ Below(Track', g) /\ Clear(Track', h)
<1>1. buf' = <<>>
  BY DEF Flush
<1>2. CASE written' = written \o points
  <2>1. written' \in Seq(Points) /\ written' \o <<>> = written'
    BY <1>2, ConcatProperties, ConcatEmptySeq
  <2> QED BY <1>1, <1>2, <2>1 DEF Track
<1>3. CASE written' = written
  <2>1. written' \o <<>> = written
    BY <1>3, ConcatEmptySeq
  <2> QED BY <1>1, <2>1, MiddleDropped DEF Track
<1> QED BY <1>2, <1>3 DEF Flush

LEMMA SpacedStep == SpacedInv /\ [Next]_vars => SpacedInv'
<1> SUFFICES ASSUME SpacedInv, [Next]_vars PROVE SpacedInv'
  OBVIOUS
<1>t. Typed'
  BY TypedStep DEF SpacedInv
<1> DEFINE Goal == /\ Spread(Track') /\ Below(Track', gate')
                   /\ Clear(Track', held') /\ Hands(held', gate')
<1> SUFFICES Goal
  BY <1>t DEF SpacedInv
<1>0. /\ written \in Seq(Points) /\ buf \in Seq(Points) /\ queue \in Seq(Points)
      /\ Track \in Seq(Points) /\ Spread(Track) /\ Below(Track, gate)
      /\ Clear(Track, held) /\ Hands(held, gate)
      /\ gate \in [Vessels -> Times \cup {-1}]
      /\ held \in [Callers -> SUBSET Points]
  BY ConcatProperties DEF SpacedInv, Typed, TypeOK, Track
<1>1. ASSUME NEW c \in Callers, NEW v \in Vessels, NEW ts \in Times, NEW fix \in Fixes, Pass(c, v, ts, fix)
      PROVE  Goal
  <2> DEFINE point == [v |-> v, ts |-> ts, fix |-> fix]
  <2>1. /\ gate' = [gate EXCEPT ![v] = ts] /\ Gate(v, ts)
        /\ held' = [held EXCEPT ![c] = {point}]
        /\ UNCHANGED <<written, buf, queue>>
    BY <1>1 DEF Pass
  <2>2. point \in Points /\ point.v = v /\ point.ts = ts
    BY DEF Points
  <2> HIDE DEF point
  <2>3. Track' = Track /\ \A i \in DOMAIN Track : Track[i] \in Points
    BY <1>0, <2>1, LenProperties DEF Track
  <2>4. ts \in Int /\ Interval \in Int /\ Interval > 0 /\ (\A w \in Vessels : gate[w] \in Int)
        /\ \A p \in Points : p.v \in Vessels /\ p.ts \in Int /\ p.ts > 0
    BY <1>0, TrailAssumption DEF Times, Points
  <2>5. \A p \in Points : p.ts <= gate[p.v] => Apart(point, p)
    BY <2>1, <2>2, <2>4 DEF Apart, Gate
  <2>6. \A p \in Points : p.ts <= gate[p.v] => p.ts <= gate'[p.v]
    <3> SUFFICES ASSUME NEW p \in Points, p.ts <= gate[p.v] PROVE p.ts <= gate'[p.v]
      OBVIOUS
    <3>1. CASE p.v = v
      BY <1>0, <2>1, <2>4, <3>1 DEF Gate
    <3>2. CASE p.v # v
      BY <1>0, <2>1, <2>4, <3>2
    <3> QED BY <3>1, <3>2
  <2>7. Below(Track', gate')
    BY <1>0, <2>3, <2>6 DEF Below
  <2>8. \A d \in Callers : \A p \in held'[d] :
          \/ d = c /\ p = point
          \/ d # c /\ p \in held[d] /\ p \in Points /\ p.ts <= gate[p.v]
    BY <1>0, <2>1 DEF Hands
  <2>9. Clear(Track', held')
    <3> SUFFICES ASSUME NEW i \in DOMAIN Track, NEW d \in Callers, NEW p \in held'[d]
                 PROVE  Apart(p, Track[i])
      BY <2>3 DEF Clear
    <3>1. CASE p = point
      BY <1>0, <2>3, <2>5, <3>1 DEF Below
    <3>2. CASE p \in held[d]
      BY <1>0, <3>2 DEF Clear
    <3> QED BY <2>8, <3>1, <3>2
  <2>10. Hands(held', gate')
    <3> SUFFICES ASSUME NEW d \in Callers, NEW p \in held'[d]
                 PROVE  /\ p.ts <= gate'[p.v]
                        /\ \A e \in Callers \ {d} : \A q \in held'[e] : Apart(p, q)
      BY DEF Hands
    <3>1. p.ts <= gate'[p.v]
      <4>1. point.ts <= gate'[point.v]
        BY <1>0, <2>1, <2>2, <2>4
      <4> QED BY <2>6, <2>8, <4>1
    <3>2. ASSUME NEW e \in Callers \ {d}, NEW q \in held'[e] PROVE Apart(p, q)
      <4>1. CASE d = c
        <5>1. p = point /\ q \in Points /\ q.ts <= gate[q.v]
          BY <2>8, <4>1
        <5> QED BY <2>5, <5>1
      <4>2. CASE e = c
        <5>1. q = point /\ p \in Points /\ p.ts <= gate[p.v]
          BY <2>8, <4>2
        <5> QED BY <2>5, <5>1, ApartSymmetric
      <4>3. CASE d # c /\ e # c
        <5>1. p \in held[d] /\ q \in held[e]
          BY <2>8, <4>3
        <5> QED BY <1>0, <5>1 DEF Hands
      <4> QED BY <4>1, <4>2, <4>3
    <3> QED BY <3>1, <3>2
  <2> QED BY <1>0, <2>3, <2>7, <2>9, <2>10
<1>8. ASSUME NEW c \in Callers, Send(c) PROVE Goal
  <2>1. PICK p \in held[c] :
          /\ held' = [held EXCEPT ![c] = {}]
          /\ queue' = queue \/ queue' = Append(queue, p)
          /\ UNCHANGED <<gate, buf, written>>
    BY <1>8 DEF Send
  <2>2. p \in Points /\ <<p>> \in Seq(Points)
    BY <1>0
  <2>3. \A d \in Callers : held'[d] \subseteq held[d] /\ (d = c => held'[d] = {})
    BY <1>0, <2>1
  <2>4. Hands(held', gate') /\ Clear(Track, held')
    BY <1>0, <2>1, <2>3 DEF Hands, Clear
  <2>5. CASE queue' = queue
    BY <1>0, <2>1, <2>4, <2>5 DEF Track
  <2>6. CASE queue' = Append(queue, p)
    <3>1. Append(queue, p) = queue \o <<p>>
      BY <1>0, <2>2, AppendIsConcat
    <3>2. written \o buf \in Seq(Points)
      BY <1>0, ConcatProperties
    <3>3. Track' = Track \o <<p>>
      BY <1>0, <2>1, <2>2, <2>6, <3>1, <3>2, ConcatAssociative DEF Track
    <3>4. Spread(<<p>>)
      BY DEF Spread
    <3>5. AllApart(Track, <<p>>)
      <4> SUFFICES ASSUME NEW i \in DOMAIN Track PROVE Apart(Track[i], p)
        BY DEF AllApart
      <4>1. Apart(p, Track[i])
        BY <1>0 DEF Clear
      <4> QED BY <4>1, ApartSymmetric
    <3>6. Below(<<p>>, gate)
      BY <1>0 DEF Below, Hands
    <3>7. Clear(<<p>>, held')
      <4> SUFFICES ASSUME NEW d \in Callers, NEW q \in held'[d] PROVE Apart(q, p)
        BY DEF Clear
      <4>1. d # c /\ q \in held[d]
        BY <2>3
      <4> QED BY <1>0, <4>1 DEF Hands
    <3>8. Spread(Track \o <<p>>) /\ Below(Track \o <<p>>, gate) /\ Clear(Track \o <<p>>, held')
      BY <1>0, <2>2, <2>4, <3>4, <3>5, <3>6, <3>7, SpreadConcat, ConcatParts
    <3> QED BY <2>1, <2>4, <3>3, <3>8
  <2> QED BY <2>1, <2>5, <2>6
<1>2. ASSUME queue # <<>>
      PROVE  /\ Append(buf, Head(queue)) \in Seq(Points) /\ Tail(queue) \in Seq(Points)
             /\ written \o Append(buf, Head(queue)) \o Tail(queue) = Track
  <2>1. Head(queue) \in Points /\ Tail(queue) \in Seq(Points)
    BY <1>0, <1>2, HeadTailProperties
  <2>2. Append(buf, Head(queue)) \in Seq(Points)
    BY <1>0, <2>1, AppendProperties
  <2>3. written \o Append(buf, Head(queue)) \o Tail(queue) = written \o buf \o queue
    <3>1. written \in Seq(Points) /\ buf \in Seq(Points) /\ queue \in Seq(Points)
      BY <1>0
    <3> QED BY <1>2, <3>1, HeadMoves
  <2> QED BY <2>1, <2>2, <2>3 DEF Track
<1>3. CASE Take
  <2>1. queue # <<>> /\ queue' = Tail(queue) /\ gate' = gate /\ held' = held
    BY <1>3 DEF Take
  <2>2. CASE Flush(Append(buf, Head(queue)))
    BY <1>0, <1>2, <2>1, <2>2, FlushSpaced
  <2>3. CASE buf' = Append(buf, Head(queue)) /\ UNCHANGED written
    <3>1. Track' = Track
      BY <1>2, <2>1, <2>3 DEF Track
    <3> QED BY <1>0, <2>1, <3>1
  <2> QED BY <1>3, <2>2, <2>3 DEF Take
<1>4. CASE Tick \/ LastFlush
  <2>1. Flush(buf) /\ queue' = queue /\ gate' = gate /\ held' = held
    BY <1>4 DEF Tick, LastFlush
  <2>2. /\ Spread(written \o buf \o queue) /\ Below(written \o buf \o queue, gate)
        /\ Clear(written \o buf \o queue, held)
    BY <1>0 DEF Track
  <2> QED BY <1>0, <2>1, <2>2, FlushSpaced
<1>5. CASE Drain
  <2>1. queue # <<>> /\ queue' = Tail(queue) /\ gate' = gate /\ held' = held
        /\ buf' = Append(buf, Head(queue)) /\ written' = written
    BY <1>5 DEF Drain
  <2>2. Track' = Track
    BY <1>2, <2>1 DEF Track
  <2> QED BY <1>0, <2>1, <2>2
<1>6. CASE Exit
  <2>1. Track' = <<>>
    BY <1>6, ConcatEmptySeq, EmptySeq DEF Exit, Track
  <2>2. \A c \in Callers : held'[c] = {}
    BY <1>6 DEF Exit
  <2> QED BY <2>1, <2>2, EmptySeq DEF Spread, Below, Clear, Hands
<1>7. CASE UNCHANGED <<written, buf, queue, gate, held>>
  BY <1>0, <1>7 DEF Track
<1> QED BY <1>1, <1>3, <1>4, <1>5, <1>6, <1>7, <1>8
        DEF Next, Open, StartDraining, Close, Closed, Crash, Prune, vars

LEMMA SpacedInvHolds == Spec => []SpacedInv
<1>1. Init => SpacedInv
  <2>1. Init => Typed
    BY TrailAssumption, EmptySeq DEF Init, Typed, TypeOK, Life
  <2>2. Init => Track = <<>>
    BY ConcatEmptySeq, EmptySeq DEF Init, Track
  <2>3. Init => \A c \in Callers : held[c] = {}
    BY DEF Init
  <2> QED BY <2>1, <2>2, <2>3, EmptySeq DEF SpacedInv, Spread, Below, Clear, Hands
<1> QED BY <1>1, SpacedStep, PTL DEF Spec

\* What one process records of a vessel is Interval apart all the way from the
\* gate to the table, in whatever order its callers queue what passed the gate
\* (store.go:108-136, 140-201).
THEOREM RecordedSpacedHolds == Spec => []RecordedSpaced
BY SpacedInvHolds, SpacedInvStates, PTL

-----------------------------------------------------------------------------
(* Closing.                                                                *)

\* What Close found is committed, buffered or still queued, and is committed
\* once the writer has ended.
CloseInv ==
  /\ Typed
  /\ store = "closing" => owed \subseteq ToSet(written) \cup ToSet(buf) \cup ToSet(queue)
  /\ CloseFlushes

\* A transaction accounts for every point it was given.
LEMMA FlushOwed ==
  ASSUME NEW points \in Seq(Points), Flush(points), written \in Seq(Points), NEW rest,
         owed \subseteq ToSet(written) \cup ToSet(points) \cup rest
  PROVE  owed' \subseteq ToSet(written') \cup rest
<1>1. CASE written' = written \o points /\ owed' = owed
  BY <1>1, SetOfConcat
<1>2. CASE owed' = owed \ ToSet(points) /\ written' = written
  BY <1>2
<1> QED BY <1>1, <1>2 DEF Flush

LEMMA CloseStep == CloseInv /\ [Next]_vars => CloseInv'
<1> SUFFICES ASSUME CloseInv, [Next]_vars PROVE CloseInv'
  OBVIOUS
<1>0. /\ Typed' /\ Life
      /\ written \in Seq(Points) /\ buf \in Seq(Points) /\ queue \in Seq(Points)
      /\ ToSet(<<>>) = {}
  BY TypedStep, EmptySeq DEF CloseInv, Typed, TypeOK, ToSet
<1>1. CASE Open
  BY <1>0, <1>1 DEF Open, CloseInv, CloseFlushes
<1>2. ASSUME NEW c \in Callers, Send(c) PROVE CloseInv'
  <2>1. PICK p \in held[c] :
          /\ queue' = queue \/ queue' = Append(queue, p)
          /\ UNCHANGED <<buf, store, writer, written, owed>>
    BY <1>2 DEF Send
  <2>2. p \in Points
    BY DEF CloseInv, Typed, TypeOK
  <2>3. ToSet(queue) \subseteq ToSet(queue')
    BY <1>0, <2>1, <2>2, SetOfAppend
  <2> QED BY <1>0, <2>1, <2>3 DEF CloseInv, CloseFlushes
<1>3. ASSUME queue # <<>>
      PROVE  /\ Append(buf, Head(queue)) \in Seq(Points) /\ Head(queue) \in Points
             /\ ToSet(queue) = {Head(queue)} \cup ToSet(Tail(queue))
             /\ ToSet(Append(buf, Head(queue))) = ToSet(buf) \cup {Head(queue)}
  BY <1>0, <1>3, HeadMoves, HeadTailProperties, AppendProperties, SetOfAppend
<1>4. CASE Take
  <2>1. queue # <<>> /\ queue' = Tail(queue) /\ writer = "running" /\ writer' = "running" /\ store' = store
    BY <1>4 DEF Take
  <2>2. CASE Flush(Append(buf, Head(queue)))
    <3>1. buf' = <<>>
      BY <2>2 DEF Flush
    <3>2. store = "closing" =>
            owed \subseteq ToSet(written) \cup ToSet(Append(buf, Head(queue))) \cup ToSet(queue')
      BY <1>3, <2>1 DEF CloseInv
    <3>3. store' = "closing" => owed' \subseteq ToSet(written') \cup ToSet(queue')
      BY <1>0, <1>3, <2>1, <2>2, <3>2, FlushOwed
    <3> QED BY <1>0, <2>1, <3>1, <3>3 DEF CloseInv, CloseFlushes
  <2>3. CASE buf' = Append(buf, Head(queue)) /\ UNCHANGED <<written, owed>>
    BY <1>0, <1>3, <2>1, <2>3 DEF CloseInv, CloseFlushes
  <2> QED BY <1>4, <2>2, <2>3 DEF Take
<1>5. CASE Tick \/ LastFlush
  <2>1. /\ Flush(buf) /\ buf' = <<>> /\ queue' = queue /\ store' = store
        /\ writer' = "off" => queue = <<>>
    BY <1>5 DEF Tick, LastFlush, Flush
  <2>2. store' = "closing" => owed' \subseteq ToSet(written') \cup ToSet(queue')
    BY <1>0, <2>1, FlushOwed DEF CloseInv
  <2> QED BY <1>0, <2>1, <2>2 DEF CloseInv, CloseFlushes
<1>6. CASE StartDraining
  BY <1>0, <1>6 DEF StartDraining, CloseInv, CloseFlushes
<1>7. CASE Drain
  BY <1>0, <1>3, <1>7 DEF Drain, CloseInv, CloseFlushes
<1>8. CASE Close
  BY <1>0, <1>8 DEF Close, CloseInv, CloseFlushes, Life
<1>9. CASE Exit
  BY <1>0, <1>9 DEF Exit, CloseInv, CloseFlushes
<1>10. CASE UNCHANGED <<written, buf, queue, store, writer, owed>>
  BY <1>0, <1>10 DEF CloseInv, CloseFlushes
<1> QED BY <1>1, <1>2, <1>4, <1>5, <1>6, <1>7, <1>8, <1>9, <1>10
        DEF Next, Pass, Closed, Crash, Prune, vars

\* When the writer has ended, what Close found has been committed, save for
\* what a failed transaction dropped (store.go:140-186, 368-377).
THEOREM CloseFlushesHolds == Spec => []CloseFlushes
<1>1. Init => CloseInv
  <2>1. Init => Typed
    BY TrailAssumption, EmptySeq DEF Init, Typed, TypeOK, Life
  <2> QED BY <2>1 DEF Init, CloseInv, CloseFlushes
<1>2. CloseInv => CloseFlushes
  BY DEF CloseInv
<1> QED BY <1>1, <1>2, CloseStep, PTL DEF Spec

-----------------------------------------------------------------------------
(* The table.                                                              *)

LEMMA FlushKeepsRows ==
  ASSUME TypeOK, NEW points \in Seq(Points), Flush(points)
  PROVE  rows \subseteq rows'
<1>1. rows \in SUBSET Points /\ \A p, q \in rows : (p.v = q.v /\ p.ts = q.ts) => p = q
  BY DEF TypeOK
<1>2. rows \subseteq Inserted(rows, points)
  BY <1>1, InsertedKeyed
<1>3. rows' = Inserted(rows, points) \/ rows' = rows
  BY DEF Flush
<1> QED BY <1>2, <1>3

LEMMA RowsStayStep ==
  ASSUME Typed, [Next]_vars
  PROVE  [\A p \in rows \ rows' : /\ ~HasRow(rows', p)
                                  /\ \A q \in rows' : q.ts > p.ts]_rows
<1>1. buf \in Seq(Points) /\ queue \in Seq(Points) /\ TypeOK
  BY DEF Typed, TypeOK
<1>2. CASE rows \subseteq rows'
  BY <1>2
<1>3. CASE Take
  <2>1. Append(buf, Head(queue)) \in Seq(Points)
    BY <1>1, <1>3, HeadTailProperties, AppendProperties DEF Take
  <2> QED BY <1>1, <1>2, <1>3, <2>1, FlushKeepsRows DEF Take
<1>4. CASE Tick \/ LastFlush
  BY <1>1, <1>2, <1>4, FlushKeepsRows DEF Tick, LastFlush
<1>5. ASSUME NEW before \in Times, Prune(before)
      PROVE  \A p \in rows \ rows' : ~HasRow(rows', p) /\ \A q \in rows' : q.ts > p.ts
  <2> SUFFICES ASSUME NEW p \in rows \ rows', NEW q \in rows'
               PROVE  ~SameKey(q, p) /\ q.ts > p.ts
    BY DEF HasRow
  <2>1. p.ts \in Int /\ q.ts \in Int /\ before \in Int /\ p.ts < before /\ q.ts >= before
    BY <1>1, <1>5, TrailAssumption DEF Prune, TypeOK, Points, Times
  <2> QED BY <2>1 DEF SameKey
<1> QED BY <1>2, <1>3, <1>4, <1>5
        DEF Next, Open, Pass, Send, StartDraining, Drain, Close, Closed, Crash, Exit, vars

\* A committed row never changes, and leaves only because it is old: a crash,
\* a failed transaction or a second point with its key leave it alone
\* (store.go:188-201, 337-346).
THEOREM RowsStayHolds == Spec => RowsStay
<1>1. Typed /\ [Next]_vars => [\A p \in rows \ rows' : /\ ~HasRow(rows', p)
                                                       /\ \A q \in rows' : q.ts > p.ts]_rows
  BY RowsStayStep
<1> QED BY <1>1, TypedHolds, PTL DEF Spec, RowsStay

-----------------------------------------------------------------------------
(* The log.                                                                *)

\* What a concatenation was made of can be cut off it again.
LEMMA CutConcat ==
  ASSUME NEW s \in Seq(Points), NEW t \in Seq(Points)
  PROVE  /\ Len(s \o t) = Len(s) + Len(t)
         /\ {(s \o t)[i] : i \in 1 .. Len(s)} = ToSet(s)
         /\ SubSeq(s \o t, Len(s) + 1, Len(s \o t)) = t
<1> DEFINE c == s \o t
<1>1. /\ c \in Seq(Points) /\ Len(c) = Len(s) + Len(t)
      /\ \A i \in 1 .. Len(s) + Len(t) : c[i] = IF i <= Len(s) THEN s[i] ELSE t[i - Len(s)]
  BY ConcatProperties
<1>2. Len(s) \in Nat /\ Len(t) \in Nat
  BY LenProperties
<1> HIDE DEF c
<1>3. {c[i] : i \in 1 .. Len(s)} = ToSet(s)
  <2>1. DOMAIN s = 1 .. Len(s) /\ \A i \in 1 .. Len(s) : c[i] = s[i]
    BY <1>1, <1>2, LenProperties
  <2> QED BY <2>1 DEF ToSet
<1>4. SubSeq(c, Len(s) + 1, Len(c)) = t
  <2> DEFINE m == Len(s) + 1
             n == Len(c)
             r == SubSeq(c, m, n)
  <2>0. /\ m \in Int /\ n \in Int /\ \A i \in m .. n : c[i] \in Points
        /\ m <= n => n - m + 1 = Len(t)
        /\ ~(m <= n) => Len(t) = 0
        /\ \A i \in 1 .. Len(t) : i \in 1 .. n - m + 1 /\ m + i - 1 = i + Len(s)
    <3>1. m \in Int /\ n \in Int /\ \A i \in m .. n : i \in 1 .. Len(c)
      BY <1>1, <1>2
    <3>2. \A i \in 1 .. Len(c) : c[i] \in Points
      BY <1>1
    <3>3. n = Len(s) + Len(t)
      BY <1>1
    <3> HIDE DEF n
    <3> QED BY <1>2, <3>1, <3>2, <3>3
  <2> HIDE DEF m, n
  <2>1. r \in Seq(Points) /\ Len(r) = Len(t) /\ \A i \in 1 .. Len(t) : r[i] = c[i + Len(s)]
    <3>1. /\ r \in Seq(Points)
          /\ Len(r) = IF m <= n THEN n - m + 1 ELSE 0
          /\ \A i \in 1 .. n - m + 1 : r[i] = c[m + i - 1]
      BY <2>0, SubSeqProperties
    <3> QED BY <2>0, <3>1
  <2>2. ASSUME NEW i \in 1 .. Len(t) PROVE c[i + Len(s)] = t[i]
    <3>1. /\ i + Len(s) \in 1 .. Len(s) + Len(t) /\ ~(i + Len(s) <= Len(s))
          /\ (i + Len(s)) - Len(s) = i
      BY <1>2
    <3> QED BY <1>1, <3>1
  <2>3. r = t
    BY <2>1, <2>2, SeqEqual
  <2> QED BY <2>3 DEF m, n, r
<1> QED BY <1>1, <1>3, <1>4 DEF c

\* No two points of a batch whose points are apart have the same key, so the rule against
\* that never keeps a point from being recorded.
LEMMA InsertedSpread ==
  ASSUME NEW table \in SUBSET Points, NEW points \in Seq(Points), Spread(points)
  PROVE  Inserted(table, points) = table \cup {p \in ToSet(points) : ~HasRow(table, p)}
<1>1. DOMAIN points = 1 .. Len(points) /\ Len(points) \in Nat /\ \A i \in DOMAIN points : points[i] \in Points
  BY LenProperties
<1>2. ASSUME NEW j \in DOMAIN points, NEW k \in 1 .. j - 1
      PROVE  ~SameKey(points[k], points[j])
  <2>1. k \in DOMAIN points /\ k < j
    BY <1>1
  <2>2. Apart(points[k], points[j])
    BY <2>1 DEF Spread
  <2>3. points[k].ts \in Int /\ points[j].ts \in Int /\ Interval \in Int /\ Interval > 0
    BY <1>1, <2>1, TrailAssumption DEF Points, Times
  <2> QED BY <2>2, <2>3 DEF Apart, SameKey
<1>3. Inserted(table, points) = table \cup {points[i] : i \in {j \in DOMAIN points : ~HasRow(table, points[j])}}
  BY <1>2 DEF Inserted
<1> QED BY <1>3 DEF ToSet

\* A transaction that commits the points in front of what waits commits a batch
\* of the log, and one that fails drops it.
LEMMA FlushLog ==
  ASSUME SpacedInv, NEW points \in Seq(Points), NEW rest \in Seq(Points),
         Flush(points), buf \o queue = points \o rest, queue' = rest, gate' = gate,
         held' = held, Spread(points)
  PROVE  [Store!LogNext]_(Store!logVars)
<1> DEFINE n == Len(points)
<1>1. /\ rows \in SUBSET Points /\ n \in Nat
      /\ buf' \o queue' = rest /\ InHand' = InHand
  BY LenProperties, ConcatEmptySeq DEF SpacedInv, Typed, TypeOK, Flush, InHand
<1>2. /\ {(buf \o queue)[i] : i \in 1 .. n} = ToSet(points)
      /\ SubSeq(buf \o queue, n + 1, Len(buf \o queue)) = rest
      /\ Len(buf \o queue) = n + Len(rest)
  BY CutConcat
<1>3. CASE points = <<>>
  <2>1. rows' = rows
    <3>1. Inserted(rows, points) = rows
      BY <1>3, EmptySeq DEF Inserted
    <3> QED BY <1>3, <3>1 DEF Flush
  <2>2. buf \o queue = rest
    BY <1>3, ConcatEmptySeq
  <2> QED BY <1>1, <2>1, <2>2 DEF Store!logVars
<1>4. CASE points # <<>>
  <2>1. n \in 1 .. Len(buf \o queue)
    <3>1. n # 0 /\ Len(rest) \in Nat
      BY <1>4, EmptySeq, LenProperties
    <3> QED BY <1>1, <1>2, <3>1
  <2>2. CASE rows' = Inserted(rows, points)
    <3>1. rows' = rows \cup {p \in ToSet(points) : ~HasRow(rows, p)}
      BY <1>1, <2>2, InsertedSpread
    <3>2. rows' = rows \cup {p \in ToSet(points) : Store!Unrecorded(p)}
      BY <3>1 DEF HasRow, SameKey, Store!Unrecorded
    <3>3. Store!Commit(n)
      BY <1>1, <1>2, <3>2 DEF Store!Commit, Store!Batch
    <3> QED BY <2>1, <3>3 DEF Store!LogNext
  <2>3. CASE rows' = rows
    <3>1. Store!Fail(n)
      BY <1>1, <1>2, <2>3 DEF Store!Fail
    <3> QED BY <2>1, <3>1 DEF Store!LogNext
  <2> QED BY <2>2, <2>3 DEF Flush
<1> QED BY <1>3, <1>4

\* Every step of the store is a step of the log or changes nothing of it.
LEMMA LogStep ==
  ASSUME SpacedInv, [Next]_vars
  PROVE  [Store!LogNext]_(Store!logVars)
<1>0. /\ written \in Seq(Points) /\ buf \in Seq(Points) /\ queue \in Seq(Points)
      /\ rows \in SUBSET Points
      /\ held \in [Callers -> SUBSET Points]
      /\ \A c \in Callers : \A p, q \in held[c] : p = q
  BY DEF SpacedInv, Typed, TypeOK
<1>1. Spread(buf \o queue) /\ Spread(buf)
  <2>1. written \o buf \in Seq(Points) /\ buf \o queue \in Seq(Points)
    BY <1>0, ConcatProperties
  <2>2. written \o buf \o queue = written \o (buf \o queue)
    BY <1>0, ConcatAssociative
  <2>3. Spread(written \o (buf \o queue))
    BY <2>2 DEF SpacedInv, Track
  <2>4. Spread(buf \o queue)
    BY <1>0, <2>1, <2>3, SpreadConcat
  <2> QED BY <1>0, <2>4, SpreadConcat
<1>2. ASSUME queue # <<>>
      PROVE  /\ Append(buf, Head(queue)) \in Seq(Points) /\ Tail(queue) \in Seq(Points)
             /\ Append(buf, Head(queue)) \o Tail(queue) = buf \o queue
             /\ Spread(Append(buf, Head(queue)))
  <2>1. Head(queue) \in Points /\ Tail(queue) \in Seq(Points)
    BY <1>0, <1>2, HeadTailProperties
  <2>2. Append(buf, Head(queue)) \in Seq(Points)
    BY <1>0, <2>1, AppendProperties
  <2>3. <<>> \o Append(buf, Head(queue)) \o Tail(queue) = <<>> \o buf \o queue
    <3>1. <<>> \in Seq(Points) /\ buf \in Seq(Points) /\ queue \in Seq(Points)
      BY <1>0, EmptySeq
    <3> QED BY <1>2, <3>1, HeadMoves
  <2>4. <<>> \o Append(buf, Head(queue)) = Append(buf, Head(queue)) /\ <<>> \o buf = buf
    BY <1>0, <2>2, ConcatEmptySeq
  <2>5. Append(buf, Head(queue)) \o Tail(queue) = buf \o queue
    BY <2>3, <2>4
  <2>6. Spread(Append(buf, Head(queue)) \o Tail(queue))
    BY <1>1, <2>5
  <2> QED BY <2>1, <2>2, <2>5, <2>6, SpreadConcat
<1>3. CASE UNCHANGED <<rows, buf \o queue, gate, held>>
  BY <1>3 DEF Store!logVars, InHand
<1>4. ASSUME NEW c \in Callers, NEW v \in Vessels, NEW ts \in Times, NEW fix \in Fixes, Pass(c, v, ts, fix)
      PROVE  Store!LogNext
  <2> DEFINE point == [v |-> v, ts |-> ts, fix |-> fix]
  <2>1. point \in Points /\ point.v = v /\ point.ts = ts
    BY DEF Points
  <2>2. /\ gate[v] = -1 \/ ts - gate[v] >= Interval
        /\ gate' = [gate EXCEPT ![v] = ts]
        /\ held[c] = {} /\ held' = [held EXCEPT ![c] = {point}]
        /\ queue' = queue /\ buf' = buf /\ rows' = rows
    BY <1>4 DEF Pass, Gate
  <2> HIDE DEF point
  <2>3. InHand' = InHand \cup {point}
    BY <1>0, <2>2 DEF InHand
  <2>4. Store!Accept(point)
    BY <2>1, <2>2, <2>3 DEF Store!Accept
  <2> QED BY <2>1, <2>4 DEF Store!LogNext
<1>11. ASSUME NEW c \in Callers, Send(c) PROVE Store!LogNext
  <2>1. PICK p \in held[c] :
          /\ held' = [held EXCEPT ![c] = {}]
          /\ queue' = queue \/ queue' = Append(queue, p)
          /\ UNCHANGED <<rows, gate, buf>>
    BY <1>11 DEF Send
  <2>2. p \in Points /\ p \in InHand /\ held[c] = {p}
    BY <1>0 DEF InHand
  <2>3. ASSUME NEW d \in Callers \ {c} PROVE p \notin held[d]
    <3> SUFFICES ASSUME p \in held[d] PROVE FALSE
      OBVIOUS
    <3>1. Apart(p, p)
      BY DEF SpacedInv, Hands
    <3>2. p.ts - p.ts = 0 /\ Interval > 0
      BY <2>2, TrailAssumption DEF Points, Times
    <3> QED BY <3>1, <3>2, TrailAssumption DEF Apart
  <2>4. InHand' = InHand \ {p}
    <3>1. \A d \in Callers : held'[d] = held[d] \ {p}
      <4> SUFFICES ASSUME NEW d \in Callers PROVE held'[d] = held[d] \ {p}
        OBVIOUS
      <4>1. CASE d = c
        BY <1>0, <2>1, <2>2, <4>1
      <4>2. CASE d # c
        BY <1>0, <2>1, <2>3, <4>2
      <4> QED BY <4>1, <4>2
    <3> QED BY <3>1 DEF InHand
  <2>5. buf \o Append(queue, p) = Append(buf \o queue, p)
    <3>1. <<p>> \in Seq(Points) /\ buf \o queue \in Seq(Points)
      BY <1>0, <2>2, ConcatProperties
    <3>2. Append(queue, p) = queue \o <<p>> /\ Append(buf \o queue, p) = (buf \o queue) \o <<p>>
      BY <1>0, <2>2, <3>1, AppendIsConcat
    <3> QED BY <1>0, <3>1, <3>2, ConcatAssociative
  <2>6. buf' \o queue' \in {buf \o queue, Append(buf \o queue, p)}
    BY <2>1, <2>5
  <2>7. Store!Enter(p)
    BY <2>1, <2>4, <2>6 DEF Store!Enter
  <2> QED BY <2>2, <2>7 DEF Store!LogNext
<1>5. CASE Take
  <2>1. queue # <<>> /\ queue' = Tail(queue) /\ gate' = gate /\ held' = held
    BY <1>5 DEF Take
  <2>2. CASE Flush(Append(buf, Head(queue)))
    BY <1>2, <2>1, <2>2, FlushLog
  <2>3. CASE buf' = Append(buf, Head(queue)) /\ rows' = rows
    <3>1. buf' \o queue' = buf \o queue
      BY <1>2, <2>1, <2>3
    <3> QED BY <1>3, <2>1, <2>3, <3>1
  <2> QED BY <1>5, <2>2, <2>3 DEF Take
<1>6. CASE Tick \/ LastFlush
  <2>1. Flush(buf) /\ queue' = queue /\ gate' = gate /\ held' = held
    BY <1>6 DEF Tick, LastFlush
  <2> QED BY <1>0, <1>1, <2>1, FlushLog
<1>7. CASE Drain
  <2>1. /\ queue # <<>> /\ queue' = Tail(queue) /\ buf' = Append(buf, Head(queue))
        /\ UNCHANGED <<gate, held, rows>>
    BY <1>7 DEF Drain
  <2>2. buf' \o queue' = buf \o queue
    BY <1>2, <2>1
  <2> QED BY <1>3, <2>1, <2>2
<1>8. CASE Exit
  <2>1. buf' \o queue' = <<>>
    BY <1>8, ConcatEmptySeq, EmptySeq DEF Exit
  <2>2. InHand' = {}
    BY <1>8 DEF Exit, InHand
  <2>3. Store!Forget
    BY <1>8, <2>1, <2>2 DEF Exit, Store!Forget, Store!Nothing
  <2> QED BY <2>3 DEF Store!LogNext
<1>9. ASSUME NEW before \in Times, Prune(before)
      PROVE  Store!LogNext
  <2>1. rows' = {p \in rows : p.ts >= before} /\ UNCHANGED <<gate, held, queue, buf>>
    BY <1>9 DEF Prune
  <2>2. ASSUME NEW p \in rows \ rows', NEW q \in rows' PROVE p.ts < q.ts
    <3>1. p.ts \in Int /\ q.ts \in Int /\ before \in Int
      BY <1>0, <2>1, TrailAssumption DEF Points, Times
    <3> QED BY <2>1, <3>1
  <2>3. Store!Expire
    BY <2>1, <2>2 DEF Store!Expire, InHand
  <2> QED BY <2>3 DEF Store!LogNext
<1>10. CASE UNCHANGED <<rows, buf, queue, gate, held>>
  BY <1>3, <1>10
<1> QED BY <1>4, <1>5, <1>6, <1>7, <1>8, <1>9, <1>10, <1>11
        DEF Next, Open, StartDraining, Close, Closed, Crash, vars

\* The store implements TrailLog: what the gate has let through is queued once
\* or dropped; what is queued reaches the table in that order, a batch at a time
\* and each as a whole, or is lost with its batch or with the process
\* (store.go:51-75, 108-201, 368-377).
THEOREM TrailKeepsLog == Spec => KeepsLog
<1>1. Init => Store!LogInit
  <2>1. Init => InHand = {}
    BY DEF Init, InHand
  <2> QED BY <2>1, ConcatEmptySeq, EmptySeq DEF Init, Store!LogInit, Store!Nothing
<1>2. SpacedInv /\ [Next]_vars => [Store!LogNext]_(Store!logVars)
  BY LogStep
<1> QED BY <1>1, <1>2, SpacedInvHolds, PTL DEF Spec, KeepsLog, Store!Log
=============================================================================
